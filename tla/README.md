# Verification of the CPU pipeline simulator

This directory holds TLA+ modules that model the simulator in
`src/Simulator`, its graphical interface with the assembler in `src/GUI`, and the
developer's tools around them, TLC configurations that check them on small instances, and
proofs of theorems about them that TLAPS checks. Every definition names, in
`PROJECT.json` under `map`, the lines of the source it is translated from.

Paths below are relative to `src/Simulator/src` unless they begin with `src/`.

## 1. The system

A 16-bit CPU with a pipeline, simulated by one thread per pipeline module. The
threads are real C++ threads: how they interleave within a clock cycle is up to
the operating system. A graphical interface in Python assembles a program,
starts the simulator as a process and displays what it recorded.

    main ── CPU.runSimulation ── joins EX, DE, IC, LS, then stops the Clock
                          Clock ── ticks ──▶ all four modules

      IC ──── fetch windows ───▶ DE ──── instructions ───▶ EX
       ▲ ◀─ new IP (a signal) ──  ◀────── new IP ───────    │
       │                                                    │ memory requests
       └── windows, invalidations ── LS ◀──────────────────┘
                                      └─ cache of words ─ Memory

| Part | State it keeps | Operations | Talks to |
|---|---|---|---|
| Load/Store (`modules/load_store`, `cache`, `memory`) | K-way write-back cache of words, physical memory | load and store of EX, fetch window of IC, write-back, invalidation of IC | EX, IC by pipes |
| Instruction Cache (`modules/instruction_cache`, `cache/DMCache.h`) | direct-mapped cache of fetch windows, internal IP | fetch next window, take invalidation, obey signal, push window | LS, DE by pipes |
| Decode (`modules/decode`) | words held of fetched windows, address to discard until | acknowledge a change of the IP, drain, discard, decode | IC, EX by pipes; reads the EXCEPTION flag of EX |
| Execute (`modules/execute`, `execution_strategies`) | registers; stack and save state area in memory | drop or perform an instruction, exceptions | DE, LS by pipes |
| Clock and threads (`cpu`, `synchronization`, `main.cpp`) | cycle count, `running`, `selfRunning`, `ICReady`, a condition variable | tick, sleep until a tick, run loop, join | everyone |
| Pipes (`synchronization`) | two queues under mutexes per pipe | push, pop, number of messages | between threads |
| Execution recorder (`logging`) | one state per cycle, mirrored pipes, end reason | a call by every thread for everything it does | everyone |
| Assembler (`src/GUI/src/dependencies/pyasm.py`, a copy in `src/Simulator/utils`) | blocks of each section, vectors, labels, the error | parse a text, solve labels, write words | interface, `DevHelper.py` |
| Interface: run (`src/GUI/src/InputTab.py`, `GUI.py`) | the simulator's process, buttons, dialogs | convert, execute, cancel, `finished()`, open, save, close | simulator's process and directory |
| Interface: show (`SimulationTab.py`, `DiagramComponents.py`) | slider, index, mapping of memory, marks, what is selected | load, step, drag, autoplay, hover, press | recorder's files, configuration |
| Interface: configuration, help (`ConfigTab.py`, `HelpTab.py`) | fields, configuration in force | edit, save, reset | simulator's arguments, simulation tab |
| `DevHelper.py`, `GenReleaseExe.py`, build files | files only | build, parse, run, test, batch, release, package | processes of the tools |

What is hard in it:

* **Speculation without a rollback.** IC and DE run ahead of the program. What
  was fetched and decoded wrongly is dropped by comparing addresses, at four
  places, while the messages that cause it are still on their way.
* **Coherence by messages.** A store of EX invalidates a window by a message in
  the pipe that also carries windows; IC takes messages at two places.
* **A write-back cache under two clients** with a priority that depends on the
  cycle a request was sent in, and lines left uninitialised on purpose.
* **The end.** Any of `end_sim`, a double exception and the limit of cycles
  ends the simulation while every module sleeps, polls or works.
* **Handlers within handlers.** The interface has one thread, but a message box or
  a file dialog runs an event loop of its own, in which the end of another process
  and ticks of the autoplay are served before the handler that opened it goes on.
* **Files as messages.** A run hands its results over in a directory that the next
  run empties, a cancelled one may still write to, and autoplay reads.
* **State kept between calls.** The assembler keeps labels from one text to the
  next; the simulation tab keeps an index, a mode and a mapping from one recording
  to the next; the hex file is that of any earlier text.
* **Small integers.** Addresses wrap at 16 bits, a tag and some times are bytes.

What makes the parts correct:

* *LS*: looks like one flat memory; loses no store when it evicts; sends the
  invalidation of every word after any window that was read before it; answers.
* *IC*: sends windows in order from its IP, obeys signals; a hit is current.
* *DE*: builds an instruction from the words at its address; finds the target.
* *EX*: executes the instructions of the program and no others, in order.
* *Threads*: no thread sleeps for want of a tick; all are joined; a reason is
  recorded before the result is written.
* *Recorder*: a message received was sent; the last cycle is the right one.
* *Assembler*: a word is loaded at the address its label stands for; labels are
  those of this text; the line it rejects is the one that is wrong.
* *Interface*: the user can always go on; a run that ends is answered; what is
  shown is what the last run recorded, in the cycle the slider is at.
* *DevHelper*: a command that returned True did what it is for, whatever earlier
  ones left half-done.

`PROJECT.json` lists the hazards of this code one by one, at the line where each
bites, with the property that would notice, or the reason none does yet.

## 2. Modules

    Addresses ─┬─ MemoryPipes ─┬─ FlatMemory            (abstract)
               │               ├─ LoadStore             implements FlatMemory
               │               └─ FetchPath             uses FlatMemory as LS,
               │                                        implements Fetcher
               ├─ Fetcher                               (abstract)
               └─ Programs ────┬─ Machine               (abstract)
                               └─ Pipeline              uses Fetcher as IC,
                                                        implements Machine
    Shutdown                                            on its own
    Recording                                           on its own

    Assembler ── Listing ──┬─ Assembling                the input tab's text
               (reference) └─ DevTools                  the command loop

    Session ────── View ────── Interface                implements Session

The chain of abstract specifications is what lets each part be checked in an
instance TLC finishes: `LoadStore` is shown to implement `FlatMemory`, which
stands for LS next to the Instruction Cache; `FetchPath` is shown to implement
`Fetcher`, which stands for IC next to Decode and Execute; `Pipeline` is shown to
implement `Machine`, the sequential machine a programmer has in mind. That the
client an abstraction was checked with is the client it has is a property too
(`ActsAsClient`). `Fetcher` sends addresses of windows, not their contents, so
that the last link assumes code that is not written to while it runs; see 6.

**Addresses, MemoryPipes.** Word addresses, which wrap; windows; the messages
and pipes around LS; the two clients, which have one request under way each;
and the control of the LS loop. Pushing and popping are one step each, as under
the mutex of the queue. `odd` is the lowest bit of a request's address. The
bounds `EXRequests`, `ICWindows`, `MaxQueue` limit what clients may ask.

**FlatMemory.** A store takes effect word by word and queues the invalidation of
that word in the same step; a window is read in one step; a load returns what
memory holds. With `GarbageMemory` a word never written may read as anything,
differently each time; the runs are without it (see the findings).

**LoadStore.** `LoadStore.cpp` and `KWayAssociativeCache.h`. Each word of a
request is a step: `LoadHit`, `LoadMiss`, `StoreWord`; `ReadWindow` is a whole
window, since no other thread touches the cache. `IsFound` is the loop of
`isAHit`, which stops at the first line with the tag, valid or not; `IsVictim`
the search for a line to replace; `Replace` and `WrittenBack` what happens to its
word. `FreshLines` is what `new` leaves in an uninitialised line. `exSentAt` and
`now` decide whom LS serves first, and that a request is not served in the
cycle it came in. How many cycles an operation takes is left out, except that
one round of the loop starts in a later cycle than the one before (`StartOp`).

**Fetcher, FetchPath.** `InstructionCache.cpp` and `DMCache.h`. An operation
takes one message for an invalidation (`TakeOldMessage`), looks up the internal
IP (`BeginHit`, `BeginMiss`), waits for the window while invalidations come
(`TakeInvalidation`, `TakeResponse`), then checks for a signal and pushes the
window in two steps (`ObeySignal`, `NoSignal`, `PushWindow`): Decode may signal
between them. `prepared` is the window the cache was last prepared for, under
which `store` files what came. `TagSpan` is how many values a tag has; windows with the
same line and tag are one to the cache (`Aliases`). Decode takes
windows and signals addresses at any time here.

**Programs, Machine, Pipeline.** A word of a program is what it does as the first
word of an instruction and the address it is as a parameter. `Machine` executes
one instruction a step, with calls, returns, exceptions, their save state area,
and odd instruction pointers. `Pipeline` is `Decode.cpp` with
`WorkTempStorage.cpp` and `Execute.cpp`. A held word is named by the address it
was fetched from, so that `WordsAtAddress` can tell the right words from others
that happen to be equal. `Acknowledge`, `Drain`, `Sift`, `Idles`, `DecodeHeld`,
`DecodeNext`, `Emit` are the stretches of `executeModuleLogic` between two
accesses to pipes; `Discard`, `Perform`, `TellDecode` those of Execute. Decode
reads the EXCEPTION flag of Execute when it decodes, as the code does.

**Shutdown.** The five threads and the main one, each at a place in its code.
A module that waits for a tick first looks at `running`, then falls asleep
(`Await`, `FallAsleep`): the notification between the two is missed. `Spend`
takes a tick or none, which covers every configured duration. What modules do
is left out, but for requests to LS: EX polls for the answer until it comes, IC
gives up when the simulation has ended, LS answers if it still runs.
`cycleCount` stops one beyond the limit: higher values have the same effect.

**Recording.** `ExecutionRecorder.cpp` and those who call it without a lock: the
Instruction Cache, Decode, Execute, the clock, and the main thread at the end. One
simulation is recorded in both modes at once: `states` has a state for each cycle,
`final` is the second of the two that single state mode keeps. Sending or taking a
window and reporting it are two steps; a drained pipe is reported as one pop; a new
state is copied (`CopyState`) and then appended (`AppendState`), and what is reported
between the two stays in the old one; Execute clears `running`, records its text and
sets the reason in three steps. `finalCycle` and `LastWritten` are `dumpSimulation`.
`overtaken`, `raced` and `miscounted` are history: a pop reported before its push, a
report made while the clock makes a state, a drain of another number of windows than
one. The other pipes are recorded by the same code; the mirrored caches and registers
and the JSON are left out.

**Assembler, Listing, Assembling.** `Assembler` is `pyasm.py`: a text is a sequence
of lines as the grammar reads them, the state of the object a record, a parse
action an operator on it (`EnterSection`, `DefineLabel`, `AddInstr`), and
`Assemble` one call of `assemble`: `Parsed`, `Solved`, `Written`, each of which can
end in an error. `labelDict` and what `Reset` forgets survive from one text to the
next. `Listing` says the same without dictionaries, from the position of a line:
which texts are legal (`Legal`, or `LegalBesidesVectors` but for what a vector
holds), which address a line has, what each word in memory is; and
`Load` is how the simulator reads a hex file. `Assembling` types a text line by
line and converts it once, with the object fresh or left by an earlier text.

**DevTools.** One command of `DevHelper.py` at a time, as a step for each process it
starts (`doing`), each of which succeeds, fails (`Fail`) or is interrupted
(`Interrupt`, Ctrl-C). A run leaves no log, as the simulator takes its path for a
directory, and `Test` never succeeds (see the disagreements). A simulator is the version of the sources it was built from;
texts are assembled by `Assembler`, with a new object. Sources and texts are edited between commands.
`last` remembers the command that returned, until something is edited, and `current`
that a Parse ended since the text was edited and none was interrupted after it.

**Session, View, Interface.** `Session` is the input tab, the configuration tab, the
window and the processes: a process is at work, stuck (`Shutdown` shows how), over
but not answered, or answered; `dialogs` is the stack of handlers that wait in
an event loop of their own. `WriteCycle` is `dumpSimulation`, cycle by cycle and
possibly late. An exception that nothing catches ends a PyQt program: `Abort`, of a
text that cannot be written, read or decoded (`TextAborts`), of a file of results that
cannot be removed since a process has it open (`CleanUpAborts`, which leaves the rest of
them), of `kill()` without a process, or in the simulation tab.
`View` is the simulation tab: `SetValue` and `Moved` are the slider, which draws
before the index is set; `LoadSimulationData` loads results, `ShowResults` puts
them up; `...Aborts` say when reading them raises an exception. `Hover` and `Press`
are the mouse. `Interface` composes them: `TabKept` keeps the tab, or makes a new
one when the program ends, in the session's steps. `late` and `edited` are history:
a run started while an earlier one is unanswered, and a configuration saved while
a run uses another. Properties name them where the code gives no more.

**Left out of every model**: wording of logs and of what is recorded, the number of
cycles an operation is configured to take, arithmetic and data registers.

## 3. Runs

| Run | Instance | Shows |
|---|---|---|
| `loadstore` | 6 words, 2 sets × 2 ways, 5 cycles, 7 requests | flat memory, nothing lost, EX is answered |
| `fetchpath` | 5 windows, 2 lines, 2 tags, 3 requests | windows in order and, if not written to, exact up to the tag |
| `stale_window` | the same | *violated*: a write leaves a wrong window valid |
| `pipeline` | 5 programs of 8 words, windows of 2 | instructions as on the sequential machine |
| `straddling` | 1 program | *violated*: an instruction of the wrong words |
| `early_exit` | 1 program | *violated*: a handler's exit ends the simulation |
| `shutdown` | limit of 2 cycles | everything is joined and reported, or EX polls |
| `stops_at_limit` | limit of 1 cycle | *violated*: EX polls for ever |
| `recording` | limit of 2 cycles, 2 windows | the pipe and the last cycle as recorded |
| `assembling` | 5 openings, 12 lines, 3 typed, 2 earlier texts | assembled as listed, whatever was assembled before |
| `devtools` | 5 texts, 4 commands, batches of 2, 2 versions | what a command that returned True has done |
| `interface` | 2 runs, 3 cycles, 2 configurations, 3 clicks | what is shown is the last run's, and the user can go on |

**loadstore** (`MCLoadStore`). Three addresses share a set of two lines, so that
loads and stores evict each other's modified and clean words; two requests cross
the end of the address space, one of them in three words; one is at an odd
address. `NoShadowedLine` is why `isAHit` may stop at the first line with the
tag. `CleanLineMatchesMemory` is why a clean line may be dropped.
`ImplementsFlatMemory` maps the memory to the modified lines over physical
memory and says that no client can tell. `EXAnswered` is the priority of LS.
Five cycles let a word be stored, evicted by two more requests and read back. No
request is sent in the last two cycles, because the clock's bound would cut it
off; as it ends there, deadlock is not checked.

**fetchpath** (`MCFetchPath`). Three of the five windows share a line, and two of
these the tag as well; stores of one and of two words hit a window of the other line, so
that one or two invalidations come before, during and after the wait for it, and Decode
signals into two windows. `UnwrittenUpToTag` is what remains true in spite of
`stale_window`: where no store goes, what is delivered is the window asked for or one that
the tag does not tell from it, even next to code that is written to. That it is the window
itself is false, in this run as in the code with its default of 16 lines (see the
disagreements). `OvertakenIsInvalidated` is the
promise of LS that an invalidation comes behind the stale window.
`ImplementsFetcher` includes that every operation ends: the loop around
invalidations is left. Deadlock is checked.

**pipeline** (`MCPipeline`). The five programs loop, call and return, jump to an
odd address, change the address a handler returns to, fault right before their
own handler, overflow and underflow the stack, and run into unknown opcodes in
and out of handlers. The address space of eight words wraps, so that IC
prefetches everything again and again, and an instruction of the old stream may
have the address of the new. In these programs no jump target is followed by an
instruction that reaches into the next window before a window ends: `straddling`
shows why. `ImplementsMachine` includes progress: after any number of jumps,
drained windows and odd pointers Execute gets its next instruction. Up to two windows,
two instructions and four signals wait, which is enough for one of the old and
one of the new stream to be in each pipe at once. The simulation may end, so
deadlock is not checked.

**straddling**, **early_exit** run the same module on one program each.

**shutdown** (`Shutdown`). Two cycles let requests be sent, be served and be
answered before, at and after the last tick; behaviours go on ticking beyond. Every thread
ends, so deadlock is not checked.

**recording** (`Recording`). Two ticks let the Instruction Cache send a window in each
of two operations, so that one may be reported, taken or drained before, in and after
the step to a new state, and let Execute end the simulation in the first cycle, in the
last one and beyond the limit. `PipeIsShown` says that between reports the recorded
pipe is the pipe, `LastIsTheEnd` that both modes end with the cycle in which Execute
said so. Their hypotheses name the orders in which the code gives neither. There is no
lock to wait for, so no liveness is stated, and no fairness; every thread ends, so
deadlock is not checked.

**assembling** (`MCAssembling`). The lines are those a text can go wrong with:
sections entered twice, labels defined twice or not at all, numbers too large,
operands that do not fit, a block too large for its area, junk. The room is twelve
words of program and eight of boot code, so that both overflow.
`AcceptsLegalButForVectors` and `LoadedAsListed` compare the assembler with `Listing`: which
texts are accepted, and what memory the simulator loads from the file. Texts with two words
in a vector are among those of the run, and accepted, which is not what the parser or the
help tab say (see the disagreements). `LoadedAsListed` is
about texts with one block of boot code (`OneBlockOf`) and with vectors that end below
the program (`VectorsFit`, true in every state of the run); see the findings.
`EarlierTextsOnlyAdd` says what a text assembled before can change: labels may be
known that this text lacks, and lines may stand before its first section. `ProgramKept`
says that the words of the program and of the vectors are as listed even where the
boot code is not (see below), and `RejectedIsMarked` that the highlighter finds a
line of this text to mark. A text is converted once: deadlock is
not checked.

**devtools** (`MCDevTools`). Two programs, of which one is shorter than the other,
a text with a label that is not defined and one with a word too large for the
simulator. Four commands are enough for a build, a release or a parse that
fails, and another that succeeds after it. `ParsedIsListed` covers files left over,
cut off by Ctrl-C, or begun by a text with an error; `RunIsOfText` that a Run or a batch
behind it, which returns True, ran that program, and that none returns True of the text
with the large word. A fifth text has two blocks of boot
code: without `OneBlockOf` among its hypotheses the property fails for it. The bound on commands ends a
session: deadlock is not checked.

**interface** (`MCInterface`). Two runs are what a late answer, an early start and
leftover files take; a simulation of three cycles and one of two let the second run be
shorter. `ShownIsRecorded` relates the slider, the mapping of memory, the files in
the directory and what the process recorded. `AbortsAreKnown` is an action
property: Cancel always has a process to kill; a file that cannot be removed ends the
program only where a run was started, or a failure is reported, while another one is
unanswered; and the tab raises an exception only in four ways, each a race or a leftover.
A text that cannot be written, read or decoded may end the program at any time, and nothing
is claimed of it. `AutoplayEnds` and `RunsAreAnswered` are liveness. The user may
stop, and clicks are bounded by `MaxClicks`: deadlock is not checked.

### Fairness

Each thread is weakly fair, as the operating system schedules every thread and
no thread holds a lock while it waits (`synchronization/ConcurrentQueue.h` takes
its mutex for one access). `LoadStore` has the clock and LS fair, and asks
nothing of the clients. Nothing else is assumed: no fairness of single actions,
so that for instance Decode may lose the race against IC for ever unless the
code prevents it. Strong fairness is used nowhere.

`Interface` has three: the timer ticks while it is active; processes do their work, by
the operating system, though one may be absent or stuck for ever; and Qt serves a
`finished()` that has been emitted, also within a dialog. Nothing is asked of the
user, who may leave a dialog open for ever. `Assembling` and `DevTools` have no
liveness properties and state no fairness.

### Findings

Each is a run that TLC must find violated, with the document it contradicts.

1. `stale_window`: `getFetchWindowFromLS` prepares the cache for the invalidated
   window and `executeModuleLogic` stores the fetched one under it
   (`modules/instruction_cache/InstructionCache.cpp:43,91`).
2. `straddling`: Decode appends a window whatever its address
   (`modules/decode/Decode.cpp:224`); the same window may come twice.
3. `early_exit`: `excp_exit` decoded before the exception is an unknown opcode
   that is executed after it (`modules/decode/Decode.cpp:83`).
4. `stops_at_limit`: `requestDataAt` polls without looking whether the
   simulation runs (`execution_strategies/IExecutionStrategy.h:123`).

The passing runs state what is true besides, and are not weakened where the
findings do not bite: `ImplementsMachine` lets `excp_exit` be an unknown opcode
within a handler and `ReportedUnlessWaiting` names the one way not to report.

Disagreements that no run covers: the vectors of misaligned access and stack
overflow are swapped between `Config.h:110-117` and `src/README.md:108-109`; `call`
pushes the IP plus four bytes where `src/GUI/src/HelpTab.py:406` says `IP+0x2`;
the marks are those of the cycle before the last move, since `UpdateSimulationView`
runs before `currentCycleIndex` is set (`src/GUI/src/SimulationTab.py:203,221`),
where `src/GUI/src/DiagramComponents.py:65` says "Set whether the component has
changed from previous cycle" (what is true, `NoFalseMarks`, is checked).
The tag of a window is cut to a byte (`cache/DMCache.h:51`): with 16 lines of 4 words two
windows 0x8000 apart have the same line and tag, and a hit on one gives the other, where
`src/GUI/src/HelpTab.py:216-221` says that the tag bits "locate the entry as belonging to a
certain page of memory" of all there are; TLC finds this in `fetchpath` when asked, and
`UnwrittenUpToTag` says what is true. A vector takes any number of words, of which the last
line counts: the check for "a single 16 bit word" compares a digit of the section's name
with numbers (`src/GUI/src/dependencies/pyasm.py:218-219`), and
`src/GUI/src/HelpTab.py:266-267` says it "may only hold a 'dw' with the handler's label from
.code"; `AcceptsLegalButForVectors` lets it pass and `Legal` does not, and TLC finds a text
accepted that is not `Legal`. `Run` and `BatchRun` of
`src/Simulator/utils/DevHelper.py:122-129,200-204` name a log, and show the end of it; the
simulator takes the path for a directory of results (`main.cpp:91`), writes an error to the
console and leaves with status 0 (`logging/ExecutionRecorder.cpp:357-386`), so that there is
no log and the command returns True. `Test` ("Run test case with memory dumping",
`DevHelper.py:146`) passes a third path, which the simulator reads as an option without a
value (`main.cpp:8-11,74`): it is aborted, and `Test` always returns False.
With `GARBAGE_MEMORY` a word stored over a random one that happens to be equal leaves
its line unmodified and is dropped (`cache/KWayAssociativeCache.h:101`); it then reads
as another random word. The report of a drain is indented under the loop and not part
of it (`modules/decode/Decode.cpp:183`): one package leaves the recorded pipe however
many were drained (`miscounted`). An `end_sim` in one of the last cycles is reported
as the limit exceeded, since the clock goes on to tick and overwrites the reason
(`cpu/Clock.cpp:24-28`). At the limit single state mode keeps the state of the cycle
after the last one if it was begun, and calls it the last
(`logging/ExecutionRecorder.cpp:323`).

What the interface does besides, found while modelling it, and named in the properties
rather than excluded from the model:

* A process that is cancelled emits `finished()` late. After another Execute it is
  taken for a failure of the new run, whose files are removed and whose Cancel is
  turned off while it works (`InputTab.py:449`); `late` names this.
* Save during a run changes the configuration the results are read with; a larger
  `ls_cache_set_entries_count` raises an IndexError when the LS cache is selected
  (`DiagramComponents.py:371`), another mode an AttributeError
  (`SimulationTab.py:388-391,440-441`); `edited` names this.
* The timer goes on while the tab is disabled and its files are replaced.
* A process that cannot be started never emits `finished()`: only Cancel helps.
* Every block of the boot section is written at the section's start while its labels
  are solved one behind the other (`pyasm.py:361-362`): with a label in `.boot` the
  blocks overlap. `LoadedAsListed` and `ParsedIsListed` hold for one block of code;
  `ProgramKept` says what is right all the same.
* A `dblock` in a section of a vector is written from the vector's address on, however
  long it is (`pyasm.py:217-227,365-368`): only the sizes of the boot section and of the
  program are checked (`pyasm.py:352-353`). One of more than 2048 words reaches into the
  program at 0x1000, whose words are written later and win. The proof of `LoadedAsListed`
  showed that this has to be excluded (`VectorsFit`); the texts of the run are too short.

## 4. Proofs

All theorems hold for every value of the constants that satisfies the
assumptions of the modules: `AddressAssumption` (positive sizes, windows divide
the address space), `MemoryAssumption` (requests, windows and image have their
types), `CacheAssumption` (at least one set and one way), `LimitAssumption`;
`RunsAssumption` (at least one run), `ConfigsAssumption` (the default is a
configuration), `ComponentsAssumption` (no component is called "none"),
`RecordingsAssumption` (a simulation has at least two cycles, and memory is recorded in
the first), `ChangesAssumption` (no component differs from the one before in the first
cycle), `BoundsAssumption` and `AsmFilesAssumption` (the
bounds of `DevTools` are numbers, its texts are of the grammar), `RecordingAssumption` (the
limit of cycles and the bound on windows are numbers), `FetchAssumption` (the cache
has lines and tags), `ProgramAssumption` (programs, vectors and start address have
their types), `PipelineAssumption` (positive bounds on the pipes), `ConfigAssumption` (the
table of instructions has opcodes of six bits and types of operands, and the second
operand of `dw` and `dblock` is a number, as in `asm_cfg.yml`), `AreasAssumption` (the
vectors lie below the program, the program below the boot section), `TypingAssumption`
(the bound on lines is a number), `TextsAssumption` (texts are sequences of lines of the
grammar, `IsLine`). TLC evaluates all of them in the runs. That a simulation has two cycles is what the fields of the configuration tab
make sure of: no operation takes less than a cycle and the limit is not below a hundred.
Some theorems need more, and say so:

* `FreshLinesUnstored`: no word is stored where an uninitialised line has its tag
  and, by chance, the very same data. Such a line is found, `store` sees no
  difference, the line stays unmodified, and the store is lost
  (`cache/CacheLine.h:14`, `cache/KWayAssociativeCache.h:98-107`). This is a flaw of
  the code that depends on what is on the heap; everything else an uninitialised
  line may hold is harmless, and that is what the theorems say.
* `~GarbageMemory` for the refinement of `FlatMemory` and for what `FetchPath` says of
  the contents of windows: with it a store of a word equal to the random one that was
  cached leaves the line unmodified, and the word is lost (see above).
* `ICWindows = Window` for `ActsAsClientHolds`: `LoadStore` lets its client ask for any
  window of `ICWindows`, a bound of its runs that the fetch path need not keep to.
* `[]TargetsFit` for `WordsAtAddressHolds` and `MachineImplemented`: whenever Execute is
  about to send Decode to an address, decoding from there on ends with the last word of
  its window, and with that of every window if the address is odd, since Decode then
  keeps what it holds. Without it both properties are false, which is the finding
  `straddling`. TLC finds it true in every state of `pipeline`; in `Loop` an instruction
  reaches into the next window all the same.
* `[]ExitsInHandlers` for `MachineImplemented`: an `excp_exit` at the IP that Execute is
  about to perform finds the EXCEPTION flag set. Decode looks at the flag when it
  decodes (`modules/decode/Decode.cpp:83`) and `ExecExcpExit.cpp` does not look again, so
  one that was prefetched within a handler may be at the IP once the handler has been
  left, and restores the saved state a second time. TLC finds such a program when asked
  (a handler that sets the address to return to, exits, and has the target of that exit
  right behind it), but none of the programs of `pipeline` does this.

| Module | Theorem | States |
|---|---|---|
| `LoadStore_proofs` | `TypeCorrect` | `[]TypeOK` |
| | `NoShadowedLineHolds` | `[]NoShadowedLine` |
| | `LinesNamedHolds` | a valid line is that of an address, another is as it was |
| | `CleanLinesHold` | `[]CleanLineMatchesMemory` |
| | `FlatMemoryImplemented` | `Spec => ImplementsFlatMemory` |
| `FetchPath_proofs` | `FetchPathTypeCorrect` | `[]TypeOK` |
| | `ActsAsClientHolds` | `ActsAsClient`, if all windows may be asked for |
| | `OvertakenIsInvalidatedHolds` | `[]OvertakenIsInvalidated`, without garbage |
| | `UnwrittenUpToTagHolds` | `[]UnwrittenUpToTag`, without garbage |
| | `FetchesInOrderHolds` | the safety part of `ImplementsFetcher` |
| `Pipeline_proofs` | `PipelineTypeCorrect` | `[]TypeOK` |
| | `WordsAtAddressHolds` | `[]WordsAtAddress`, if targets fit |
| | `MachineImplemented` | the safety part of `ImplementsMachine`, if targets fit and `excp_exit` is in its handler |
| `Shutdown_proofs` | `ShutdownTypeCorrect` | `[]TypeOK` |
| | `ReportIsFinalHolds` | `[]ReportIsFinal` |
| `Interface_proofs` | `CancelHasProcessHolds` | `[]CancelHasProcess` |
| | `NeverTrappedHolds` | `[]NeverTrapped` |
| | `OneAtATimeHolds` | `[]OneAtATime` |
| | `SessionImplemented` | `Spec => SessionSpec` |
| | `InterfaceIsSafe` | the three above, of the interface |
| | `SelectionIsShownHolds` | `[]SelectionIsShown` |
| | `InterfaceTypeCorrect` | `[]TypeOK` |
| | `ShownIsRecordedHolds` | `[]ShownIsRecorded` |
| | `SpecIsOfRunHolds` | `[]SpecIsOfRun` |
| | `NoFalseMarksHolds` | `[]NoFalseMarks` |
| | `AbortsAreKnownHolds` | `AbortsAreKnown` |
| `Assembling_proofs` | `AssemblingTypeCorrect` | `[]TypeOK` |
| | `RejectedIsMarkedHolds` | `[]RejectedIsMarked` |
| | `AcceptsLegalButForVectorsHolds` | `[]AcceptsLegalButForVectors` |
| | `EarlierTextsOnlyAddHolds` | `[]EarlierTextsOnlyAdd` |
| | `LoadedAsListedHolds` | `[]LoadedAsListed` |
| | `ProgramKeptHolds` | `[]ProgramKept` |
| | `NewAssemblerLoads` | a new object's file of a legal text is loaded as listed |
| `DevTools_proofs` | `DevToolsTypeCorrect` | `[]DevTypeOK` |
| | `ReleasedIsCurrentHolds` | `[]ReleasedIsCurrent` |
| | `ParsedIsListedHolds` | `[]ParsedIsListed` |
| | `RunIsOfTextHolds` | `[]RunIsOfText` |
| `Recording_proofs` | `RecordingTypeCorrect` | `[]TypeOK` |
| | `PipeIsShownHolds` | `[]PipeIsShown` |
| | `LastIsTheEndHolds` | `[]LastIsTheEnd` |

The lemmas about messages and the control of LS, and division with a remainder, are
proved in each module that needs them.

**LoadStore.** The inductive invariant is the conjunction of `TypeOK`,
`NoShadowedLine`, `LinesNamed`, `FreshLinesKept`, `RequestsKnown` and
`CleanLineMatchesMemory`, each proved relative to those before it. `StepCases`
reduces all actions to two: the lines are kept but for times of hits, or one
word is stored (`CacheStore`); `StoreLine` says which line changes and how.
`NoShadowedLine` is preserved since a new tag enters a set only where no line has
it, valid or not (`NotFound`). `CleanLineMatchesMemory` needs it: the write-back
of one line must not change the memory behind another clean line, so no two
valid lines may stand for one address (`SplitInjective`: index and tag name one
address). `LinesNamed` is what makes the address of a write-back the right one;
`FreshLinesKept` and `RequestsKnown` bring `FreshLinesUnstored` to bear.

**Refinement of memory.** `View` is what clients see: a modified line, else memory.
`KeptView` says that a step that keeps lines keeps the view; `StoredView` that
storing a word changes the view of that word only, although memory and another
word's line change as well; `ViewHeld` and `ViewMissed` that hits and misses read
it. `StepSimulation` then maps every action to an action of `FlatMemory` or to
a stutter.

**FetchPath.** Five invariants, each relative to those before it. `Typed` gives the
operation of the cache its window at each stage. `Awaited` says what is on its way
between LS and IC: at most one request and its window, and nothing of it unless the
operation waits for it. `Followed` says that a window, wherever it is, is what memory
holds but for words whose invalidation is behind it: `OvertakenIsInvalidated` is that
for the windows in the pipe, and is not inductive, since a window is also in the hands
of LS while its words are stored to. `Exact` says, of windows that no request
stores to and none of their aliases is stored to (`Settled`), that what is in their line, on
its way and in the pipes is what memory holds of one of the aliases, that the cache is
prepared for one only while it is awaited, and that no invalidation is of it. `RoomFound` says
that an operation that has begun found room for its window; with it every step is one of
`Fetcher` (`FetcherSteps`). `ClientSteps` does the same for the client of `LoadStore`.

**Pipeline.** Words are right because windows come in order, so the invariant `InStep`
is about windows that have not come yet. `Coming(i)` is the i-th window Decode will
receive if it signals nothing more: those in the pipe, the one about to be pushed, and
the one the cache starts over or goes on with. A step of the cache leaves them alone or
adds the one after the last (`ICKeepsComing`); a window taken shifts them
(`TakenComing`). `Stream` says that they follow each other, but for the first while a
target is looked for: that one may have been too late for the signal. `HeldRight` says
that the words held are those at `heldAt`, and that either decoding ends with the last
of them (`Fits`) or the window behind them comes next. `Fits` has to be a property of
all that is left to decode, not of one instruction, since a new target may end the
order of windows at any time: it is stated by a set of pairs of an address and a number
of words that is closed under decoding (`EndsWithin`), so that no recursion is needed.
`TargetsKnown` carries it from Execute to Decode, `EntriesRight` what is decoded from
Decode to Execute. `WordsAtAddress` is the last of these, and inductive only with the
others. For the refinement, `OddIsCurrent` says that an odd address on its way is the
IP and that Execute does nothing until it has come round: `IsOurs` takes a misaligned
instruction that nothing follows for the current one (`modules/execute/Execute.cpp:162`), which is right
only because of this. `PerformIsStep` then shows that the instruction performed is that
of the machine; all other steps change nothing of it.

**Shutdown.** The inductive invariant is `TypeOK`, that a simulation that is not
running has been explained or Execute is about to explain it (`Explained`), that
modules end only after `running` is cleared (`DoneAfterEnd`), that threads joined
are done (`JoinedAreDone`), and that the clock stops and main reports after all
joins (`ReportedLast`). `ReportIsFinal` alone is not inductive: nothing in it says
that a reason was set before Execute ended.

**Session.** The inductive invariant adds to the three properties the types of what
they mention (`SessionTypes`), that Cancel is off from a cancellation to the next
Execute (`CancelOnce`), and that unless a run was started too early only the last
one is at work or unanswered (`OnlyLast`), what works is the process the handler
of Cancel would kill (`WorkIsHeld`), and nothing works while another run can be
started (`IdleInBetween`). `CancelHasProcess` is not inductive alone: the answer to a
cancelled run drops the process and leaves the buttons as they are, which is
harmless only by `CancelOnce`.

**Interface.** `NextIsSession`: each action of the composition is an action of
`Session` or leaves its variables alone; the tab's actions end the program or draw.
The theorems of `Session` then hold of `Interface`. `PictureRight` is inductive for
what is drawn: flags and names agree (`Drawn`), details are those of the selected
component whenever a file is drawn (`Detailed`); it is kept by each way to move the
slider, load, press, hover and start again.

What is shown is right for three reasons, which `InterfaceInv` states together.
`LastInv` is about the session. `FilesAreOfLast`: unless a run was started too early,
the directory holds what the last one has written so far, or all of it once it is over,
and no other file (`LeftBy`). That needs `EnabledIsAnswered` (the tab is enabled only
after that run was answered), `LastIsAwaited` (until then no dialog is open, and the
configuration in force is the run's own or the change was noticed) and
`DialogsAreOfLast` (a report of a failure, which empties the directory when it is
closed, is of that run, and "no results" is never said). `TabTyped` are the types of slider
and picture, `TabRules` says what was read: the files of the cycle the slider is at, by
a mapping that has for every recorded cycle the last one memory was written for
(`MapsMemory`). It is established by loading (`LoadShows`), where the last cycle and the
mapping are greatest elements of sets of files (`FilesOfRun`, `MappingIs`), and kept by
moving (`MoveShows`), by the mouse, and by all that happens elsewhere (`TrustKept`).
`MarkIsChange` makes a mark that is drawn a change of the run: two consecutive states
of one run are compared. The greatest element of a set of numbers is a `CHOOSE`; that it
exists follows from the least of the upper bounds (`LeastNatural`), which needs no more
of induction than that the order on numbers is well-founded.

`AbortsAreKnownHolds` follows from `InterfaceInv`: while the last run can be trusted, each
state the slider may come to was recorded, in the mode the tab is in
(`DrawingAbortIsLarger`), even when the slider stands where a longer run left it
(`LoadAbortIsLarger`), so only lines of larger sets can be missing; outside
the tab Cancel has a process to kill, and a process that may hold a file open when the
directories are emptied is one that has not been answered (`RemovalIsOfUnanswered`,
`ElsewhereAborts`).

**Assembling.** The inductive invariant `IInv` says that, while a text is typed, the
object is one that an earlier text may have left (`Left`: values of that text, its labels
and no others, none of them if there was no text), and afterwards what assembling the text
makes of such an object. What that is takes no step of the specification but the whole
text, so the work is in two facts about `Assemble` for every text. `AssembledIs` is about
types: whatever is parsed, blocks and vectors hold instructions and labels of this text
(`Objects`), labels get addresses of their area, the file holds numbers, and an error is
about a line or an operand of this text; `TypeOK` and `RejectedIsMarked` follow.
`AcceptedIs` is about meaning: the object ends without an error exactly if the text is
`LegalBesidesVectors`. `Holds` relates it after k lines to what `Listing` reads in them: sections,
labels, the section it is in, the bytes of both areas (`AreaWords`), the instructions, and
of each vector the last word. One lemma per kind of line (`SectionHeld`, `LabelHeld`,
`InstrHeld`, `CommentHeld`) shows that an error is raised exactly if the line is not legal
after those before it (`LegalSoFar`), and that `Holds` goes on otherwise; `AllLegal` says
that lines legal after those before them are lines legal in the text. A text that follows
another begins in the section that one ended in: for the lines before its own first
section the object does not hold what `Listing` says, hence `Begins`, and hence the
hypothesis of `EarlierTextsOnlyAdd`.

`LoadedAsListed` and `ProgramKept` rest on three more steps, for which `IInv` says that
also the file is what assembling made.

* *Where things are.* `Listed` adds to `Holds` that every block, instruction and word of a
  vector is where `AddressOf` has its line (`Placed`, again one lemma per kind of line).
  The labels solved are then those of the listing (`SolvedAt`, `LabelsListed`), and
  `SolvedListed` puts both together.
* *What the simulator loads.* `FileLoaded` is an induction on the blocks of the file, and
  within a block on its words: a cell has the word of the last block that reaches it, and
  no other cell has any (`CellsOf`). It needs that no block reaches beyond the memory,
  where addresses wrap (`BootFits`, `VectorFits`, `ProgramFits`), and that words have four
  digits.
* *That both agree.* Each word of a block is a word of a line that counts, in the cell
  `Covers` has it in, and the other way round (`WordHasLine`). Two lines share a cell only
  if they are of different vectors (`Overlap`), and the blocks of vectors are in the order
  of their lines: the last block of a cell is that of its last line (`LastBlockLastLine`,
  `SureCellLoaded`). In the boot section this takes `OneBlockOf`; below it, it does not,
  and that is `ProgramKept`.

`NewAssemblerLoads` says the same of a new object and a legal text, from what the
simulator accepts (`ValidWords`) instead of from numbers that fit.

`Parsed`, `SizeOf` and `AreaWords` are folds, whose value no installed theorem gives. They
are reasoned about by the sequence of their intermediate results (`ParsedByLines`, from
the definition of the fold by a function that chooses indices), and by induction over the
number of lines in the form "a set of numbers that has 0 and with k also k + 1 has all"
(`InductionTo`), which rests on `LeastNatural` alone. The proofs found three things wrong
in the model: some `CASE` arms overlapped, which TLC resolves by order and the meaning of
`CASE` does not (they are `IF` chains now); `LoadedAsListed` and `ParsedIsListed` did not
exclude vectors that reach into the program; and `ParsedIsListed` did not exclude a second
block of boot code, which no text of its run had.

**DevTools.** The inductive invariant says of the command that runs what its success
will rest on: a release about to copy has just built (`CopiesCurrent`), a batch that has done a
run, or a Run that returned True, had a file that can be loaded (`BatchSoFar`, `Ran`),
and nothing is returned meanwhile (`NothingReturned`). `ControlKeeps` and
`QuietKeeps` dispose of the commands that touch neither. `HexIsParsed`, relative to it,
says that the file is what assembling the text gives as long as neither an edit nor an
interrupted Parse came after a Parse (`OthersKeepText`); every other command, and a Parse that failed or was interrupted, is not taken for one
(`OthersDoNotParse`). That this file is the listing is `NewAssemblerLoads`
(`CurrentLoads`, for `ParsedIsListed` and `RunIsOfText`):
`DevTools_proofs` extends `Assembling_proofs`, which is why the formulas of `DevTools` that
`Assembling` has as well are named `DevSpec`, `DevNext`, and so on.

**Recording.** The inductive invariant is the types with the cycles counted
(`CyclesCounted`: at most a state for each tick and the first, one less while one is
made), that
Decode has one window to report after a take and none outside its handlers
(`TakenHeld`), that what is recorded together with what is sent but not reported is
what is taken but not reported together with the pipe, in order (`PipeKept`), that the
two modes agree on the last state (`ModesAgree`), and that from the moment Execute has
cleared `running` no state is made, the text stays and the reason matches it
(`EndKept`). `PipeIsShown` is `PipeKept` where nothing is pending; it is not
inductive, since the report of a send must add what the pipe already has.
`CallChanges` reduces every call of the recorder to the change of the last state.

Model-checked only: all liveness (`EXAnswered`, the fairness of
`ImplementsFetcher` and `ImplementsMachine`, `ReportedUnlessWaiting`,
`AutoplayEnds`, `RunsAreAnswered`), which is out of the prover's reach. Every invariant
that a passing run checks is proved. The inductive invariant of `Assembling` is not
evaluated by a run, since it says "some object an earlier text left"; the properties it
implies are.

## 5. Bounds

| Bound | Why it is enough |
|---|---|
| `NumAddr` 4 to 10, windows of 2 words | addresses wrap, instructions and requests cross windows, five windows compete for two lines |
| 2 sets, 2 ways, 3 addresses each | a third address of a set evicts; a set is not full at first |
| `FreshLines`: tag 0, data 1 | invalid lines that match the addresses 0 and 1, and others that do not |
| `MaxTime` 5 | a store, two evictions and a load fit; ties of the times of hits occur |
| `MaxQueue` 2 or 3 | several invalidations around a window |
| `MaxRequests` 3 | invalidations before, during and after a miss |
| `MaxFetched`, `MaxDecoded` 2, `MaxSignals` 4 | old and new streams in each pipe at once |
| `MaxDepth` 1 | the stack overflows and underflows |
| `TagSpan` 2, 2 lines, 5 windows | as with the byte tag and 16 lines, two windows alias, and a third of their line does not |
| `MaxTyped` 3 after an opening | a definition, a use and what separates them; openings bring the sections and the words that fill them |
| 12 and 8 words of room | both areas overflow by one word and by a block |
| `MaxCommands` 4, `MaxBatch` 2, `MaxVersions` 2 | a failed command, an edit, and a successful one behind it; a smaller batch after a larger one |
| `MaxRuns` 2 | one run late, cancelled, stuck or leaving files, and one more |
| `MaxCycle` 3 | first, inner and last cycle; in single state mode the inner one is missing |
| `MaxClicks` 3 | a move, autoplay and its tick, or two saves around a run; starting, cancelling and answering are not counted |
| `CyclesLimit` 1 or 2, `MaxWindows` 2 | a window per tick; requests under way at the last tick; the count is capped one beyond the limit |

## 6. Not modelled, and the plan

`PROJECT.json` gives the status of each component. Left out for good: layout and
drawing, the texts of the help tab, wording of logs and errors, the characters a
line is made of, the rows of the details, files of a cycle that are read while they are
half-written, the speed of autoplay, directories of which a part can be removed; of
the recorder the mirrored caches and registers, two reports that tear each other, and
the writing of its files (`Session` has the order of that).

The order followed what matters most to a program's result: memory, the fetch
path, the pipeline's agreement on where the program is, the end of a simulation;
then the assembler, the interface and the tools around it. What is left:

1. **Execute, word by word.** `execution_strategies` with data registers, flags and
   memory operands over `FlatMemory`: partial effects of instructions that fail
   half-way (`push`, `call`, `gather`, `scatter`), the save state area in memory,
   8- and 16-bit arithmetic. Abstract specification: an instruction takes effect
   as a whole or raises its exception. Decode's legality of operands with it.
2. **Geometry and time.** Index and tag of both caches in bytes; the clock's
   arithmetic in a byte.
3. **Self-modifying code.** `FetchPath` and `Pipeline` composed: which stores a
   prefetched instruction may miss.
