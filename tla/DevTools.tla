------------------------------ MODULE DevTools ------------------------------
(***************************************************************************)
(* The developer's command loop (DevHelper.py): building the simulator,    *)
(* assembling a text with pyasm.py, running the hex file, and releasing    *)
(* the simulator to the interface, which GenReleaseExe.py packs.  Every    *)
(* command waits for the processes it starts; each of them may fail, and   *)
(* Ctrl-C ends the process and the command with it.                        *)
(***************************************************************************)
EXTENDS Listing

CONSTANTS
  Texts,        \* what the developer writes in the assembly file
  MaxBatch,     \* bound: runs of a batch
  MaxVersions,  \* bound: versions of the simulator's sources
  MaxCommands   \* bound: commands of a session

ASSUME BoundsAssumption ==
  MaxBatch \in Nat /\ MaxVersions \in Nat \ {0} /\ MaxCommands \in Nat

\* What is written are texts of the grammar.
ASSUME AsmFilesAssumption ==
  \A t \in Texts : t \in Seq(Range(t)) /\ \A line \in Range(t) : IsLine(line)

VARIABLES
  source,    \* version of the simulator's sources
  exe,       \* version of build/CPU_Pipeline_Simulator, 0 for none
  relExe,    \* of release/CPU_Pipeline_Simulator.exe
  guiExe,    \* of GUI/src/dependencies/CPU_Pipeline_Simulator.exe
  package,   \* of the simulator in the packed interface
  asmFile,   \* text of the assembly file
  hexFile,   \* the hex file
  current,   \* no edit and no interrupted Parse since the last that was not (history)
  batch,     \* files in tests/batch
  doing,     \* the command that runs: name, step, argument and next run of a batch
  result,    \* what the last command returned, "none" for an interrupted one
  last,      \* the last command that returned, unless something was edited (history)
  commands   \* commands so far

simVars == <<source, exe, relExe, guiExe, package>>
textVars == <<asmFile, hexFile, current>>
cmdVars == <<doing, result, last, commands>>
devVars == <<simVars, textVars, batch, cmdVars>>

NoFile == [exists |-> FALSE, lines |-> << >>]
File(lines) == [exists |-> TRUE, lines |-> lines]
Command(cmd, step, arg) == [cmd |-> cmd, step |-> step, arg |-> arg, next |-> 1]
Idle == Command("none", "prompt", 0)
-----------------------------------------------------------------------------
(* Main: one command after the other *)

MayBegin == doing = Idle /\ commands < MaxCommands

Begin(cmd, step, arg) ==
  /\ MayBegin
  /\ commands' = commands + 1
  /\ doing' = Command(cmd, step, arg)
  /\ result' = "none"
  /\ last' = Idle

Running(cmd, step) == doing.cmd = cmd /\ doing.step = step

GoOn(step) ==
  /\ doing' = [doing EXCEPT !.step = step]
  /\ UNCHANGED <<result, last, commands>>

Return(value) ==
  /\ doing' = Idle
  /\ result' = value
  /\ last' = doing
  /\ UNCHANGED commands

\* A command that returns as soon as it is given.
ReturnAtOnce(cmd, value) ==
  /\ MayBegin
  /\ commands' = commands + 1
  /\ result' = value
  /\ last' = Command(cmd, "prompt", 0)
  /\ UNCHANGED doing

\* RunCommand: the status of a process that could not do its work.
Fail(cmd) ==
  /\ doing.cmd = cmd
  /\ Return("false")

\* KeyboardInterrupt: the process of the step ends as well.
Interrupt(cmd) ==
  /\ doing.cmd = cmd
  /\ doing' = Idle
  /\ UNCHANGED <<result, last, commands>>

\* The developer edits between commands.
Edit == doing = Idle /\ last' = Idle /\ UNCHANGED <<doing, result, commands>>

EditSource ==
  /\ Edit
  /\ source < MaxVersions
  /\ source' = source + 1
  /\ UNCHANGED <<exe, relExe, guiExe, package, textVars, batch>>

EditText ==
  /\ Edit
  /\ asmFile' \in Texts
  /\ current' = FALSE
  /\ UNCHANGED <<simVars, hexFile, batch>>
-----------------------------------------------------------------------------
(* Clean and Build *)

Clean ==
  /\ \/ ReturnAtOnce("clean", "true") /\ exe' = 0
     \/ ReturnAtOnce("clean", "false") /\ exe # 0 /\ exe' = exe
  /\ UNCHANGED <<source, relExe, guiExe, package, textVars, batch>>

Make ==
  /\ Running("build", "make")
  /\ exe' = source
  /\ Return("true")
  /\ UNCHANGED <<source, relExe, guiExe, package, textVars, batch>>

Build ==
  \/ /\ \/ Begin("build", "cmake", 0)
        \/ Running("build", "cmake") /\ GoOn("make")
        \/ Fail("build")
        \/ Interrupt("build")
     /\ UNCHANGED <<simVars, textVars, batch>>
  \/ Make
-----------------------------------------------------------------------------
(* Parse *)

\* assemble, of the copy of pyasm.py that the tool runs: it differs from the
\* interface's in what it prints.
Outcome(text) == Assemble(FreshAssembler, text)

\* Mutant: the text is assembled into the file as it is.
AppendBinary(text) ==
  IF Outcome(text).opened THEN File(hexFile.lines \o Outcome(text).file) ELSE hexFile

\* A new object assembles.
generateBinary(text) ==
  IF Outcome(text).opened THEN File(Outcome(text).file) ELSE hexFile

\* An exception was printed, and the status is 0 all the same.
Assembled ==
  /\ Running("parse", "pyasm")
  /\ hexFile' = generateBinary(asmFile)
  /\ current' = TRUE
  /\ Return("true")
  /\ UNCHANGED <<simVars, asmFile, batch>>

\* What an interrupted pyasm.py leaves: the file of before, or a part of the new one.
InterruptedAssembly ==
  /\ Running("parse", "pyasm")
  /\ Interrupt("parse")
  /\ \/ hexFile' = hexFile
     \/ /\ Outcome(asmFile).opened
        /\ \E n \in 0 .. Len(Outcome(asmFile).file) :
             hexFile' = File(SubSeq(Outcome(asmFile).file, 1, n))
  /\ current' = FALSE
  /\ UNCHANGED <<simVars, asmFile, batch>>

Parse ==
  \/ Begin("parse", "pyasm", 0) /\ UNCHANGED <<simVars, textVars, batch>>
  \/ Fail("parse") /\ UNCHANGED <<simVars, textVars, batch>>
  \/ Assembled
  \/ InterruptedAssembly
-----------------------------------------------------------------------------
(* Run, Test and BatchRun.  They give the simulator the path of a log, and *)
(* it takes it for a directory that results are written to: it finds none, *)
(* says so, and leaves with status 0 (main.cpp 91, ExecutionRecorder.cpp   *)
(* 298-314, 357-386), so that no log is written.                           *)

\* Mutant: the lines before an invalid one are run.
Present == hexFile.exists

\* The simulator leaves with a status that is not 0 when it cannot load the file.
Loadable == hexFile.exists /\ Load(hexFile.lines).valid

NoExecutable(cmd) == exe = 0 /\ ReturnAtOnce(cmd, "false")

Run ==
  /\ \/ NoExecutable("run")
     \/ exe # 0 /\ Begin("run", "simulate", 0)
     \/ Running("run", "simulate") /\ Loadable /\ Return("true")
     \/ Fail("run")
     \/ Interrupt("run")
  /\ UNCHANGED <<simVars, textVars, batch>>

\* The simulator reads the path of the dump as a number, with nothing for the next
\* one, and is aborted.
Test ==
  /\ \/ NoExecutable("test")
     \/ exe # 0 /\ Begin("test", "simulate", 0)
     \/ Fail("test")
     \/ Interrupt("test")
  /\ UNCHANGED <<simVars, textVars, batch>>

\* The batch directory is cleaned, but for files that cannot be removed.
CleanBatch == batch' \in SUBSET batch

StartBatch ==
  /\ exe # 0
  /\ \E n \in 0 .. MaxBatch : Begin("batch", "simulate", n)
  /\ CleanBatch
  /\ UNCHANGED <<simVars, textVars>>

\* Mutant: a run too many.
OneRunMore ==
  /\ Running("batch", "simulate")
  /\ doing.next <= doing.arg + 1
  /\ Loadable
  /\ doing' = [doing EXCEPT !.next = @ + 1]
  /\ UNCHANGED <<simVars, textVars, batch, result, last, commands>>

\* One run of a batch; the tail of its log is not looked at.
NextRun ==
  /\ Running("batch", "simulate")
  /\ doing.next <= doing.arg
  /\ Loadable
  /\ doing' = [doing EXCEPT !.next = @ + 1]
  /\ UNCHANGED <<simVars, textVars, batch, result, last, commands>>

EndBatch ==
  /\ Running("batch", "simulate")
  /\ doing.next > doing.arg
  /\ Return("true")
  /\ UNCHANGED <<simVars, textVars, batch>>

BatchRun ==
  \/ /\ \/ NoExecutable("batch")
        \/ doing.next <= doing.arg /\ Fail("batch")
        \/ Interrupt("batch")
     /\ UNCHANGED <<simVars, textVars, batch>>
  \/ StartBatch
  \/ NextRun
  \/ EndBatch
-----------------------------------------------------------------------------
(* Release, and GenReleaseExe.py after it *)

\* Mutant: the status of the build is not looked at.
BuildReleaseAnyway ==
  /\ Running("release", "build")
  /\ relExe' \in {relExe, source}
  /\ GoOn("copy")
  /\ UNCHANGED <<source, exe, guiExe, package>>

BuildRelease ==
  /\ Running("release", "build")
  /\ relExe' = source
  /\ GoOn("copy")
  /\ UNCHANGED <<source, exe, guiExe, package>>

CopyRelease ==
  /\ Running("release", "copy")
  /\ guiExe' = relExe
  /\ Return("true")
  /\ UNCHANGED <<source, exe, relExe, package>>

Release ==
  /\ \/ /\ \/ Begin("release", "cmake", 0)
           \/ Running("release", "cmake") /\ GoOn("build")
           \/ Fail("release")
           \/ Interrupt("release")
        /\ UNCHANGED simVars
     \/ BuildRelease
     \/ CopyRelease
  /\ UNCHANGED <<textVars, batch>>

\* PyInstaller takes the simulator along; without one it fails.
PyInstaller ==
  /\ Running("package", "pyinstaller")
  /\ guiExe # 0
  /\ GoOn("copy")
  /\ UNCHANGED simVars

CopyPackage ==
  /\ Running("package", "copy")
  /\ package' = guiExe
  /\ Return("true")
  /\ UNCHANGED <<source, exe, relExe, guiExe>>

Package ==
  /\ \/ /\ Begin("package", "pyinstaller", 0) \/ Fail("package") \/ Interrupt("package")
        /\ UNCHANGED simVars
     \/ PyInstaller
     \/ CopyPackage
  /\ UNCHANGED <<textVars, batch>>
-----------------------------------------------------------------------------
DevInit ==
  /\ source = 1
  /\ exe = 0 /\ relExe = 0 /\ guiExe = 0 /\ package = 0
  /\ asmFile \in Texts
  /\ hexFile = NoFile
  /\ current = FALSE
  /\ batch \in SUBSET (1 .. MaxBatch)
  /\ doing = Idle
  /\ result = "none"
  /\ last = Idle
  /\ commands = 0

DevNext ==
  \/ EditSource \/ EditText
  \/ Clean \/ Build \/ Parse
  \/ Run \/ Test \/ BatchRun
  \/ Release \/ Package

DevSpec == DevInit /\ [][DevNext]_devVars
-----------------------------------------------------------------------------
Version == 0 .. MaxVersions

\* Type invariant: versions that exist, runs that were asked for.
DevTypeOK ==
  /\ source \in Version \ {0}
  /\ {exe, relExe, guiExe, package} \subseteq Version
  /\ asmFile \in Texts
  /\ current \in BOOLEAN
  /\ batch \subseteq 1 .. MaxBatch
  /\ doing.next \in 1 .. MaxBatch + 1
  /\ result \in {"none", "true", "false"}
  /\ commands \in 0 .. MaxCommands

Succeeded(cmd) == last.cmd = cmd /\ result = "true" /\ doing = Idle

\* A release that returned True gave the interface the simulator of the sources as
\* they are, whatever failed or was interrupted before (DevHelper.py 216-243).
ReleasedIsCurrent == Succeeded("release") => guiExe = source

\* A legal text, with one block of code in the boot section and with vectors that end
\* below the program; of a vector with more than one word the last one counts.
Describes(text) ==
  /\ LegalBesidesVectors(text, DefinedLabels(text))
  /\ OneBlockOf(Outcome(text).asm.bootInstructions)
  /\ VectorsFit(text)

LoadsAsListed(text) == Load(hexFile.lines).cells = MemoryOf(text, LabelValues(text))

\* Of such a text a Parse that was not interrupted leaves the whole program and
\* nothing of an earlier one, whether that was complete, cut off, or refused
\* (DevHelper.py 84-106, pyasm.py 325-383).
ParsedIsListed ==
  Succeeded("parse") /\ Describes(asmFile) /\ Load(hexFile.lines).valid
    => LoadsAsListed(asmFile)

\* A Run, or a batch of runs, that returned True ran the program of the text as it
\* is, if that was parsed since it was edited: the memory loaded is the listing's,
\* and what cannot be loaded ends in False (DevHelper.py 84-142, 177-213,
\* main.cpp 76-84, Memory.cpp 8-48).  Nothing is said of logs: there are none.
RunIsOfText ==
  /\ Succeeded("run") \/ (Succeeded("batch") /\ last.arg > 0)
  /\ current /\ Describes(asmFile)
  => LoadsAsListed(asmFile)
=============================================================================
