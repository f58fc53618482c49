--------------------------- MODULE DevTools_proofs ---------------------------
(***************************************************************************)
(* What a command that returned True has done, for every number of runs,   *)
(* versions and commands, and for all texts: DevTypeOK, ReleasedIsCurrent, *)
(* ParsedIsListed and RunIsOfText of DevTools, by an inductive invariant    *)
(* about the command that runs and the hex file, and what                  *)
(* Assembling_proofs says of the text a new object assembles.              *)
(***************************************************************************)
EXTENDS DevTools, Assembling_proofs

Cmds == {"none", "clean", "build", "parse", "run", "test", "batch", "release", "package"}
Steps == {"prompt", "cmake", "make", "pyasm", "simulate", "build", "copy", "pyinstaller"}
Doing == [cmd : Cmds, step : Steps, arg : 0 .. MaxBatch, next : 1 .. MaxBatch + 1]

CommandTypes == doing \in Doing /\ last \in Doing

\* Nothing has been returned while a command runs.
NothingReturned == doing # Idle => result = "none"

\* What a release is about to copy has just been built.
CopiesCurrent == Running("release", "copy") => relExe = source

\* A batch has done no more runs than it was asked for, and what it ran was loaded.
BatchSoFar ==
  doing.cmd = "batch" =>
    /\ doing.next <= doing.arg + 1
    /\ doing.next > 1 => Loadable

\* A run that returned True.
Ran == Succeeded("run") \/ (Succeeded("batch") /\ last.arg > 0)

Inv ==
  /\ DevTypeOK /\ CommandTypes /\ NothingReturned
  /\ CopiesCurrent /\ ReleasedIsCurrent
  /\ BatchSoFar
  /\ Ran => Loadable

\* What the steps of a command do to the loop.
Control(cmd) ==
  \/ \E s \in Steps : Begin(cmd, s, 0)
  \/ doing.cmd = cmd /\ \E s \in Steps : GoOn(s)
  \/ doing.cmd = cmd /\ \E v \in {"true", "false"} : Return(v)
  \/ \E v \in {"true", "false"} : ReturnAtOnce(cmd, v)
  \/ Interrupt(cmd)
-----------------------------------------------------------------------------
(* The loop *)

\* At the prompt no command runs.
LEMMA IdleFields ==
  /\ Idle.cmd = "none" /\ Idle.step = "prompt" /\ Idle.arg = 0 /\ Idle.next = 1
  /\ Idle \in Doing
BY BoundsAssumption DEF Idle, Command, Doing, Cmds, Steps

\* A command as it begins.
LEMMA CommandFields ==
  ASSUME NEW cmd \in Cmds, NEW step \in Steps, NEW arg \in 0 .. MaxBatch
  PROVE  /\ Command(cmd, step, arg) \in Doing
         /\ Command(cmd, step, arg).cmd = cmd /\ Command(cmd, step, arg).step = step
         /\ Command(cmd, step, arg).arg = arg /\ Command(cmd, step, arg).next = 1
BY BoundsAssumption DEF Command, Doing

\* A step of a command other than a batch keeps what the loop is to keep.
LEMMA ControlKeeps ==
  ASSUME Inv, NEW cmd \in Cmds \ {"none", "batch"}, Control(cmd)
  PROVE  /\ CommandTypes' /\ NothingReturned'
         /\ doing'.next \in 1 .. MaxBatch + 1
         /\ result' \in {"none", "true", "false"}
         /\ commands' \in 0 .. MaxCommands
         /\ doing'.cmd \in {cmd, "none"}
         /\ ~Succeeded("batch")'
         /\ cmd # "release" => ~Succeeded("release")'
         /\ cmd # "parse" => ~Succeeded("parse")'
         /\ cmd # "run" => ~Ran'
<1> USE BoundsAssumption, IdleFields
<1>1. CASE \E s \in Steps : Begin(cmd, s, 0)
  <2>1. PICK s \in Steps : Begin(cmd, s, 0)
    BY <1>1
  <2>2. /\ doing' = Command(cmd, s, 0) /\ result' = "none" /\ last' = Idle
        /\ commands' = commands + 1 /\ commands < MaxCommands
    BY <2>1 DEF Begin, MayBegin
  <2>3. doing' \in Doing /\ doing'.cmd = cmd
    <3>1. 0 \in 0 .. MaxBatch
      OBVIOUS
    <3> QED
      BY <2>2, <3>1, CommandFields
  <2>4. CommandTypes' /\ NothingReturned'
    BY <2>2, <2>3 DEF CommandTypes, NothingReturned
  <2>5. commands' \in 0 .. MaxCommands
    BY <2>2 DEF Inv, DevTypeOK
  <2>6. /\ ~Succeeded("batch")' /\ ~Succeeded("release")' /\ ~Succeeded("parse")'
        /\ ~Ran'
    BY <2>2 DEF Succeeded, Ran
  <2> QED
    BY <2>2, <2>3, <2>4, <2>5, <2>6 DEF Doing
<1>2. CASE doing.cmd = cmd /\ \E s \in Steps : GoOn(s)
  <2>1. PICK s \in Steps : GoOn(s)
    BY <1>2
  <2>2. /\ doing' = [doing EXCEPT !.step = s]
        /\ result' = result /\ last' = last /\ commands' = commands
    BY <2>1 DEF GoOn
  <2>3. doing' \in Doing /\ doing'.cmd = cmd /\ doing # Idle
    BY <1>2, <2>2 DEF Inv, CommandTypes, Doing
  <2> QED
    BY <2>2, <2>3 DEF Inv, DevTypeOK, CommandTypes, NothingReturned, Succeeded, Ran, Doing
<1>3. CASE doing.cmd = cmd /\ \E v \in {"true", "false"} : Return(v)
  BY <1>3 DEF Return, Inv, DevTypeOK, CommandTypes, NothingReturned, Succeeded, Ran, Doing
<1>4. CASE \E v \in {"true", "false"} : ReturnAtOnce(cmd, v)
  <2>1. PICK v \in {"true", "false"} : ReturnAtOnce(cmd, v)
    BY <1>4
  <2>2. /\ last' = Command(cmd, "prompt", 0) /\ result' = v /\ doing' = Idle
        /\ commands' = commands + 1 /\ commands < MaxCommands
    BY <2>1 DEF ReturnAtOnce, MayBegin
  <2>3. last' \in Doing /\ last'.cmd = cmd
    <3>1. "prompt" \in Steps /\ 0 \in 0 .. MaxBatch
      BY DEF Steps
    <3> QED
      BY <2>2, <3>1, CommandFields
  <2> QED
    BY <2>2, <2>3
       DEF Inv, DevTypeOK, CommandTypes, NothingReturned, Succeeded, Ran, Doing
<1>5. CASE Interrupt(cmd)
  <2>1. /\ doing.cmd = cmd /\ doing' = Idle
        /\ result' = result /\ last' = last /\ commands' = commands
    BY <1>5 DEF Interrupt
  <2>2. result = "none"
    BY <2>1 DEF Inv, NothingReturned
  <2> QED
    BY <2>1, <2>2 DEF Inv, DevTypeOK, CommandTypes, NothingReturned, Succeeded, Ran, Doing
<1> QED
  BY <1>1, <1>2, <1>3, <1>4, <1>5 DEF Control

\* What must stay as it is for a step to matter neither to a release nor to a batch.
kept == <<source, relExe, guiExe, asmFile, batch>>

\* A command that is neither a release nor a batch keeps the invariant.
LEMMA QuietKeeps ==
  ASSUME Inv, NEW cmd \in Cmds \ {"none", "batch", "release"}, Control(cmd),
         UNCHANGED kept, exe' \in Version, package' \in Version, current' \in BOOLEAN,
         Succeeded("run")' => cmd # "run" \/ Loadable'
  PROVE  Inv'
<1>1. /\ CommandTypes' /\ NothingReturned'
      /\ doing'.next \in 1 .. MaxBatch + 1
      /\ result' \in {"none", "true", "false"}
      /\ commands' \in 0 .. MaxCommands
      /\ doing'.cmd \in {cmd, "none"}
      /\ ~Succeeded("batch")' /\ ~Succeeded("release")'
      /\ cmd # "run" => ~Ran'
  BY ControlKeeps
<1>2. DevTypeOK'
  BY <1>1 DEF Inv, DevTypeOK, kept
<1>3. CopiesCurrent' /\ BatchSoFar'
  BY <1>1 DEF CopiesCurrent, Running, BatchSoFar
<1>4. ReleasedIsCurrent' /\ (Ran' => Loadable')
  BY <1>1 DEF ReleasedIsCurrent, Ran
<1> QED
  BY <1>1, <1>2, <1>3, <1>4 DEF Inv

\* What the developer edits is not what a command returned about.
LEMMA EditKeeps ==
  ASSUME Inv, EditSource \/ EditText
  PROVE  Inv'
<1> USE IdleFields
<1>1. /\ doing = Idle /\ doing' = doing /\ last' = Idle
      /\ UNCHANGED <<result, commands, exe, relExe, guiExe, package, batch>>
  BY DEF EditSource, EditText, Edit, simVars
<1>2. source' \in Version \ {0} /\ asmFile' \in Texts
  BY BoundsAssumption
     DEF Inv, DevTypeOK, Version, EditSource, EditText, Edit, simVars, textVars
<1>3. current' \in BOOLEAN
  BY DEF Inv, DevTypeOK, EditSource, EditText, textVars
<1>4. DevTypeOK'
  BY <1>1, <1>2, <1>3 DEF Inv, DevTypeOK
<1>5. CommandTypes' /\ NothingReturned'
  BY <1>1 DEF CommandTypes, NothingReturned
<1>6. CopiesCurrent' /\ ReleasedIsCurrent' /\ BatchSoFar' /\ ~Ran'
  BY <1>1 DEF CopiesCurrent, Running, ReleasedIsCurrent, BatchSoFar, Ran, Succeeded
<1> QED
  BY <1>4, <1>5, <1>6 DEF Inv

\* Which command a step is one of.
LEMMA ToolControl ==
  /\ Clean => Control("clean")
  /\ Build => Control("build")
  /\ Parse => Control("parse")
  /\ Run => Control("run")
  /\ Test => Control("test")
  /\ Release => Control("release")
  /\ Package => Control("package")
<1> USE DEF Steps, Control, Running, Fail
<1>1. Clean => Control("clean")
  BY DEF Clean
<1>2. Build => Control("build")
  BY DEF Build, Make
<1>3. Parse => Control("parse")
  BY DEF Parse, Assembled, InterruptedAssembly
<1>4. (Run => Control("run")) /\ (Test => Control("test"))
  BY DEF Run, Test, NoExecutable
<1>5. Release => Control("release")
  BY DEF Release, BuildRelease, CopyRelease
<1>6. Package => Control("package")
  BY DEF Package, PyInstaller, CopyPackage
<1> QED
  BY <1>1, <1>2, <1>3, <1>4, <1>5, <1>6

\* Cleaning, building, assembling, running and packing are quiet.
LEMMA ToolsKeep ==
  ASSUME Inv, Clean \/ Build \/ Parse \/ Run \/ Test \/ Package
  PROVE  Inv'
<1> USE DEF Cmds, Steps
<1>0. /\ exe \in Version /\ package \in Version /\ guiExe \in Version
      /\ source \in Version /\ 0 \in Version /\ current \in BOOLEAN
  BY BoundsAssumption DEF Inv, DevTypeOK, Version
<1>1. CASE Clean
  <2>1. UNCHANGED kept /\ exe' \in Version /\ package' \in Version /\ current' \in BOOLEAN
    BY <1>0, <1>1 DEF Clean, kept, textVars
  <2>2. Control("clean")
    BY <1>1, ToolControl
  <2> QED
    BY <2>1, <2>2, QuietKeeps
<1>2. CASE Build
  <2>1. UNCHANGED kept /\ exe' \in Version /\ package' \in Version /\ current' \in BOOLEAN
    BY <1>0, <1>2 DEF Build, Make, kept, simVars, textVars
  <2>2. Control("build")
    BY <1>2, ToolControl
  <2> QED
    BY <2>1, <2>2, QuietKeeps
<1>3. CASE Parse
  <2>1. UNCHANGED kept /\ exe' \in Version /\ package' \in Version /\ current' \in BOOLEAN
    BY <1>0, <1>3
       DEF Parse, Assembled, InterruptedAssembly, kept, simVars, textVars
  <2>2. Control("parse")
    BY <1>3, ToolControl
  <2> QED
    BY <2>1, <2>2, QuietKeeps
<1>4. CASE Run
  <2>1. /\ UNCHANGED kept /\ exe' \in Version /\ package' \in Version /\ current' \in BOOLEAN
        /\ hexFile' = hexFile
    BY <1>0, <1>4 DEF Run, kept, simVars, textVars
  <2>2. Control("run")
    BY <1>4, ToolControl
  <2>3. Succeeded("run")' => Loadable'
    <3>1. CASE Running("run", "simulate") /\ Loadable /\ Return("true")
      BY <2>1, <3>1 DEF Loadable
    <3>2. CASE NoExecutable("run")
      BY <3>2 DEF NoExecutable, ReturnAtOnce, Succeeded
    <3>3. CASE Begin("run", "simulate", 0) \/ Fail("run")
      BY <3>3 DEF Begin, Fail, Return, Succeeded
    <3>4. CASE Interrupt("run")
      BY <3>4, IdleFields DEF Interrupt, Inv, NothingReturned, Succeeded
    <3> QED
      BY <1>4, <3>1, <3>2, <3>3, <3>4 DEF Run
  <2> QED
    BY <2>1, <2>2, <2>3, QuietKeeps
<1>6. CASE Test
  <2>1. UNCHANGED kept /\ exe' \in Version /\ package' \in Version /\ current' \in BOOLEAN
    BY <1>0, <1>6 DEF Test, kept, simVars, textVars
  <2>2. Control("test")
    BY <1>6, ToolControl
  <2> QED
    BY <2>1, <2>2, QuietKeeps
<1>5. CASE Package
  <2>1. UNCHANGED kept /\ exe' \in Version /\ package' \in Version /\ current' \in BOOLEAN
    BY <1>0, <1>5 DEF Package, PyInstaller, CopyPackage, kept, simVars, textVars
  <2>2. Control("package")
    BY <1>5, ToolControl
  <2> QED
    BY <2>1, <2>2, QuietKeeps
<1> QED
  BY <1>1, <1>2, <1>3, <1>4, <1>5, <1>6
-----------------------------------------------------------------------------
(* Release *)

\* A release copies what it has built of the sources as they are.
LEMMA ReleaseKeeps ==
  ASSUME Inv, Release
  PROVE  Inv'
<1> USE DEF Cmds, Steps
<1>0. /\ source \in Version /\ relExe \in Version
      /\ exe \in Version /\ guiExe \in Version /\ package \in Version
  BY DEF Inv, DevTypeOK
<1>1. Control("release")
  BY ToolControl
<1>2. /\ UNCHANGED <<source, exe, package, asmFile, batch, current>>
      /\ relExe' \in Version /\ guiExe' \in Version
  BY <1>0 DEF Release, BuildRelease, CopyRelease, simVars, textVars
<1>3. /\ CommandTypes' /\ NothingReturned'
      /\ doing'.next \in 1 .. MaxBatch + 1
      /\ result' \in {"none", "true", "false"}
      /\ commands' \in 0 .. MaxCommands
      /\ doing'.cmd \in {"release", "none"}
      /\ ~Ran'
  BY <1>1, ControlKeeps
<1>4. DevTypeOK'
  BY <1>2, <1>3 DEF Inv, DevTypeOK
<1>5. BatchSoFar' /\ ~Ran'
  BY <1>3 DEF BatchSoFar
<1>6. CopiesCurrent' /\ ReleasedIsCurrent'
  <2> USE IdleFields
  <2>1. CASE BuildRelease
    <3>1. relExe' = source /\ source' = source
      BY <2>1 DEF BuildRelease
    <3>2. last' = last /\ doing'.cmd = "release"
      BY <2>1 DEF BuildRelease, Running, GoOn, Inv, CommandTypes, Doing
    <3> QED
      BY <3>1, <3>2 DEF CopiesCurrent, ReleasedIsCurrent, Succeeded
  <2>2. CASE CopyRelease
    <3>1. relExe = source
      BY <2>2 DEF CopyRelease, Inv, CopiesCurrent
    <3>2. guiExe' = relExe /\ source' = source /\ doing' = Idle
      BY <2>2 DEF CopyRelease, Return
    <3> QED
      BY <3>1, <3>2 DEF CopiesCurrent, Running, ReleasedIsCurrent
  <2>3. CASE Begin("release", "cmake", 0) /\ UNCHANGED simVars
    BY <2>3, BoundsAssumption
       DEF Begin, Command, CopiesCurrent, Running, ReleasedIsCurrent, Succeeded
  <2>4. CASE Running("release", "cmake") /\ GoOn("build") /\ UNCHANGED simVars
    BY <2>4
       DEF GoOn, CopiesCurrent, Running, ReleasedIsCurrent, Succeeded,
           Inv, CommandTypes, Doing
  <2>5. CASE (Fail("release") \/ Interrupt("release")) /\ UNCHANGED simVars
    <3>1. doing # Idle /\ doing' = Idle /\ result = "none"
      BY <2>5 DEF Fail, Interrupt, Return, Inv, NothingReturned
    <3>2. result' # "true"
      BY <2>5, <3>1 DEF Fail, Interrupt, Return
    <3> QED
      BY <3>1, <3>2 DEF CopiesCurrent, Running, ReleasedIsCurrent, Succeeded
  <2> QED
    BY <2>1, <2>2, <2>3, <2>4, <2>5 DEF Release
<1> QED
  BY <1>3, <1>4, <1>5, <1>6 DEF Inv
-----------------------------------------------------------------------------
(* BatchRun *)

\* A batch that ends after a run had a file that could be loaded.
LEMMA BatchKeeps ==
  ASSUME Inv, BatchRun
  PROVE  Inv'
<1> USE IdleFields, BoundsAssumption
<1>1. CASE StartBatch
  <2>1. PICK n \in 0 .. MaxBatch : Begin("batch", "simulate", n)
    BY <1>1 DEF StartBatch
  <2>2. /\ doing' = Command("batch", "simulate", n) /\ result' = "none" /\ last' = Idle
        /\ commands' = commands + 1 /\ commands < MaxCommands
    BY <2>1 DEF Begin, MayBegin
  <2>3. /\ doing' \in Doing /\ doing'.cmd = "batch"
        /\ doing'.next = 1 /\ doing'.arg = n /\ last' = Idle
    <3>1. "batch" \in Cmds /\ "simulate" \in Steps
      BY DEF Cmds, Steps
    <3> QED
      BY <2>2, <3>1, CommandFields
  <2>4. /\ UNCHANGED <<source, exe, relExe, guiExe, package, asmFile, current>>
        /\ batch' \subseteq batch
    BY <1>1 DEF StartBatch, CleanBatch, simVars, textVars
  <2>5. DevTypeOK'
    BY <2>2, <2>3, <2>4 DEF Inv, DevTypeOK
  <2>6. CommandTypes' /\ NothingReturned'
    BY <2>2, <2>3 DEF CommandTypes, NothingReturned
  <2>7. BatchSoFar'
    BY <2>3 DEF BatchSoFar
  <2>8. CopiesCurrent' /\ ReleasedIsCurrent' /\ ~Ran'
    BY <2>3 DEF CopiesCurrent, Running, ReleasedIsCurrent, Ran, Succeeded
  <2> QED
    BY <2>5, <2>6, <2>7, <2>8 DEF Inv
<1>2. CASE NextRun
  <2>1. /\ doing.cmd = "batch" /\ UNCHANGED <<result, last, commands>>
        /\ doing' = [doing EXCEPT !.next = @ + 1] /\ doing.next <= doing.arg
        /\ UNCHANGED <<source, exe, relExe, guiExe, package, asmFile, current, batch>>
        /\ Loadable /\ hexFile' = hexFile
    BY <1>2 DEF NextRun, Running, simVars, textVars
  <2>2. /\ doing \in Doing /\ doing.arg \in 0 .. MaxBatch
        /\ doing.next \in 1 .. MaxBatch + 1
    BY DEF Inv, CommandTypes, Doing
  <2>3. doing.next + 1 \in 1 .. MaxBatch + 1
    BY <2>1, <2>2
  <2>4. /\ doing' \in Doing /\ doing'.cmd = "batch"
        /\ doing'.arg = doing.arg /\ doing'.next = doing.next + 1
    BY <2>1, <2>2, <2>3 DEF Doing
  <2>5. doing # Idle /\ result = "none"
    BY <2>1 DEF Inv, NothingReturned
  <2>6. DevTypeOK'
    BY <2>1, <2>3, <2>4 DEF Inv, DevTypeOK
  <2>7. CommandTypes' /\ NothingReturned'
    BY <2>1, <2>4, <2>5 DEF Inv, CommandTypes, NothingReturned
  <2>8. BatchSoFar'
    <3>1. Loadable'
      BY <2>1 DEF Loadable
    <3> QED
      BY <2>1, <2>2, <2>4, <3>1 DEF BatchSoFar
  <2>9. CopiesCurrent' /\ ReleasedIsCurrent' /\ ~Ran'
    BY <2>4 DEF CopiesCurrent, Running, ReleasedIsCurrent, Ran, Succeeded
  <2> QED
    BY <2>6, <2>7, <2>8, <2>9 DEF Inv
<1>3. CASE EndBatch
  <2>1. /\ doing.cmd = "batch" /\ doing.next > doing.arg
        /\ doing' = Idle /\ result' = "true" /\ last' = doing /\ commands' = commands
        /\ UNCHANGED <<source, exe, relExe, guiExe, package, asmFile, current, batch>>
        /\ hexFile' = hexFile
    BY <1>3 DEF EndBatch, Return, Running, simVars, textVars
  <2>2. /\ doing \in Doing /\ doing.next \in 1 .. MaxBatch + 1
        /\ doing.arg \in 0 .. MaxBatch
    BY DEF Inv, CommandTypes, Doing
  <2>3. doing.arg > 0 => Loadable
    BY <2>1, <2>2 DEF Inv, BatchSoFar
  <2>4. Loadable' <=> Loadable
    BY <2>1 DEF Loadable
  <2>5. Ran' => Loadable'
    BY <2>1, <2>3, <2>4 DEF Ran, Succeeded
  <2>6. DevTypeOK' /\ CommandTypes' /\ NothingReturned'
    BY <2>1, <2>2 DEF Inv, DevTypeOK, CommandTypes, NothingReturned
  <2>7. CopiesCurrent' /\ ReleasedIsCurrent' /\ BatchSoFar'
    BY <2>1 DEF CopiesCurrent, Running, ReleasedIsCurrent, Succeeded, BatchSoFar
  <2> QED
    BY <2>5, <2>6, <2>7 DEF Inv
<1>4. CASE NoExecutable("batch") /\ UNCHANGED <<simVars, textVars, batch>>
  <2>1. /\ doing = Idle /\ doing' = doing /\ result' = "false"
        /\ last' = Command("batch", "prompt", 0)
        /\ commands' = commands + 1 /\ commands < MaxCommands
        /\ UNCHANGED <<source, exe, relExe, guiExe, package, asmFile, current, batch>>
    BY <1>4 DEF NoExecutable, ReturnAtOnce, MayBegin, simVars, textVars
  <2>2. last' \in Doing
    <3>1. "batch" \in Cmds /\ "prompt" \in Steps /\ 0 \in 0 .. MaxBatch
      BY DEF Cmds, Steps
    <3> QED
      BY <2>1, <3>1, CommandFields
  <2>3. DevTypeOK' /\ CommandTypes' /\ NothingReturned'
    BY <2>1, <2>2 DEF Inv, DevTypeOK, CommandTypes, NothingReturned
  <2>4. CopiesCurrent' /\ ReleasedIsCurrent' /\ BatchSoFar' /\ ~Ran'
    BY <2>1
       DEF CopiesCurrent, Running, ReleasedIsCurrent, Succeeded, BatchSoFar, Ran
  <2> QED
    BY <2>3, <2>4 DEF Inv
<1>5. CASE (Fail("batch") \/ Interrupt("batch")) /\ UNCHANGED <<simVars, textVars, batch>>
  <2>1. /\ doing.cmd = "batch" /\ doing' = Idle /\ commands' = commands
        /\ last' \in {doing, last} /\ result' \in {result, "false"}
        /\ UNCHANGED <<source, exe, relExe, guiExe, package, asmFile, current, batch>>
    BY <1>5 DEF Fail, Interrupt, Return, simVars, textVars
  <2>2. result' # "true" /\ result' \in {"none", "false"}
    BY <2>1 DEF Inv, NothingReturned
  <2>3. DevTypeOK' /\ CommandTypes' /\ NothingReturned'
    BY <2>1, <2>2 DEF Inv, DevTypeOK, CommandTypes, NothingReturned
  <2>4. CopiesCurrent' /\ ReleasedIsCurrent' /\ BatchSoFar' /\ ~Ran'
    BY <2>1, <2>2
       DEF CopiesCurrent, Running, ReleasedIsCurrent, Succeeded, BatchSoFar, Ran
  <2> QED
    BY <2>3, <2>4 DEF Inv
<1> QED
  BY <1>1, <1>2, <1>3, <1>4, <1>5 DEF BatchRun
-----------------------------------------------------------------------------
(* The theorems *)

\* Nothing is built or returned at first.
LEMMA InitInv == DevInit => Inv
<1> SUFFICES ASSUME DevInit
             PROVE  Inv
  OBVIOUS
<1>1. current \in BOOLEAN
  BY DEF DevInit
<1>2. DevTypeOK
  BY <1>1, IdleFields, BoundsAssumption DEF DevInit, DevTypeOK, Version
<1> QED
  BY <1>2, IdleFields, BoundsAssumption
     DEF DevInit, Inv, CommandTypes, NothingReturned, CopiesCurrent, Running,
         ReleasedIsCurrent, Succeeded, BatchSoFar, Ran

\* Every step keeps the invariant.
LEMMA StepInv ==
  ASSUME Inv, [DevNext]_devVars
  PROVE  Inv'
<1>1. CASE UNCHANGED devVars
  BY <1>1
     DEF devVars, simVars, textVars, cmdVars, Inv, DevTypeOK, CommandTypes,
         NothingReturned, CopiesCurrent, Running, ReleasedIsCurrent, Succeeded, BatchSoFar,
         Ran, Loadable
<1> QED
  BY <1>1, EditKeeps, ToolsKeep, ReleaseKeeps, BatchKeeps DEF DevNext

\* The invariant holds always.
LEMMA SpecInv == DevSpec => []Inv
<1>1. Inv /\ [DevNext]_devVars => Inv'
  BY StepInv
<1> QED
  BY <1>1, InitInv, PTL DEF DevSpec

\* Versions exist and a batch does no run that was not asked for (DevTypeOK).
THEOREM DevToolsTypeCorrect == DevSpec => []DevTypeOK
<1>1. Inv => DevTypeOK
  BY DEF Inv
<1> QED
  BY <1>1, SpecInv, PTL

\* A release that returned True copied a simulator of the sources as they are:
\* nothing but a build of this very release leads to the copy (ReleasedIsCurrent).
THEOREM ReleasedIsCurrentHolds == DevSpec => []ReleasedIsCurrent
<1>1. Inv => ReleasedIsCurrent
  BY DEF Inv
<1> QED
  BY <1>1, SpecInv, PTL

-----------------------------------------------------------------------------
(* Parse, and runs of what it left *)

\* The file of the text as it is, after a Parse since it was edited, and no other
\* command is taken for a Parse that returned True.
HexIsParsed ==
  /\ current /\ Outcome(asmFile).opened => hexFile = File(Outcome(asmFile).file)
  /\ Succeeded("parse") => current

\* No other command is taken for a Parse, and none that failed or was interrupted.
LEMMA OthersDoNotParse ==
  ASSUME Inv, DevNext, ~Assembled
  PROVE  ~Succeeded("parse")'
<1> USE IdleFields DEF Cmds
<1>1. CASE EditSource \/ EditText
  BY <1>1 DEF EditSource, EditText, Edit, Succeeded
<1>2. CASE Clean \/ Build \/ Run \/ Test \/ Release \/ Package
  BY <1>2, ToolControl, ControlKeeps
<1>3. CASE Parse
  <2>1. CASE Begin("parse", "pyasm", 0)
    BY <2>1 DEF Begin, Succeeded
  <2>2. CASE Fail("parse")
    BY <2>2 DEF Fail, Return, Succeeded
  <2>3. CASE InterruptedAssembly
    <3>1. doing.cmd = "parse" /\ result' = result
      BY <2>3 DEF InterruptedAssembly, Interrupt
    <3>2. result = "none"
      BY <3>1 DEF Inv, NothingReturned
    <3> QED
      BY <3>1, <3>2 DEF Succeeded
  <2> QED
    BY <1>3, <2>1, <2>2, <2>3 DEF Parse
<1>4. CASE BatchRun
  <2>1. CASE NoExecutable("batch")
    <3>1. last' = Command("batch", "prompt", 0)
      BY <2>1 DEF NoExecutable, ReturnAtOnce
    <3> QED
      BY <3>1 DEF Command, Succeeded
  <2>2. CASE StartBatch
    BY <2>2 DEF StartBatch, Begin, Succeeded
  <2>3. CASE NextRun
    <3>1. doing.cmd = "batch" /\ doing' = [doing EXCEPT !.next = @ + 1]
      BY <2>3 DEF NextRun, Running
    <3>2. doing'.cmd = "batch"
      BY <3>1 DEF Inv, CommandTypes, Doing
    <3> QED
      BY <3>2 DEF Succeeded
  <2>4. CASE EndBatch \/ Fail("batch")
    BY <2>4 DEF EndBatch, Running, Fail, Return, Succeeded
  <2>5. CASE Interrupt("batch")
    <3>1. doing.cmd = "batch" /\ result' = result
      BY <2>5 DEF Interrupt
    <3>2. result = "none"
      BY <3>1 DEF Inv, NothingReturned
    <3> QED
      BY <3>1, <3>2 DEF Succeeded
  <2> QED
    BY <1>4, <2>1, <2>2, <2>3, <2>4, <2>5 DEF BatchRun
<1> QED
  BY <1>1, <1>2, <1>3, <1>4 DEF DevNext

\* Nothing but an edit and a Parse changes text or file, and both leave the file as of
\* no text but a Parse that ends.
LEMMA OthersKeepText ==
  ASSUME DevNext, ~Assembled
  PROVE  current' = FALSE \/ UNCHANGED textVars
<1>1. CASE EditSource \/ EditText
  BY <1>1 DEF EditSource, EditText
<1>2. CASE Clean \/ Build \/ Run \/ Test
  BY <1>2 DEF Clean, Build, Make, Run, Test
<1>3. CASE Parse
  BY <1>3 DEF Parse, InterruptedAssembly
<1>4. CASE BatchRun
  BY <1>4 DEF BatchRun, StartBatch, NextRun, EndBatch
<1>5. CASE Release \/ Package
  BY <1>5 DEF Release, Package
<1> QED
  BY <1>1, <1>2, <1>3, <1>4, <1>5 DEF DevNext

\* So what was parsed stays what is in the file until the text is edited.
LEMMA HexKept ==
  ASSUME Inv, HexIsParsed, [DevNext]_devVars
  PROVE  HexIsParsed'
<1>1. CASE Assembled
  <2>1. hexFile' = generateBinary(asmFile) /\ asmFile' = asmFile /\ current' = TRUE
    BY <1>1 DEF Assembled
  <2> QED
    BY <2>1 DEF generateBinary, HexIsParsed
<1>2. CASE DevNext /\ ~Assembled
  <2>1. ~Succeeded("parse")' /\ (current' = FALSE \/ UNCHANGED textVars)
    BY <1>2, OthersDoNotParse, OthersKeepText
  <2> QED
    BY <2>1 DEF HexIsParsed, textVars
<1>3. CASE UNCHANGED devVars
  BY <1>3 DEF devVars, textVars, cmdVars, HexIsParsed, Succeeded
<1> QED
  BY <1>1, <1>2, <1>3

\* Both invariants hold always.
LEMMA SpecHex == DevSpec => [](Inv /\ HexIsParsed)
<1>1. DevInit => HexIsParsed
  BY DEF DevInit, HexIsParsed, Succeeded
<1>2. Inv /\ HexIsParsed /\ [DevNext]_devVars => HexIsParsed'
  BY HexKept
<1> QED
  BY <1>1, <1>2, SpecInv, PTL DEF DevSpec

\* With the file of a text it describes a memory by, the simulator loads that memory,
\* if it loads any.
LEMMA CurrentLoads ==
  ASSUME Inv, HexIsParsed, current, Describes(asmFile), Load(hexFile.lines).valid
  PROVE  LoadsAsListed(asmFile)
<1> DEFINE r == Outcome(asmFile)
<1>1. IsText(asmFile)
  <2>1. asmFile \in Texts
    BY DEF Inv, DevTypeOK
  <2>2. asmFile \in Seq(Range(asmFile)) /\ \A line \in Range(asmFile) : IsLine(line)
    BY <2>1, AsmFilesAssumption
  <2>3. Len(asmFile) \in Nat /\ DOMAIN asmFile = 1 .. Len(asmFile)
    BY <2>2
  <2>4. \A n \in DOMAIN asmFile : asmFile[n] \in Range(asmFile)
    BY DEF Range
  <2> QED
    BY <2>2, <2>3, <2>4 DEF IsText
<1>2. r = Assemble(FreshAssembler, asmFile)
  BY DEF Outcome
<1>3. /\ LegalBesidesVectors(asmFile, DefinedLabels(asmFile))
      /\ OneBlockOf(r.asm.bootInstructions) /\ VectorsFit(asmFile)
  BY DEF Describes
<1> HIDE DEF r
<1>4. r.opened
  BY <1>1, <1>2, <1>3, LegalAssembles
<1>5. hexFile.lines = r.file
  BY <1>4 DEF HexIsParsed, File, r
<1>6. Load(r.file).cells = MemoryOf(asmFile, LabelValues(asmFile))
  BY <1>1, <1>2, <1>3, <1>5, NewAssemblerLoads
<1> QED
  BY <1>5, <1>6 DEF LoadsAsListed

\* Of a legal text, with one block of boot code and vectors that fit, a Parse that
\* returned True left a file the listing is loaded from, if any is, whatever file and
\* whatever part of one was there before (ParsedIsListed).
THEOREM ParsedIsListedHolds == DevSpec => []ParsedIsListed
<1>1. Inv /\ HexIsParsed => ParsedIsListed
  BY CurrentLoads DEF ParsedIsListed, HexIsParsed
<1> QED
  BY <1>1, SpecHex, PTL

\* A Run or a batch that returned True ran the memory of the text's listing, if the
\* text is such a one and was parsed since its last edit, whatever commands failed or
\* were interrupted in between: it would not have returned True of a file that cannot
\* be loaded (RunIsOfText).
THEOREM RunIsOfTextHolds == DevSpec => []RunIsOfText
<1>1. Inv /\ HexIsParsed => RunIsOfText
  <2> SUFFICES ASSUME Inv, HexIsParsed, Ran, current, Describes(asmFile)
               PROVE  LoadsAsListed(asmFile)
    BY DEF RunIsOfText, Ran
  <2>1. Load(hexFile.lines).valid
    BY DEF Inv, Loadable
  <2> QED
    BY <2>1, CurrentLoads
<1> QED
  BY <1>1, SpecHex, PTL
=============================================================================
