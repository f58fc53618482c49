------------------------------ MODULE Session ------------------------------
(***************************************************************************)
(* Runs of the simulator as the interface starts, cancels and answers      *)
(* them (InputTab.py), with the configuration they are given               *)
(* (ConfigTab.py), the directory they leave their results in, and the      *)
(* window around it all (GUI.py).                                          *)
(*                                                                         *)
(* A handler of the interface runs to its end in one step, but for message *)
(* boxes and file dialogs: those run an event loop of their own, in which  *)
(* finished() of any process and the timer are still served.  `dialogs` is *)
(* the stack of handlers that wait in such a loop.                         *)
(*                                                                         *)
(* What the simulation tab does with the results is in View.  Here it may  *)
(* load them, find none, or raise an exception, which ends the program.    *)
(***************************************************************************)
EXTENDS Integers, SequencesExt

CONSTANTS
  MaxRuns,        \* runs of the simulator, for TLC
  MaxCycle,       \* the last cycle a simulation can have, for TLC
  Configs,        \* configurations, with fields single_state_mode and
                  \* ls_cache_set_entries_count
  DefaultConfig,  \* Config()
  Recordings      \* what a simulation may record: the last cycle, the cycles
                  \* in which memory changes (the first is one), and the cycles
                  \* in which each component differs from the cycle before

ASSUME RunsAssumption == MaxRuns \in Nat \ {0}

ASSUME ConfigsAssumption == DefaultConfig \in Configs

\* An instruction takes a cycle to be fetched, one to be decoded and one to be executed
\* at least, and the limit is never less than a hundred.
ASSUME RecordingsAssumption ==
  /\ MaxCycle \in Nat /\ Recordings # {}
  /\ \A r \in Recordings :
       r.last \in 2 .. MaxCycle /\ 1 \in r.memory /\ r.memory \subseteq 1 .. r.last

VARIABLES
  app,                  \* "open", "closed" by the user, or what was going wrong
                        \* when an exception ended it
  buttons,              \* the buttons of the input tab are enabled ...
  cancelButton,         \* ... and Cancel is
  tabEnabled,           \* the simulation tab is enabled
  dialogs,              \* the dialogs that are open, one above the other
  runningProcess,
  simulationCancelled,
  currConfig,           \* the configuration in force
  inputs,               \* what the fields of the configuration tab show
  status,               \* of each run's process
  connected,            \* runs whose finished() this window listens to
  usedConfig,           \* the configuration a run was started with
  recording,            \* what a run records
  written,              \* the last cycle a run at work has written, or 0
  cpuStates,            \* the run that wrote simulation/cpu_states/<cycle>.json
  memories,             \* the run that wrote simulation/memory/<cycle>.json
  lastRun,              \* history: the run started last
  late,                 \* history: it was started with an earlier one unanswered
  edited                \* history: the configuration changed while it ran

processVars == <<status, usedConfig, recording, written>>
fileVars    == <<cpuStates, memories>>
configVars  == <<currConfig, inputs>>
inputVars   == <<buttons, cancelButton, runningProcess, simulationCancelled>>
windowVars  == <<app, tabEnabled, dialogs, connected, inputVars, configVars>>
historyVars == <<lastRun, late, edited>>
sessionVars == <<app, buttons, cancelButton, tabEnabled, dialogs, runningProcess,
                 simulationCancelled, currConfig, inputs, status, connected,
                 usedConfig, recording, written, cpuStates, memories, lastRun,
                 late, edited>>

Runs    == 1 .. MaxRuns
NoRun   == 0
Cycles  == 1 .. MaxCycle
NoFiles == [c \in Cycles |-> NoRun]

(***************************************************************************)
(* A process not started yet; one that could not be started, which never   *)
(* emits finished(); one at work; one at work for ever (Shutdown); one that *)
(* is over and whose finished() is not yet served; and one that was served. *)
(***************************************************************************)
Working  == {"running", "stuck"}
Over     == {"exited", "failed", "killed"}
Statuses == {"unused", "absent", "done"} \union Working \union Over

DialogKinds == {"file", "failed", "noStates"}

\* What may raise an exception that no handler catches: a text that cannot be read,
\* written, encoded or decoded; a file that cannot be removed; kill() of no process;
\* and the simulation tab.
Exceptions == {"text", "removal", "kill", "view"}

FreshWindow ==
  /\ buttons = TRUE /\ cancelButton = FALSE
  /\ tabEnabled = FALSE
  /\ dialogs = <<>>
  /\ runningProcess = NoRun /\ simulationCancelled = FALSE
  /\ currConfig = DefaultConfig /\ inputs = DefaultConfig
  /\ connected = {}

SessionInit ==
  /\ app = "open" /\ FreshWindow
  /\ status = [p \in Runs |-> "unused"]
  /\ usedConfig = [p \in Runs |-> DefaultConfig]
  /\ recording = [p \in Runs |-> CHOOSE r \in Recordings : TRUE]
  /\ written = [p \in Runs |-> 0]
  /\ cpuStates = NoFiles /\ memories = NoFiles
  /\ lastRun = NoRun /\ late = FALSE /\ edited = FALSE

-----------------------------------------------------------------------------
(* The simulator.                                                          *)

Single(p) == usedConfig[p].single_state_mode

\* The cycles a run records: all of them, or the first and the last.
Recorded(p) == IF Single(p) THEN {1, recording[p].last} ELSE 1 .. recording[p].last

\* The cycles a run writes memory for, once it has changed since it last did.
MemoryWritten(p) ==
  IF ~Single(p) THEN recording[p].memory
  ELSE {1} \union IF recording[p].memory = {1} THEN {} ELSE {recording[p].last}

NextToWrite(p) ==
  CHOOSE c \in Recorded(p) : c > written[p] /\ \A d \in Recorded(p) : d > written[p] => d >= c

\* dumpSimulation, which comes after the simulation, writes the files of a cycle.
WriteCycle(p) ==
  /\ status[p] = "running" /\ written[p] < recording[p].last
  /\ LET c == NextToWrite(p) IN
       /\ written' = [written EXCEPT ![p] = c]
       /\ cpuStates' = [cpuStates EXCEPT ![c] = p]
       /\ memories' = IF c \in MemoryWritten(p) THEN [memories EXCEPT ![c] = p] ELSE memories
  /\ UNCHANGED <<status, usedConfig, recording>>

ProcessIs(p, s) ==
  /\ status[p] = "running"
  /\ status' = [status EXCEPT ![p] = s]
  /\ written' = [written EXCEPT ![p] = 0]
  /\ UNCHANGED <<usedConfig, recording, cpuStates, memories>>

Exits(p)  == written[p] = recording[p].last /\ ProcessIs(p, "exited")

\* The program cannot be loaded; the process does not come to an end.
Fails(p)  == written[p] = 0 /\ ProcessIs(p, "failed")
Sticks(p) == written[p] = 0 /\ ProcessIs(p, "stuck")

ProcessStep(p) ==
  /\ WriteCycle(p) \/ Exits(p) \/ Fails(p) \/ Sticks(p)
  /\ UNCHANGED <<windowVars, historyVars>>

-----------------------------------------------------------------------------
(* The window.                                                             *)

UserTurn == app = "open" /\ dialogs = <<>>

SetAllButtonsEnabled(enabled, cancel) == buttons' = enabled /\ cancelButton' = cancel

\* An exception that no handler catches ends the program and what it holds; its
\* processes go on.
NewWindow ==
  /\ SetAllButtonsEnabled(TRUE, FALSE)
  /\ tabEnabled' = FALSE
  /\ dialogs' = <<>>
  /\ runningProcess' = NoRun /\ simulationCancelled' = FALSE
  /\ currConfig' = DefaultConfig /\ inputs' = DefaultConfig
  /\ connected' = {}

Abort(exception) == app' = exception /\ NewWindow

\* A mutant: the results of the run before are not removed.
NothingRemoved == UNCHANGED <<cpuStates, memories>>

CleanUpSimulationDir == cpuStates' = NoFiles /\ memories' = NoFiles

\* A process that is at work, or that was killed and is not known to be gone, may
\* have a file open.
MayHoldFile(p) == status[p] \in Working \/ (p \in connected /\ status[p] = "killed")

Rest(dir, kept) == [c \in Cycles |-> IF c \in kept THEN dir[c] ELSE NoRun]

\* os.remove raises at such a file, in the first directory or in the second; the
\* rest stays there.
CleanUpAborts ==
  /\ \E p \in Runs : MayHoldFile(p)
  /\ \E kept \in SUBSET Cycles :
       \/ cpuStates' = Rest(cpuStates, kept) /\ UNCHANGED memories
       \/ cpuStates' = NoFiles /\ memories' = Rest(memories, kept)
  /\ Abort("removal")
  /\ UNCHANGED <<processVars, historyVars>>

\* The text of an editor is written to a file or read from one, and it cannot be.
TextAborts ==
  /\ Abort("text")
  /\ UNCHANGED <<processVars, fileVars, historyVars>>

\* A mutant: the process is forgotten and not killed.
NotKilled(ps) == UNCHANGED <<status, usedConfig, recording, written>>

\* kill() of processes, which has no effect on one that is not at work.
Kill(ps) ==
  LET killed == {p \in ps : status[p] \in Working} IN
    /\ status' = [p \in Runs |-> IF p \in killed THEN "killed" ELSE status[p]]
    /\ written' = [p \in Runs |-> IF p \in killed THEN 0 ELSE written[p]]
    /\ UNCHANGED <<usedConfig, recording>>

\* closeEvent removes the directory, unless a process at work keeps a file of it
\* open; the processes are killed with the window.
Close ==
  /\ UserTurn
  /\ app' = "closed" /\ NewWindow
  /\ Kill(connected)
  /\ \/ CleanUpSimulationDir
     \/ (\E p \in Runs : status[p] \in Working) /\ UNCHANGED fileVars
  /\ UNCHANGED historyVars

\* The program is started again; the directory may hold anything.
Start ==
  /\ app # "open" /\ app' = "open" /\ NewWindow
  /\ UNCHANGED <<processVars, fileVars, historyVars>>

-----------------------------------------------------------------------------
(* The configuration tab, which can be used at any time.                   *)

ConfigStep ==
  UNCHANGED <<app, tabEnabled, dialogs, connected, inputVars, processVars, fileVars,
              lastRun, late>>

Edit(c) ==
  /\ UserTurn /\ c # inputs
  /\ inputs' = c
  /\ UNCHANGED <<currConfig, edited>> /\ ConfigStep

\* The last run has not been answered: what is saved now is not what it uses.
UnderWay == cancelButton

Save ==
  /\ UserTurn
  /\ currConfig' = inputs
  /\ edited' = (edited \/ (UnderWay /\ inputs # currConfig))
  /\ UNCHANGED inputs /\ ConfigStep

\* The Reset button.
SetConfig ==
  /\ UserTurn
  /\ currConfig' = DefaultConfig /\ inputs' = DefaultConfig
  /\ edited' = (edited \/ (UnderWay /\ currConfig # DefaultConfig))
  /\ ConfigStep

-----------------------------------------------------------------------------
(* The input tab.                                                          *)

\* Open and Save of either text: the dialog, then the file.  A file that is not
\* text cannot be read.
OpenDialog ==
  /\ UserTurn /\ buttons
  /\ SetAllButtonsEnabled(FALSE, FALSE)
  /\ dialogs' = Append(dialogs, "file")
  /\ UNCHANGED <<app, tabEnabled, connected, runningProcess, simulationCancelled>>
  /\ UNCHANGED <<configVars, processVars, fileVars, historyVars>>

Top(kind) == app = "open" /\ dialogs # <<>> /\ dialogs[Len(dialogs)] = kind

\* A mutant: an early return when no file was chosen.
DismissFileDialog ==
  /\ Top("file")
  /\ dialogs' = Front(dialogs)
  /\ UNCHANGED <<app, tabEnabled, connected, inputVars, configVars>>
  /\ UNCHANGED <<processVars, fileVars, historyVars>>

CloseFileDialog ==
  /\ Top("file")
  /\ \/ /\ SetAllButtonsEnabled(TRUE, FALSE)
        /\ dialogs' = Front(dialogs)
        /\ UNCHANGED <<app, tabEnabled, connected, runningProcess, simulationCancelled>>
        /\ UNCHANGED <<configVars, processVars, fileVars, historyVars>>
     \/ TextAborts

\* The text is written to a file outside the try block; what the assembler makes of
\* it is in Assembling.
ConvertAsmToHex ==
  /\ UserTurn /\ buttons
  /\ \/ /\ SetAllButtonsEnabled(TRUE, FALSE)
        /\ UNCHANGED <<app, tabEnabled, dialogs, connected, runningProcess>>
        /\ UNCHANGED <<simulationCancelled, configVars, processVars, fileVars, historyVars>>
     \/ TextAborts

\* A run that is at work, or that is over and not answered, would be mixed up
\* with the next; one that has been, until its process is over.
Unanswered ==
  \E q \in Runs : \/ q \in connected /\ status[q] \in Over
                  \/ q \notin connected /\ status[q] \in Working
                  \/ late /\ status[q] \in Working

\* A mutant: the parameters are made before the configuration is saved.
StartUnsaved(p, starts, r) ==
  /\ status' = [status EXCEPT ![p] = IF starts THEN "running" ELSE "absent"]
  /\ usedConfig' = [usedConfig EXCEPT ![p] = currConfig]
  /\ recording' = [recording EXCEPT ![p] = r]
  /\ connected' = connected \union {p}
  /\ UNCHANGED written

StartProcess(p, starts, r) ==
  /\ status' = [status EXCEPT ![p] = IF starts THEN "running" ELSE "absent"]
  /\ usedConfig' = [usedConfig EXCEPT ![p] = currConfig']
  /\ recording' = [recording EXCEPT ![p] = r]
  /\ connected' = connected \union {p}
  /\ UNCHANGED written

RunStarted(p, starts, r) ==
  /\ SetAllButtonsEnabled(FALSE, TRUE)
  /\ tabEnabled' = FALSE
  /\ CleanUpSimulationDir
  /\ currConfig' = inputs /\ UNCHANGED inputs
  /\ StartProcess(p, starts, r)
  /\ runningProcess' = p /\ simulationCancelled' = FALSE
  /\ lastRun' = p /\ late' = Unanswered /\ edited' = FALSE
  /\ UNCHANGED <<app, dialogs>>

\* With nothing to execute a warning is shown instead, and nothing changes.  The text
\* is written first, then the results of the run before are removed.
ExecuteSimulation(p, starts, r) ==
  /\ UserTurn /\ buttons
  /\ status[p] = "unused" /\ \A q \in Runs : q < p => status[q] # "unused"
  /\ TextAborts \/ CleanUpAborts \/ RunStarted(p, starts, r)

\* A mutant: Cancel stays enabled.
CancelOnly ==
  /\ UserTurn /\ cancelButton
  /\ IF runningProcess = NoRun
     THEN Abort("kill") /\ UNCHANGED processVars
     ELSE /\ Kill({runningProcess})
          /\ runningProcess' = NoRun /\ simulationCancelled' = TRUE
          /\ UNCHANGED <<app, tabEnabled, dialogs, connected, buttons, cancelButton>>
          /\ UNCHANGED configVars
  /\ UNCHANGED <<fileVars, historyVars>>

CancelSimulation ==
  /\ UserTurn /\ cancelButton
  /\ IF runningProcess = NoRun
     THEN Abort("kill") /\ UNCHANGED processVars
     ELSE /\ Kill({runningProcess})
          /\ runningProcess' = NoRun /\ simulationCancelled' = TRUE
          /\ SetAllButtonsEnabled(TRUE, FALSE)
          /\ UNCHANGED <<app, tabEnabled, dialogs, connected, configVars>>
  /\ UNCHANGED <<fileVars, historyVars>>

\* finished() of a process is served: PostExecuteSimulation.
Answers(p) ==
  /\ app = "open" /\ p \in connected /\ status[p] \in Over
  /\ status' = [status EXCEPT ![p] = "done"]
  /\ UNCHANGED <<usedConfig, recording, written>>

ExitCode(p) == IF status[p] = "exited" THEN 0 ELSE 1

\* A failure is reported; the rest comes once the report is closed.  What the simulator
\* printed may name a file (Memory.cpp 65), and cannot be decoded then.
FailureReported(p) ==
  /\ Answers(p) /\ ExitCode(p) # 0 /\ ~simulationCancelled
  /\ UNCHANGED <<fileVars, historyVars>>
  /\ \/ /\ dialogs' = Append(dialogs, "failed")
        /\ UNCHANGED <<app, tabEnabled, connected, inputVars, configVars>>
     \/ status[p] = "failed" /\ Abort("text")

CloseFailure ==
  /\ Top("failed")
  /\ \/ /\ dialogs' = Front(dialogs)
        /\ CleanUpSimulationDir
        /\ tabEnabled' = FALSE
        /\ SetAllButtonsEnabled(TRUE, FALSE)
        /\ UNCHANGED <<app, connected, runningProcess, simulationCancelled>>
        /\ UNCHANGED <<configVars, processVars, historyVars>>
     \/ CleanUpAborts

CancelledAnswered(p) ==
  /\ Answers(p) /\ simulationCancelled
  /\ runningProcess' = NoRun /\ simulationCancelled' = FALSE
  /\ UNCHANGED <<app, buttons, cancelButton, tabEnabled, dialogs, connected>>
  /\ UNCHANGED <<configVars, fileVars, historyVars>>

\* A mutant: the buttons stay disabled.
ResultsLoadedOnly ==
  /\ tabEnabled' = TRUE
  /\ runningProcess' = NoRun
  /\ UNCHANGED <<app, buttons, cancelButton, dialogs, connected, simulationCancelled>>
  /\ UNCHANGED configVars

\* The results are loaded, or there are none and a message box says so first, or
\* loading them raises an exception.
ResultsLoaded ==
  /\ tabEnabled' = TRUE
  /\ SetAllButtonsEnabled(TRUE, FALSE)
  /\ runningProcess' = NoRun
  /\ UNCHANGED <<app, dialogs, connected, simulationCancelled, configVars>>

NoResults ==
  /\ dialogs' = Append(dialogs, "noStates")
  /\ runningProcess' = NoRun
  /\ UNCHANGED <<app, tabEnabled, buttons, cancelButton, connected>>
  /\ UNCHANGED <<simulationCancelled, configVars>>

SuccessAnswered(p) ==
  /\ Answers(p) /\ ExitCode(p) = 0 /\ ~simulationCancelled
  /\ UNCHANGED <<fileVars, historyVars>>

CloseNoResults ==
  /\ Top("noStates")
  /\ dialogs' = Front(dialogs)
  /\ tabEnabled' = TRUE
  /\ SetAllButtonsEnabled(TRUE, FALSE)
  /\ UNCHANGED <<app, connected, runningProcess, simulationCancelled>>
  /\ UNCHANGED <<configVars, processVars, fileVars, historyVars>>

-----------------------------------------------------------------------------
\* The simulation tab may raise an exception at any time.
ViewAborts ==
  /\ app = "open" /\ Abort("view")
  /\ UNCHANGED <<processVars, fileVars, historyVars>>

SessionNext ==
  \/ Close \/ Start \/ Save \/ SetConfig \/ (\E c \in Configs : Edit(c))
  \/ OpenDialog \/ CloseFileDialog \/ ConvertAsmToHex \/ CancelSimulation
  \/ CloseFailure \/ CloseNoResults \/ ViewAborts
  \/ \E p \in Runs :
       \/ ProcessStep(p)
       \/ \E starts \in BOOLEAN, r \in Recordings : ExecuteSimulation(p, starts, r)
       \/ FailureReported(p)
       \/ CancelledAnswered(p)
       \/ SuccessAnswered(p) /\ (ResultsLoaded \/ NoResults \/ Abort("view"))

SessionSpec == SessionInit /\ [][SessionNext]_sessionVars

-----------------------------------------------------------------------------
\* Cancel can be pressed only while there is a process to kill: the handler calls
\* kill() without looking (InputTab.CancelSimulation).
CancelHasProcess == UserTurn /\ cancelButton => runningProcess # NoRun

\* Whatever happens to a run, the user can go on: the buttons are enabled, or the
\* run can be cancelled, or a dialog is to be closed (SetAllButtonsEnabled).
NeverTrapped == app = "open" => buttons \/ cancelButton \/ dialogs # <<>>

\* Unless a run was started before the one before was answered, only the one
\* started last is at work: two would write to one directory.
OneAtATime ==
  app = "open" /\ ~late => \A p \in Runs : status[p] \in Working => p = lastRun
=============================================================================
