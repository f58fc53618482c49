----------------------------- MODULE Interface -----------------------------
(***************************************************************************)
(* The interface as a whole: the simulation tab loads what the runs of     *)
(* Session leave in their directory, while runs come and go, the           *)
(* configuration is edited and the timer of the autoplay ticks.            *)
(***************************************************************************)
EXTENDS View

CONSTANT MaxClicks  \* how often the user does what is not part of a run, for TLC

VARIABLE clicks

vars == <<sessionVars, viewVars, clicks>>

Init ==
  /\ SessionInit /\ clicks = 0
  /\ slider = FreshSlider /\ picture = FreshPicture

Click == clicks < MaxClicks /\ clicks' = clicks + 1

\* Steps of the session that leave the simulation tab alone, unless the program
\* ends in them.
TabKept == IF app' = "open" THEN UNCHANGED viewVars ELSE FreshView

Elsewhere ==
  /\ \/ Start \/ Save \/ CloseFileDialog \/ ConvertAsmToHex \/ CancelSimulation
     \/ CloseFailure
     \/ \E p \in Runs : \/ ProcessStep(p)
                        \/ \E starts \in BOOLEAN, r \in Recordings :
                             ExecuteSimulation(p, starts, r)
                        \/ FailureReported(p) \/ CancelledAnswered(p)
  /\ TabKept /\ UNCHANGED clicks

ClickElsewhere ==
  /\ Close \/ SetConfig \/ OpenDialog \/ \E c \in Configs : Edit(c)
  /\ TabKept /\ Click

\* PostExecuteSimulation of a run that succeeded: LoadSimulationData, then
\* SwitchToSimulationTab.
LoadResults(p) ==
  /\ SuccessAnswered(p) /\ UNCHANGED clicks
  /\ IF GetMaxCycleNumber = 0
     THEN /\ NoResults
          /\ slider' = [slider EXCEPT !.totalCycles = 0] /\ UNCHANGED picture
     ELSE IF LoadAborts THEN Abort("view") /\ FreshView
     ELSE ResultsLoaded /\ ShowResults

\* The message box is closed and SwitchToSimulationTab is still to come.
SwitchAnyway ==
  LET first == GoToFirstCycle(slider) IN
    /\ UNCHANGED clicks
    /\ IF MovingAborts(slider, first, picture)
       THEN Top("noStates") /\ ViewAborts /\ FreshView
       ELSE /\ CloseNoResults
            /\ slider' = first /\ picture' = Moved(slider, first, picture)

ClickAtTab ==
  /\ \/ \E v \in Cycles : MoveSlider(v)
     \/ DecreaseCycle
     \/ TabTurn /\ IncreaseCycle
     \/ TabTurn /\ TogglePlayPause
     \/ \E n \in Components \union {NoComponent} : Hover(n)
     \/ \E n \in Components : Press(n)
  /\ Click

Next ==
  \/ Elsewhere \/ ClickElsewhere \/ SwitchAnyway \/ ClickAtTab
  \/ Tick /\ UNCHANGED clicks
  \/ \E p \in Runs : LoadResults(p)

\* The operating system lets processes work; Qt serves what has come.  Nothing
\* is asked of the user.
Work == \E p \in Runs : ProcessStep(p)
Answered == \E p \in Runs : Answers(p)

Fairness ==
  /\ WF_vars(Tick /\ UNCHANGED clicks) /\ WF_sessionVars(Work) /\ WF_processVars(Answered)

Spec == Init /\ [][Next]_vars /\ Fairness

-----------------------------------------------------------------------------
Files == {NoFile} \union (Runs \X Cycles)

\* Types of the session and of the tab.
TypeOK ==
  /\ app \in {"open", "closed"} \union Exceptions
  /\ {buttons, cancelButton, tabEnabled, simulationCancelled, late, edited} \subseteq BOOLEAN
  /\ \A i \in DOMAIN dialogs : dialogs[i] \in DialogKinds
  /\ {runningProcess, lastRun} \subseteq Runs \union {NoRun}
  /\ {currConfig, inputs} \subseteq Configs
  /\ status \in [Runs -> Statuses] /\ connected \subseteq Runs
  /\ usedConfig \in [Runs -> Configs] /\ recording \in [Runs -> Recordings]
  /\ written \in [Runs -> Cycles \union {0}]
  /\ {cpuStates, memories} \subseteq [Cycles -> Runs \union {NoRun}]
  /\ slider.totalCycles \in Cycles \union {0} /\ slider.maximum \in Cycles
  /\ slider.value \in 1 .. slider.maximum
  /\ slider.currentCycleIndex \in Cycles \union {0}
  /\ picture.spec \in Configs
  /\ {picture.state, picture.previous, picture.memory, picture.previousMemory}
       \subseteq Files

Trusted == app = "open" /\ tabEnabled /\ ~late

\* What the tab shows is what the last run recorded in the cycle the slider is at,
\* with memory as it was then: no cycle of an earlier, longer run is left, and the
\* file of memory is the last one written up to the cycle.
ShownIsRecorded ==
  Trusted =>
    LET c == slider.value IN
      /\ slider.maximum = recording[lastRun].last
      /\ picture.state = IF c \in Recorded(lastRun) THEN <<lastRun, c>> ELSE NoFile
      /\ ~edited /\ c \in Recorded(lastRun) =>
           picture.memory =
             <<lastRun, Max({m \in MemoryWritten(lastRun) : m <= c})>>

\* The configuration shown as the one used for the simulation is the one used for
\* it, unless another was saved while it ran.
SpecIsOfRun == Trusted /\ ~edited => picture.spec = usedConfig[lastRun]

\* A component other than the two marked at the first cycle is marked only if its
\* data is not what it was in the cycle before the one the slider is at.
NoFalseMarks ==
  Trusted =>
    \A n \in Components \ {"IC", "Memory"} :
      picture.hasChanged[n] => slider.value \in recording[lastRun].changes[n]

\* The details are those of the component selected, in the cycle shown; it is the one
\* with the border, and only the one under the mouse is darker: the flags of the
\* components follow the two names of the tab.
SelectionIsShown ==
  /\ app = "open" /\ picture.selected # NoComponent /\ picture.state # NoFile
       => picture.details = Details(picture)
  /\ \A n \in Components :
       /\ Border(picture, n) = "selected" <=> n = picture.selected
       /\ Fill(picture, n)[2] = "hover" <=> n = picture.hovered /\ n # picture.selected

\* A text that cannot be read or written may end the program, but a file that cannot
\* be removed does only where runs overlap, Cancel never, and the simulation tab only
\* where runs overlap, where another configuration was saved while the run was at work,
\* where the one in force has larger sets of the LS cache than the one recorded under,
\* or where autoplay goes on while the files are replaced.
AbortsAreKnown ==
  [][app = "open" =>
       /\ app' # "kill"
       /\ app' = "removal" => late \/ Unanswered
       /\ app' = "view" =>
            \/ late \/ edited
            \/ \E p \in Runs : /\ p = lastRun
                               /\ currConfig.ls_cache_set_entries_count
                                    > usedConfig[p].ls_cache_set_entries_count
            \/ slider.isPlaying /\ ~tabEnabled]_vars

\* Autoplay comes to the end of the simulation and stops, unless it is moved back
\* or given a longer simulation again and again.
AutoplayEnds ==
  \/ []<>~(app = "open" /\ slider.isPlaying)
  \/ []<><<slider'.value < slider.value \/ slider'.maximum > slider.maximum>>_vars

\* A run is answered: its buttons come back, or a dialog is shown, unless its
\* process never started or never ends.
RunsAreAnswered ==
  ~buttons ~> \/ buttons \/ dialogs # <<>> \/ app # "open"
              \/ lastRun \in Runs /\ status[lastRun] \in {"absent", "stuck"}
=============================================================================
