-------------------------------- MODULE View --------------------------------
(***************************************************************************)
(* The simulation tab (SimulationTab.py) and the components it draws       *)
(* (DiagramComponents.py): what is shown of the cycle the slider is at.    *)
(*                                                                         *)
(* Everything is read again from the files whenever the slider's value     *)
(* changes.  currentCycleIndex is a copy of that value that only the       *)
(* buttons for one cycle and the timer keep up to date, and only once the  *)
(* view has been drawn.                                                    *)
(***************************************************************************)
EXTENDS Session, FiniteSetsExt

CONSTANT Components  \* names of components of the diagram

VARIABLES
  slider,  \* the slider, the timer, and what was loaded with the results
  picture  \* what is drawn, and what the mouse has chosen of it

viewVars == <<slider, picture>>

NoComponent == "none"
NoFile      == <<>>    \* a file that is not there, and what is read from it
NoDetails   == <<>>

ASSUME ComponentsAssumption == NoComponent \notin Components

\* A component is compared with the cycle before, so never in the first.
ASSUME ChangesAssumption ==
  \A r \in Recordings : r.changes \in [Components -> SUBSET (2 .. r.last)]

FreshSlider ==
  [totalCycles |-> 0, maximum |-> 1, value |-> 1, currentCycleIndex |-> 1,
   isPlaying |-> FALSE, singleStateMode |-> FALSE, memoryMapping |-> <<>>]

Nowhere == [n \in Components |-> FALSE]

FreshPicture ==
  [selected |-> NoComponent, hovered |-> NoComponent, isSelected |-> Nowhere,
   isHovered |-> Nowhere, hasChanged |-> Nowhere, state |-> NoFile,
   previous |-> NoFile, memory |-> NoFile, previousMemory |-> NoFile,
   details |-> NoDetails, spec |-> DefaultConfig]

FreshView == slider' = FreshSlider /\ picture' = FreshPicture

-----------------------------------------------------------------------------
(* What is read for the cycle a slider is at.  A file is named by the run  *)
(* that wrote it and the cycle it is of.                                   *)

FileOf(dir, c) == IF c \in Cycles /\ dir[c] # NoRun THEN <<dir[c], c>> ELSE NoFile

LoadStateFile(c)  == FileOf(cpuStates, c)
LoadMemoryFile(c) == FileOf(memories, c)

GetMemoryForCycle(s, c) ==
  IF c \in DOMAIN s.memoryMapping THEN LoadMemoryFile(s.memoryMapping[c]) ELSE NoFile

\* A mutant: always compared with the first cycle.
FirstCycle(s) == 1

Previous(s) == IF s.singleStateMode THEN 1 ELSE s.value - 1

PreviousState(s)  == IF s.value = 1 THEN NoFile ELSE LoadStateFile(Previous(s))
PreviousMemory(s) == IF s.value = 1 THEN NoFile ELSE GetMemoryForCycle(s, Previous(s))

-----------------------------------------------------------------------------
(* What is shown of a component.                                           *)

\* A component's data, which the run changed in these cycles until then.
Data(n, file) == {c \in recording[file[1]].changes[n] : c <= file[2]}

CompareStates(n, state, previous) == Data(n, state) # Data(n, previous)

\* Changes of memory are looked up by currentCycleIndex, those of the others in the
\* two states.
MappedTo(s, c) == IF c \in DOMAIN s.memoryMapping THEN s.memoryMapping[c] ELSE c

MemoryChanged(s) ==
  MappedTo(s, s.currentCycleIndex) # MappedTo(s, s.currentCycleIndex - 1)

HasChanged(s, n) ==
  /\ n # "Spec" /\ ~s.singleStateMode
  /\ \/ s.currentCycleIndex = 1 /\ n \in {"IC", "Memory"}
     \/ /\ s.currentCycleIndex # 1 /\ PreviousState(s) # NoFile
        /\ IF n = "Memory" THEN MemoryChanged(s)
           ELSE CompareStates(n, LoadStateFile(s.value), PreviousState(s))

\* A state is compared that is not there.
CompareAborts(s) ==
  /\ ~s.singleStateMode /\ s.currentCycleIndex # 1
  /\ PreviousState(s) # NoFile /\ LoadStateFile(s.value) = NoFile
  /\ Components \ {"Memory", "Spec"} # {}

\* The lines of a set of the LS cache are counted by the configuration in force,
\* not by the one they were recorded under.
LinesMissing(n, files) ==
  /\ n = "LS_Cache"
  /\ \E file \in files \ {NoFile} :
       currConfig.ls_cache_set_entries_count
         > usedConfig[file[1]].ls_cache_set_entries_count

\* The border and the colour UpdateVisualState gives a component.
Border(p, n) == IF p.isSelected[n] THEN "selected" ELSE "default"
Fill(p, n) ==
  <<IF p.hasChanged[n] THEN "changed" ELSE "default",
    IF p.isHovered[n] /\ ~p.isSelected[n] THEN "hover" ELSE "plain">>

\* The details of a component are made of the files that were read, those of Spec of
\* the configuration.
Details(p) == [component |-> p.selected, state |-> p.state, previous |-> p.previous,
               memory |-> p.memory, previousMemory |-> p.previousMemory,
               spec |-> p.spec]

UpdateDetailsDisplay(p) ==
  [p EXCEPT !.details = IF p.selected = NoComponent \/ p.state = NoFile
                        THEN NoDetails ELSE Details(p)]

-----------------------------------------------------------------------------
(* Drawing the cycle the slider is at.                                     *)

UpdateComponentStates(s, p) ==
  [p EXCEPT !.isSelected = [n \in Components |-> n = p.selected],
            !.hasChanged = [n \in Components |-> HasChanged(s, n)],
            !.isHovered  = [n \in Components |-> n = p.hovered],
            !.state = LoadStateFile(s.value), !.previous = PreviousState(s),
            !.memory = GetMemoryForCycle(s, s.value),
            !.previousMemory = PreviousMemory(s)]

UpdateSimulationView(s, p) ==
  IF p.selected = NoComponent \/ LoadStateFile(s.value) = NoFile
  THEN UpdateComponentStates(s, p)
  ELSE UpdateDetailsDisplay(UpdateComponentStates(s, p))

DrawingAborts(s, p) ==
  \/ CompareAborts(s)
  \/ /\ LoadStateFile(s.value) # NoFile
     /\ LinesMissing(p.selected, {LoadStateFile(s.value), PreviousState(s)})

\* The slider keeps within its limits, and has the view drawn when it moves.
SetValue(s, v) ==
  [s EXCEPT !.value = IF v < 1 THEN 1 ELSE IF v > s.maximum THEN s.maximum ELSE v]

Moved(s, t, p) == IF t.value = s.value THEN p ELSE UpdateSimulationView(t, p)
MovingAborts(s, t, p) == t.value # s.value /\ DrawingAborts(t, p)

-----------------------------------------------------------------------------
(* Loading the results of a simulation.                                    *)

GetMaxCycleNumber == Max({0} \union {c \in Cycles : cpuStates[c] # NoRun})

\* The cycles a mapping is built for: with one cycle the step would be 0.
MappedCycles(total, single) == IF single THEN {1, total} ELSE 1 .. total

BuildMemoryMapping(total, single) ==
  [c \in MappedCycles(total, single) |->
     Max({1} \union {m \in MappedCycles(total, single) : m <= c /\ memories[m] # NoRun})]

StepOfMappingIsZero == currConfig.single_state_mode /\ GetMaxCycleNumber = 1

\* The new maximum moves the slider, and has the view drawn with what was loaded
\* before; then the rest is loaded and all is drawn again.
Shortened(s) == SetValue([s EXCEPT !.maximum = GetMaxCycleNumber,
                                   !.totalCycles = GetMaxCycleNumber], s.value)

LoadSimulationData(s) ==
  LET total == GetMaxCycleNumber
      single == currConfig.single_state_mode
  IN [Shortened(s) EXCEPT !.currentCycleIndex = 1, !.singleStateMode = single,
                          !.memoryMapping = BuildMemoryMapping(total, single)]

WithSpec(p) == [p EXCEPT !.spec = currConfig]

GoToFirstCycle(s) == SetValue(s, 1)

LoadAborts ==
  \/ MovingAborts(slider, Shortened(slider), picture)
  \/ StepOfMappingIsZero
  \/ DrawingAborts(LoadSimulationData(slider), picture)
  \/ DrawingAborts(GoToFirstCycle(LoadSimulationData(slider)), picture)

\* LoadSimulationData and SwitchToSimulationTab: the view is drawn for both.
ShowResults ==
  LET loaded == LoadSimulationData(slider) IN
    /\ slider' = GoToFirstCycle(loaded)
    /\ picture' = Moved(loaded, slider', UpdateSimulationView(loaded, WithSpec(picture)))

-----------------------------------------------------------------------------
(* The controls.                                                           *)

TabTurn == UserTurn /\ tabEnabled

\* The slider moves to t, for which the view is drawn, and is left as u; or the
\* program ends.
MoveTo(t, u) ==
  IF MovingAborts(slider, t, picture)
  THEN ViewAborts /\ FreshView
  ELSE /\ slider' = u /\ picture' = Moved(slider, t, picture)
       /\ UNCHANGED sessionVars

\* The slider is moved, or the buttons for the first and the last cycle are used.
MoveSlider(v) ==
  /\ TabTurn /\ v \in 1 .. slider.maximum /\ v # slider.value
  /\ MoveTo(SetValue(slider, v), SetValue(slider, v))

StepTo(v) ==
  MoveTo(SetValue(slider, v), [SetValue(slider, v) EXCEPT !.currentCycleIndex = v])

DecreaseCycle ==
  /\ TabTurn /\ slider.value > 1
  /\ StepTo(IF slider.singleStateMode THEN 1 ELSE slider.value - 1)

TogglePlayPause ==
  slider' = [slider EXCEPT !.isPlaying = ~@] /\ UNCHANGED <<picture, sessionVars>>

\* Mutants: the end of the slider is not looked at; autoplay does not stop there.
IncreaseBeyond == StepTo(slider.value + 1)
IncreaseOnly   == slider.value < slider.maximum /\ StepTo(slider.value + 1)

IncreaseCycle ==
  IF slider.value < slider.maximum
  THEN StepTo(IF slider.singleStateMode THEN slider.totalCycles ELSE slider.value + 1)
  ELSE slider.isPlaying /\ TogglePlayPause

\* The timer fires in the event loop of a dialog, and on a disabled tab, as well.
Tick == app = "open" /\ slider.isPlaying /\ IncreaseCycle

\* Mutant: the details are those of the last one.
PressOnly(n) ==
  /\ TabTurn
  /\ picture' = [picture EXCEPT !.selected = n,
                                !.isSelected = [c \in Components |-> c = n]]
  /\ UNCHANGED <<slider, sessionVars>>

\* The mouse moves over a component, or over none; or leaves the diagram.
Hover(n) ==
  /\ TabTurn /\ n # picture.hovered
  /\ picture' = [picture EXCEPT
                   !.hovered = n,
                   !.isHovered = [c \in Components |->
                                    c = n \/ (c # picture.hovered /\ @[c])]]
  /\ UNCHANGED <<slider, sessionVars>>

Press(n) ==
  /\ TabTurn
  /\ IF picture.state # NoFile /\ LinesMissing(n, {picture.state, picture.previous})
     THEN ViewAborts /\ FreshView
     ELSE /\ picture' = UpdateDetailsDisplay(
                          [picture EXCEPT
                             !.selected = n,
                             !.isSelected = [c \in Components |->
                                               c = n \/ (c # picture.selected /\ @[c])]])
          /\ UNCHANGED <<slider, sessionVars>>
=============================================================================
