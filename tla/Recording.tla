----------------------------- MODULE Recording ------------------------------
(***************************************************************************)
(* The recorder (ExecutionRecorder.cpp) and three of the threads that call *)
(* it without a lock: the Instruction Cache, which sends windows to        *)
(* Decode, Decode, which takes them one by one or drains the pipe, and     *)
(* Execute, which ends the simulation; and the clock, which starts a new   *)
(* state with every tick.                                                  *)
(*                                                                         *)
(* The same simulation is recorded in both modes at once: `states` has a   *)
(* state for every cycle, `final` is the second of the two states that     *)
(* single state mode keeps.  Of a state there are its cycle, the windows   *)
(* it shows in the pipe, and what Execute says of the end.                 *)
(***************************************************************************)
EXTENDS Integers, Sequences

CONSTANTS
  CyclesLimit,  \* CYCLES_LIMIT
  MaxWindows    \* bound: windows the Instruction Cache sends

ASSUME RecordingAssumption == CyclesLimit \in Nat /\ MaxWindows \in Nat

VARIABLES
  running, selfRunning, cycleCount,  \* of ClockSyncPackage and Clock
  at,         \* what each thread is about to do
  pipe,       \* windows from the Instruction Cache to Decode
  sent,       \* windows sent so far; the last one's number
  taken,      \* windows Decode has taken and not reported
  states,     \* the recorder's states
  copy,       \* the state goToNextState has copied and not appended
  final,      \* the final state of single state mode
  endReason,
  overtaken,  \* history: a window's pop was reported before its push
  raced,      \* history: a report came while the clock made a new state
  miscounted  \* history: a drain was reported as another number of windows

pipeVars == <<pipe, sent, taken>>
stateVars == <<states, copy, final>>
historyVars == <<overtaken, raced, miscounted>>
clockVars == <<running, selfRunning, cycleCount>>
vars == <<clockVars, at, pipeVars, stateVars, endReason, historyVars>>

Modules == {"IC", "DE", "EX"}
Threads == Modules \cup {"clock", "main"}

Go(t, place) == at' = [at EXCEPT ![t] = place]
-----------------------------------------------------------------------------
(* The recorder *)

FirstState == [cycle |-> 1, pipe |-> << >>, end |-> "none"]

Back == states[Len(states)]

\* Mutant: the cycle is not counted.
NextStateUncounted(s) == [s EXCEPT !.end = IF @ = "Ended" THEN "none" ELSE @]

\* Execute's extra text is cleared, its state is kept.
NextState(s) ==
  [s EXCEPT !.cycle = @ + 1, !.end = IF @ = "Ended" THEN "none" ELSE @]

\* A state after a call.
Changed(s, pushed, popped, end) ==
  [s EXCEPT !.pipe = LET p == @ \o pushed IN IF popped /\ p # << >> THEN Tail(p) ELSE p,
            !.end = IF end = "none" THEN @ ELSE end]

\* A call changes states.back().
Recorded(pushed, popped, end) ==
  /\ states' = [states EXCEPT ![Len(states)] = Changed(@, pushed, popped, end)]
  /\ final' = Changed(final, pushed, popped, end)
  /\ UNCHANGED copy

pushICtoDEData(w) == Recorded(<<w>>, FALSE, "none")
popPipeData == Recorded(<< >>, TRUE, "none")
recordEnd(text) == Recorded(<< >>, FALSE, text)

\* What is recorded between the copy and the end of push_back stays in the old state.
Raced == raced' = (raced \/ at["clock"] = "append")
-----------------------------------------------------------------------------
(* The modules *)

\* run
Loop(m) ==
  /\ at[m] = "loop"
  /\ Go(m, IF running THEN "timer" ELSE "done")
  /\ UNCHANGED <<clockVars, pipeVars, stateVars, endReason, historyVars>>

\* startCurrOpTimer: the next tick is awaited, unless the simulation has ended.
StartTimer(m) ==
  /\ at[m] = "timer"
  /\ Go(m, IF running THEN "asleep" ELSE "work")
  /\ UNCHANGED <<clockVars, pipeVars, stateVars, endReason, historyVars>>

\* Work that neither sends nor takes a window.
PassBy(m) ==
  /\ at[m] = "work"
  /\ Go(m, "loop")
  /\ UNCHANGED <<clockVars, pipeVars, stateVars, endReason, historyVars>>

\* executeModuleLogic of the Instruction Cache: the window is sent ...
Send ==
  /\ at["IC"] = "work" /\ running
  /\ sent < MaxWindows
  /\ sent' = sent + 1
  /\ pipe' = Append(pipe, sent')
  /\ Go("IC", "pushed")
  /\ UNCHANGED <<clockVars, taken, stateVars, endReason, historyVars>>

\* ... and then reported.
ReportSend ==
  /\ at["IC"] = "pushed"
  /\ pushICtoDEData(sent)
  /\ Raced
  /\ Go("IC", "loop")
  /\ UNCHANGED <<clockVars, pipeVars, endReason, overtaken, miscounted>>

\* Decode takes a window ...
Take ==
  /\ at["DE"] = "work"
  /\ pipe # << >>
  /\ pipe' = Tail(pipe)
  /\ taken' = <<Head(pipe)>>
  /\ Go("DE", "popped")
  /\ UNCHANGED <<clockVars, sent, stateVars, endReason, historyVars>>

\* ... and reports it, and may go on with the next one.
ReportTake ==
  /\ at["DE"] = "popped"
  /\ popPipeData
  /\ taken' = << >>
  /\ overtaken' = (overtaken \/ Back.pipe = << >>)
  /\ Raced
  /\ \E place \in {"work", "loop"} : Go("DE", place)
  /\ UNCHANGED <<clockVars, pipe, sent, endReason, miscounted>>

\* The IP has changed: the pipe is drained ...
BeginDrain ==
  /\ at["DE"] = "work"
  /\ Go("DE", "drain")
  /\ UNCHANGED <<clockVars, pipeVars, stateVars, endReason, historyVars>>

DrainOne ==
  /\ at["DE"] = "drain"
  /\ pipe # << >> /\ running
  /\ pipe' = Tail(pipe)
  /\ taken' = Append(taken, Head(pipe))
  /\ UNCHANGED <<clockVars, at, sent, stateVars, endReason, historyVars>>

EndDrain ==
  /\ at["DE"] = "drain"
  /\ pipe = << >> \/ ~running
  /\ Go("DE", "drained")
  /\ UNCHANGED <<clockVars, pipeVars, stateVars, endReason, historyVars>>

\* ... and one pop is reported, however many windows it held: the report is
\* indented under the loop and not part of it.
ReportDrain ==
  /\ at["DE"] = "drained"
  /\ popPipeData
  /\ taken' = << >>
  /\ miscounted' = (miscounted \/ Len(taken) > 1 \/ (taken = << >> /\ Back.pipe # << >>))
  /\ overtaken' = (overtaken \/ (taken # << >> /\ Back.pipe = << >>))
  /\ Raced
  /\ Go("DE", "work")
  /\ UNCHANGED <<clockVars, pipe, sent, endReason>>

\* end_sim, or an exception within an exception: first the flag ...
EndSimulation ==
  /\ at["EX"] = "work"
  /\ running' = FALSE
  /\ \E text \in {"Ended", "Forcefully"} : Go("EX", text)
  /\ UNCHANGED <<selfRunning, cycleCount, pipeVars, stateVars, endReason, historyVars>>

\* ... then the text ...
ReportEnd ==
  /\ at["EX"] \in {"Ended", "Forcefully"}
  /\ recordEnd(at["EX"])
  /\ raced' = (raced \/ at["clock"] \in {"copy", "append"})
  /\ Go("EX", IF at["EX"] = "Ended" THEN "normal" ELSE "double_exception")
  /\ UNCHANGED <<clockVars, pipeVars, endReason, overtaken, miscounted>>

\* ... then the reason.
setSimEndReason ==
  /\ at["EX"] \in {"normal", "double_exception"}
  /\ endReason' = at["EX"]
  /\ Go("EX", "loop")
  /\ UNCHANGED <<clockVars, pipeVars, stateVars, historyVars>>
-----------------------------------------------------------------------------
(* The clock, and the main thread *)

\* while (*selfRunning), and a sleep.
CheckClock ==
  /\ at["clock"] = "check"
  /\ Go("clock", IF selfRunning THEN "tick" ELSE "stopped")
  /\ UNCHANGED <<clockVars, pipeVars, stateVars, endReason, historyVars>>

\* Mutant: a new state whether the simulation runs or not.
TickAlways ==
  /\ at["clock"] = "tick"
  /\ cycleCount' = IF cycleCount > CyclesLimit THEN cycleCount ELSE cycleCount + 1
  /\ IF cycleCount' > CyclesLimit
     THEN /\ endReason' = "cycle_limit_exceeded"
          /\ running' = FALSE
          /\ Go("clock", "notify")
     ELSE Go("clock", "copy") /\ UNCHANGED <<endReason, running>>
  /\ UNCHANGED <<selfRunning, pipeVars, stateVars, historyVars>>

\* The count is capped where it has had its effect.
Tick ==
  /\ at["clock"] = "tick"
  /\ cycleCount' = IF cycleCount > CyclesLimit THEN cycleCount ELSE cycleCount + 1
  /\ IF cycleCount' > CyclesLimit
     THEN /\ endReason' = "cycle_limit_exceeded"
          /\ running' = FALSE
          /\ Go("clock", "notify")
     ELSE /\ Go("clock", IF running THEN "copy" ELSE "notify")
          /\ UNCHANGED <<endReason, running>>
  /\ UNCHANGED <<selfRunning, pipeVars, stateVars, historyVars>>

\* Mutant: the new state begins with an empty pipe.
CopyWithoutPipes ==
  /\ at["clock"] = "copy"
  /\ copy' = [NextState(Back) EXCEPT !.pipe = << >>]
  /\ final' = NextState(final)
  /\ Go("clock", "append")
  /\ UNCHANGED <<clockVars, pipeVars, states, endReason, historyVars>>

\* goToNextState: the last state is copied ...
CopyState ==
  /\ at["clock"] = "copy"
  /\ copy' = NextState(Back)
  /\ final' = NextState(final)
  /\ Go("clock", "append")
  /\ UNCHANGED <<clockVars, pipeVars, states, endReason, historyVars>>

\* ... and appended.
AppendState ==
  /\ at["clock"] = "append"
  /\ states' = Append(states, copy)
  /\ Go("clock", "notify")
  /\ UNCHANGED <<clockVars, pipeVars, copy, final, endReason, historyVars>>

Notify ==
  /\ at["clock"] = "notify"
  /\ at' = [t \in Threads |-> IF t \in Modules /\ at[t] = "asleep" THEN "work"
                              ELSE IF t = "clock" THEN "check" ELSE at[t]]
  /\ UNCHANGED <<clockVars, pipeVars, stateVars, endReason, historyVars>>

\* runSimulation: all modules are joined, the clock is told to stop ...
Join ==
  /\ at["main"] = "join"
  /\ \A m \in Modules : at[m] = "done"
  /\ selfRunning' = FALSE
  /\ Go("main", "joinClock")
  /\ UNCHANGED <<running, cycleCount, pipeVars, stateVars, endReason, historyVars>>

\* ... and when it has, the recording is complete.
Dump ==
  /\ at["main"] = "joinClock"
  /\ at["clock"] = "stopped"
  /\ Go("main", "dumped")
  /\ UNCHANGED <<clockVars, pipeVars, stateVars, endReason, historyVars>>
-----------------------------------------------------------------------------
(* dumpSimulation *)

Texts == [normal |-> "Ended", double_exception |-> "Forcefully"]

\* determineFinalCycle, when all cycles are recorded: 1 if the text is not found.
finalCycle ==
  IF endReason = "cycle_limit_exceeded" THEN CyclesLimit
  ELSE LET found == {i \in DOMAIN states : states[i].end = Texts[endReason]}
       IN  IF found = {} THEN 1
           ELSE states[CHOOSE i \in found : \A j \in found : j <= i].cycle

\* The last state that is written.
LastWritten ==
  LET written == {i \in DOMAIN states : states[i].cycle <= finalCycle}
  IN  states[CHOOSE i \in written : \A j \in written : j <= i]

\* The last state of single state mode.
LastSingle ==
  IF endReason = "cycle_limit_exceeded" THEN [final EXCEPT !.cycle = CyclesLimit] ELSE final
-----------------------------------------------------------------------------
Init ==
  /\ running = TRUE /\ selfRunning = TRUE /\ cycleCount = 0
  /\ at = [t \in Threads |-> IF t = "main" THEN "join"
                             ELSE IF t = "clock" THEN "check" ELSE "timer"]
  /\ pipe = << >> /\ sent = 0 /\ taken = << >>
  /\ states = <<FirstState>> /\ copy = FirstState /\ final = FirstState
  /\ endReason = "none"
  /\ overtaken = FALSE /\ raced = FALSE /\ miscounted = FALSE

ModuleStep == \E m \in Modules : Loop(m) \/ StartTimer(m) \/ PassBy(m)
ICStep == Send \/ ReportSend
DEStep == Take \/ ReportTake \/ BeginDrain \/ DrainOne \/ EndDrain \/ ReportDrain
EXStep == EndSimulation \/ ReportEnd \/ setSimEndReason
ClockStep == CheckClock \/ Tick \/ CopyState \/ AppendState \/ Notify
MainStep == Join \/ Dump

Next == ModuleStep \/ ICStep \/ DEStep \/ EXStep \/ ClockStep \/ MainStep

Spec == Init /\ [][Next]_vars
-----------------------------------------------------------------------------
Places ==
  [IC |-> {"loop", "timer", "asleep", "work", "done", "pushed"},
   DE |-> {"loop", "timer", "asleep", "work", "done", "popped", "drain", "drained"},
   EX |-> {"loop", "timer", "asleep", "work", "done", "Ended", "Forcefully", "normal",
           "double_exception"},
   clock |-> {"check", "tick", "copy", "append", "notify", "stopped"},
   main |-> {"join", "joinClock", "dumped"}]

States == [cycle : Nat, pipe : Seq(Nat), end : {"none", "Ended", "Forcefully"}]

\* Type invariant: the threads' places, and a state for each cycle, in order.
TypeOK ==
  /\ running \in BOOLEAN /\ selfRunning \in BOOLEAN
  /\ cycleCount \in 0 .. CyclesLimit + 1
  /\ DOMAIN at = Threads /\ \A t \in Threads : at[t] \in Places[t]
  /\ pipe \in Seq(Nat) /\ taken \in Seq(Nat) /\ sent \in 0 .. MaxWindows
  /\ copy \in States /\ final \in States
  /\ states # << >>
  /\ \A i \in DOMAIN states : states[i] \in States /\ states[i].cycle = i
  /\ Len(states) <= CyclesLimit + 1
  /\ endReason \in {"none", "normal", "double_exception", "cycle_limit_exceeded"}
  /\ {overtaken, raced, miscounted} \subseteq BOOLEAN

\* No window has been sent or taken and is still to be reported.
Reported == at["IC"] # "pushed" /\ at["DE"] \notin {"popped", "drain", "drained"}

\* What the recording shows of the pipe is what it holds, once everything has been
\* reported, unless a pop was reported before its push, or into a state the clock was
\* replacing, or for another number of windows than were drained, as the code allows.
PipeIsShown ==
  Reported /\ ~overtaken /\ ~raced /\ ~miscounted => Back.pipe = pipe

\* The last cycle written is the one in which Execute ended the simulation, and the
\* same in both modes, unless the clock was about to go on to the next: whichever of
\* flag, text and reason the other threads saw first.
LastIsTheEnd ==
  at["main"] = "dumped" /\ endReason # "cycle_limit_exceeded" /\ ~raced =>
    /\ LastWritten = LastSingle
    /\ LastSingle.end = Texts[endReason]
=============================================================================
