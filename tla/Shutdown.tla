------------------------------ MODULE Shutdown ------------------------------
(***************************************************************************)
(* How a simulation ends: the clock (Clock.cpp), the four modules that     *)
(* sleep on its condition variable (IClockBoundModule.h) or poll a pipe,   *)
(* and the main thread that joins them (CPU.cpp 37-53).  What modules work *)
(* on is left out, but for the requests to Load/Store they wait for.       *)
(***************************************************************************)
EXTENDS Naturals, Sequences

CONSTANT CyclesLimit  \* CYCLES_LIMIT

ASSUME LimitAssumption == CyclesLimit \in Nat

VARIABLES
  running, selfRunning, ICReady, cycleCount,  \* of ClockSyncPackage and Clock
  endReason,  \* of the recorder; "none" as long as nothing has set it
  at,         \* what each thread is about to do
  joined,     \* threads runSimulation has joined
  sleep,      \* how far each module is in waiting for the clock
  requested,  \* modules with a request that waits for Load/Store
  answered    \* modules with an answer that waits for them

vars == <<running, selfRunning, ICReady, cycleCount, endReason, at, joined,
          sleep, requested, answered>>
clockVars == <<running, selfRunning, ICReady, cycleCount>>

Module == {"EX", "DE", "IC", "LS"}
Clients == {"EX", "IC"}

\* Mutant: Execute is not waited for.
JoinsButEX == <<"DE", "IC", "LS">>

\* joins of runSimulation, in its order
Joins == <<"EX", "DE", "IC", "LS">>

\* Load/Store's last tick of a request
AnswerTo == [EX |-> "answerEX", IC |-> "answerIC"]
-----------------------------------------------------------------------------
(* IClockBoundModule *)

Go(m, place) == at' = [at EXCEPT ![m] = place]

\* awaitClockSignal, and then on to a place: the flag is looked at first ...
Await(m, place) ==
  /\ Go(m, place)
  /\ sleep' = IF running THEN [sleep EXCEPT ![m] = "arming"] ELSE sleep

\* ... and a tick before the wait has begun is missed.
FallAsleep(m) ==
  /\ sleep[m] = "arming"
  /\ sleep' = [sleep EXCEPT ![m] = "asleep"]
  /\ UNCHANGED <<clockVars, endReason, joined, at, requested, answered>>

\* Work of some ticks, or of none.
Spend(m, place) ==
  \/ Await(m, place)
  \/ Go(m, place) /\ UNCHANGED sleep

About(m, place) == sleep[m] = "awake" /\ at[m] = place

\* run
Loop(m) ==
  /\ About(m, "loop")
  /\ Go(m, IF running THEN "timer" ELSE "done")
  /\ UNCHANGED <<clockVars, endReason, joined, sleep, requested, answered>>

StartTimer(m) ==
  /\ About(m, "timer")
  /\ Await(m, "work")
  /\ UNCHANGED <<clockVars, endReason, joined, requested, answered>>

Work(m) ==
  /\ About(m, "work")
  /\ m = "LS" => requested = {}
  /\ Spend(m, "loop")
  /\ UNCHANGED <<clockVars, endReason, joined, requested, answered>>

-----------------------------------------------------------------------------
(* Requests to Load/Store *)

\* requestDataAt, storeDataAt, getFetchWindowFromLS
Request(m) ==
  /\ About(m, "work")
  /\ requested' = requested \cup {m}
  /\ Await(m, "poll")
  /\ UNCHANGED <<clockVars, endReason, joined, answered>>

PollAgain(m) ==
  /\ About(m, "poll")
  /\ m \notin answered
  /\ m = "EX" \/ running
  /\ Await(m, "poll")
  /\ UNCHANGED <<clockVars, endReason, joined, requested, answered>>

\* Only the Instruction Cache looks whether the simulation still runs.
GiveUp ==
  /\ About("IC", "poll")
  /\ ~running
  /\ Go("IC", "loop")
  /\ UNCHANGED <<clockVars, endReason, joined, sleep, requested, answered>>

Receive(m) ==
  /\ About(m, "poll")
  /\ m \in answered
  /\ m = "EX" \/ running
  /\ answered' = answered \ {m}
  /\ Spend(m, IF m = "EX" THEN "work" ELSE "loop")
  /\ UNCHANGED <<clockVars, endReason, joined, requested>>

\* executeModuleLogic of Load/Store takes one request.
Serve(m) ==
  /\ About("LS", "work")
  /\ m \in requested
  /\ requested' = requested \ {m}
  /\ Spend("LS", AnswerTo[m])
  /\ UNCHANGED <<clockVars, endReason, joined, answered>>

Answer(m) ==
  /\ About("LS", AnswerTo[m])
  /\ answered' = answered \cup {m}
  /\ Go("LS", "loop")
  /\ UNCHANGED <<clockVars, endReason, joined, sleep, requested>>

-----------------------------------------------------------------------------
(* The end *)

\* end_sim, or an exception within an exception
EndSimulation ==
  /\ About("EX", "work")
  /\ running' = FALSE
  /\ \E r \in {"normal", "double_exception"} : Go("EX", r)
  /\ UNCHANGED <<selfRunning, ICReady, cycleCount, endReason, joined, sleep, requested, answered>>

SetEndReason ==
  /\ at["EX"] \in {"normal", "double_exception"}
  /\ endReason' = at["EX"]
  /\ Go("EX", "loop")
  /\ UNCHANGED <<clockVars, joined, sleep, requested, answered>>

\* InstructionCache::run
Start ==
  /\ at["IC"] = "start"
  /\ ICReady' = TRUE
  /\ Go("IC", "timer")
  /\ UNCHANGED <<running, selfRunning, cycleCount, endReason, joined, sleep, requested, answered>>

\* Mutant: the clock stops with the modules.
TickWhileRunning ==
  /\ at["clock"] = "tick"
  /\ ICReady /\ running
  /\ cycleCount' = IF cycleCount > CyclesLimit THEN cycleCount ELSE cycleCount + 1
  /\ running' = (running /\ cycleCount' <= CyclesLimit)
  /\ endReason' = IF cycleCount' > CyclesLimit THEN "cycle_limit_exceeded" ELSE endReason
  /\ Go("clock", "notify")
  /\ UNCHANGED <<selfRunning, ICReady, joined, sleep, requested, answered>>

\* Mutant: the simulation is stopped one cycle late.
TickLate ==
  /\ at["clock"] = "tick"
  /\ ICReady /\ selfRunning
  /\ cycleCount' = IF cycleCount > CyclesLimit + 1 THEN cycleCount ELSE cycleCount + 1
  /\ running' = (running /\ cycleCount' <= CyclesLimit + 1)
  /\ endReason' = IF cycleCount' > CyclesLimit + 1 THEN "cycle_limit_exceeded" ELSE endReason
  /\ Go("clock", "notify")
  /\ UNCHANGED <<selfRunning, ICReady, joined, sleep, requested, answered>>

\* Clock::run: the count is raised, and capped here, where it has had its effect.
Tick ==
  /\ at["clock"] = "tick"
  /\ ICReady /\ selfRunning
  /\ cycleCount' = IF cycleCount > CyclesLimit THEN cycleCount ELSE cycleCount + 1
  /\ running' = (running /\ cycleCount' <= CyclesLimit)
  /\ endReason' = IF cycleCount' > CyclesLimit THEN "cycle_limit_exceeded" ELSE endReason
  /\ Go("clock", "notify")
  /\ UNCHANGED <<selfRunning, ICReady, joined, sleep, requested, answered>>

\* notify_all
Notify ==
  /\ at["clock"] = "notify"
  /\ sleep' = [m \in Module |-> IF sleep[m] = "asleep" THEN "awake" ELSE sleep[m]]
  /\ Go("clock", "tick")
  /\ UNCHANGED <<clockVars, endReason, joined, requested, answered>>

StopClock ==
  /\ at["clock"] = "tick"
  /\ ICReady /\ ~selfRunning
  /\ Go("clock", "done")
  /\ UNCHANGED <<clockVars, endReason, joined, sleep, requested, answered>>

\* runSimulation: the threads are joined one after the other, the clock last.
Join ==
  /\ joined < Len(Joins)
  /\ at[Joins[joined + 1]] = "done"
  /\ joined' = joined + 1
  /\ selfRunning' = (joined' < Len(Joins))
  /\ UNCHANGED <<running, ICReady, cycleCount, endReason, at, sleep, requested, answered>>

\* dumpSimulation
Report ==
  /\ joined = Len(Joins)
  /\ at["clock"] = "done"
  /\ at["main"] = "join"
  /\ Go("main", "reported")
  /\ UNCHANGED <<clockVars, endReason, joined, sleep, requested, answered>>

-----------------------------------------------------------------------------
Init ==
  /\ running = TRUE
  /\ selfRunning = TRUE
  /\ ICReady = FALSE
  /\ cycleCount = 0
  /\ endReason = "none"
  /\ at = [t \in Module \cup {"clock", "main"} |->
             IF t = "main" THEN "join"
             ELSE IF t = "clock" THEN "tick"
             ELSE IF t = "IC" THEN "start" ELSE "loop"]
  /\ joined = 0
  /\ sleep = [m \in Module |-> "awake"]
  /\ requested = {}
  /\ answered = {}

ModuleStep(m) == FallAsleep(m) \/ Loop(m) \/ StartTimer(m) \/ Work(m)
ClientStep(m) == ModuleStep(m) \/ Request(m) \/ PollAgain(m) \/ Receive(m)

EXStep == ClientStep("EX") \/ EndSimulation \/ SetEndReason
ICStep == ClientStep("IC") \/ Start \/ GiveUp
DEStep == ModuleStep("DE")
LSStep == ModuleStep("LS") \/ \E m \in Clients : Serve(m) \/ Answer(m)
ClockStep == Tick \/ Notify \/ StopClock
MainStep == Join \/ Report

Next == EXStep \/ ICStep \/ DEStep \/ LSStep \/ ClockStep \/ MainStep

\* Every thread is scheduled.
Spec ==
  /\ Init /\ [][Next]_vars
  /\ WF_vars(EXStep) /\ WF_vars(ICStep) /\ WF_vars(DEStep)
  /\ WF_vars(LSStep) /\ WF_vars(ClockStep) /\ WF_vars(MainStep)
-----------------------------------------------------------------------------
Places == {"start", "loop", "timer", "work", "poll", "answerEX", "answerIC",
           "normal", "double_exception", "tick", "notify", "join", "reported", "done"}

\* The flags of the clock, the places of the threads, and the pipes.
TypeOK ==
  /\ running \in BOOLEAN /\ selfRunning \in BOOLEAN /\ ICReady \in BOOLEAN
  /\ cycleCount \in 0 .. CyclesLimit + 1
  /\ endReason \in {"none", "normal", "double_exception", "cycle_limit_exceeded"}
  /\ at \in [Module \cup {"clock", "main"} -> Places]
  /\ joined \in 0 .. Len(Joins)
  /\ sleep \in [Module -> {"awake", "arming", "asleep"}]
  /\ requested \subseteq Clients
  /\ answered \subseteq Clients

\* Execute polls for an answer of Load/Store that will not come.
LeftWaiting == at["EX"] = "poll" /\ "EX" \in requested /\ at["LS"] = "done"

\* No module sleeps forever for want of a tick: once the simulation has ended
\* its result is reported, unless Execute is left waiting (Clock.cpp 16-35,
\* CPU.cpp 46-52).
ReportedUnlessWaiting == ~running ~> (at["main"] = "reported" \/ LeftWaiting)

\* When the result is reported no thread is at work on the recorder, and
\* something has said why the simulation ended (main.cpp 89-91).
ReportIsFinal ==
  at["main"] = "reported" =>
    /\ \A m \in Module : at[m] = "done"
    /\ at["clock"] = "done"
    /\ endReason # "none"

\* There is a maximum number of cycles, after which the simulation will stop
\* automatically (HelpTab.py:544).
StopsAtLimit == cycleCount > CyclesLimit ~> at["main"] = "reported"
=============================================================================
