--------------------------- MODULE Shutdown_proofs --------------------------
(***************************************************************************)
(* What is reported is final, for every limit of cycles.                   *)
(***************************************************************************)
EXTENDS Shutdown, TLAPS

Ending == {"normal", "double_exception"}

\* Who stops the simulation says why before it stops itself.
Explained == running \/ endReason # "none" \/ at["EX"] \in Ending

\* A thread that is done has seen the simulation end.
DoneAfterEnd == \A m \in Module : at[m] = "done" => ~running

JoinedAreDone == \A i \in 1 .. 4 : i <= joined => at[Joins[i]] = "done"

ReportedLast == at["main"] = "reported" => joined = 4 /\ at["clock"] = "done"

Inv == TypeOK /\ Explained /\ DoneAfterEnd /\ JoinedAreDone /\ ReportedLast
-----------------------------------------------------------------------------
\* Every module is joined (CPU.cpp 46-49).
LEMMA Joining ==
  /\ Len(Joins) = 4
  /\ \A i \in 1 .. 4 : Joins[i] \in Module
  /\ \A m \in Module : \E i \in 1 .. 4 : Joins[i] = m
<1>1. Len(Joins) = 4 BY DEF Joins
<1>2. Joins[1] = "EX" /\ Joins[2] = "DE" /\ Joins[3] = "IC" /\ Joins[4] = "LS"
  BY DEF Joins
<1>3. \A i \in 1 .. 4 : i = 1 \/ i = 2 \/ i = 3 \/ i = 4 OBVIOUS
<1>4. 1 \in 1 .. 4 /\ 2 \in 1 .. 4 /\ 3 \in 1 .. 4 /\ 4 \in 1 .. 4 OBVIOUS
<1>5. \A i \in 1 .. 4 : Joins[i] \in Module BY <1>2, <1>3 DEF Module
<1>6. \A m \in Module : \E i \in 1 .. 4 : Joins[i] = m BY <1>2, <1>4 DEF Module
<1> QED BY <1>1, <1>5, <1>6

LEMMA InvInit == Init => Inv
<1> SUFFICES ASSUME Init PROVE Inv OBVIOUS
<1>1. at["main"] = "join"
  BY DEF Init, Module
<1>2. \A t \in DOMAIN at : at[t] \in Places \ {"done"}
  BY DEF Init, Places
<1>3. TypeOK
  <2>1. cycleCount \in 0 .. CyclesLimit + 1 /\ joined \in 0 .. Len(Joins)
    BY LimitAssumption, Joining DEF Init
  <2>2. at \in [Module \cup {"clock", "main"} -> Places]
    BY DEF Init, Places
  <2>3. sleep \in [Module -> {"awake", "arming", "asleep"}]
    BY DEF Init
  <2> QED BY <2>1, <2>2, <2>3 DEF Init, TypeOK
<1>4. Explained /\ DoneAfterEnd
  BY <1>2 DEF Init, Explained, DoneAfterEnd
<1>5. JoinedAreDone /\ ReportedLast
  BY <1>1 DEF Init, JoinedAreDone, ReportedLast
<1> QED BY <1>3, <1>4, <1>5 DEF Inv

\* A step of module m to place p, whatever it does to the pipes.
LEMMA Move ==
  ASSUME Inv, NEW m \in Module, NEW p \in Places \ {"reported"},
         at[m] # "done",
         at' = [at EXCEPT ![m] = p],
         p = "done" => ~running',
         running' \in BOOLEAN, running' => running,
         UNCHANGED <<selfRunning, cycleCount, joined>>, ICReady' \in BOOLEAN,
         endReason' \in {"none", "normal", "double_exception", "cycle_limit_exceeded"},
         sleep' \in [Module -> {"awake", "arming", "asleep"}],
         requested' \subseteq Clients, answered' \subseteq Clients,
         Explained'
  PROVE  Inv'
<1>1. at' \in [Module \cup {"clock", "main"} -> Places]
  BY DEF Inv, TypeOK
<1>2. TypeOK'
  BY <1>1 DEF Inv, TypeOK
<1>3. DoneAfterEnd'
  BY DEF Inv, TypeOK, DoneAfterEnd
<1>4. JoinedAreDone'
  BY Joining DEF Inv, TypeOK, JoinedAreDone
<1>5. ReportedLast'
  BY DEF Inv, TypeOK, ReportedLast, Module
<1> QED BY <1>2, <1>3, <1>4, <1>5 DEF Inv

\* A step of a module that neither ends the simulation nor says why it ended.
LEMMA Stepping ==
  ASSUME Inv, NEW m \in Module, NEW p \in Places \ {"reported"},
         at[m] \notin Ending \cup {"done"},
         at' = [at EXCEPT ![m] = p],
         p = "done" => ~running,
         UNCHANGED <<running, selfRunning, cycleCount, endReason, joined>>,
         ICReady' \in BOOLEAN,
         sleep' \in [Module -> {"awake", "arming", "asleep"}],
         requested' \subseteq Clients, answered' \subseteq Clients
  PROVE  Inv'
<1>1. Explained'
  BY DEF Inv, TypeOK, Explained, Module
<1>2. running' \in BOOLEAN /\ endReason' \in {"none", "normal", "double_exception", "cycle_limit_exceeded"}
  BY DEF Inv, TypeOK
<1> QED BY <1>1, <1>2, Move

\* awaitClockSignal takes a module to the place it is given, asleep or not.
LEMMA Awaiting ==
  ASSUME Inv, NEW m \in Module, NEW p, Await(m, p) \/ Spend(m, p)
  PROVE  /\ at' = [at EXCEPT ![m] = p]
         /\ sleep' \in [Module -> {"awake", "arming", "asleep"}]
BY DEF Inv, TypeOK, Await, Spend, Go

\* What every module does (IClockBoundModule.h 23-93).
LEMMA ModuleKeepsInv ==
  ASSUME Inv, NEW m \in Module, ModuleStep(m)
  PROVE  Inv'
<1> USE DEF clockVars
<1>1. CASE FallAsleep(m)
  <2>1. sleep' \in [Module -> {"awake", "arming", "asleep"}]
    BY <1>1 DEF FallAsleep, Inv, TypeOK
  <2> QED BY <1>1, <2>1
    DEF FallAsleep, Inv, TypeOK, Explained, DoneAfterEnd, JoinedAreDone, ReportedLast
<1>2. CASE Loop(m)
  <2>1. PICK p \in {"timer", "done"} :
           at' = [at EXCEPT ![m] = p] /\ (p = "done" => ~running)
    BY <1>2 DEF Loop, Go
  <2>2. p \in Places \ {"reported"} BY DEF Places
  <2>3. at[m] \notin Ending \cup {"done"} BY <1>2 DEF Loop, About, Ending
  <2> QED BY <1>2, <2>1, <2>2, <2>3, Stepping DEF Loop, Inv, TypeOK
<1>3. CASE StartTimer(m)
  <2>1. /\ at' = [at EXCEPT ![m] = "work"]
        /\ sleep' \in [Module -> {"awake", "arming", "asleep"}]
    BY <1>3, Awaiting DEF StartTimer
  <2>2. "work" \in Places \ {"reported"} BY DEF Places
  <2>3. at[m] \notin Ending \cup {"done"} BY <1>3 DEF StartTimer, About, Ending
  <2> QED BY <1>3, <2>1, <2>2, <2>3, Stepping DEF StartTimer, Inv, TypeOK
<1>4. CASE Work(m)
  <2>1. /\ at' = [at EXCEPT ![m] = "loop"]
        /\ sleep' \in [Module -> {"awake", "arming", "asleep"}]
    BY <1>4, Awaiting DEF Work
  <2>2. "loop" \in Places \ {"reported"} BY DEF Places
  <2>3. at[m] \notin Ending \cup {"done"} BY <1>4 DEF Work, About, Ending
  <2> QED BY <1>4, <2>1, <2>2, <2>3, Stepping DEF Work, Inv, TypeOK
<1> QED BY <1>1, <1>2, <1>3, <1>4 DEF ModuleStep

\* Execute and the Instruction Cache ask Load/Store and wait.
LEMMA ClientKeepsInv ==
  ASSUME Inv, NEW m \in Clients, ClientStep(m)
  PROVE  Inv'
<1> USE DEF clockVars
<1>0. m \in Module BY DEF Clients, Module
<1>1. CASE ModuleStep(m) BY <1>0, <1>1, ModuleKeepsInv
<1>2. CASE Request(m)
  <2>1. /\ at' = [at EXCEPT ![m] = "poll"]
        /\ sleep' \in [Module -> {"awake", "arming", "asleep"}]
    BY <1>0, <1>2, Awaiting DEF Request
  <2>2. "poll" \in Places \ {"reported"} BY DEF Places
  <2>3. at[m] \notin Ending \cup {"done"} BY <1>2 DEF Request, About, Ending
  <2> QED BY <1>0, <1>2, <2>1, <2>2, <2>3, Stepping DEF Request, Inv, TypeOK
<1>3. CASE PollAgain(m)
  <2>1. /\ at' = [at EXCEPT ![m] = "poll"]
        /\ sleep' \in [Module -> {"awake", "arming", "asleep"}]
    BY <1>0, <1>3, Awaiting DEF PollAgain
  <2>2. "poll" \in Places \ {"reported"} BY DEF Places
  <2>3. at[m] \notin Ending \cup {"done"} BY <1>3 DEF PollAgain, About, Ending
  <2> QED BY <1>0, <1>3, <2>1, <2>2, <2>3, Stepping DEF PollAgain, Inv, TypeOK
<1>4. CASE Receive(m)
  <2>1. PICK p \in {"work", "loop"} : Spend(m, p)
    BY <1>4 DEF Receive
  <2>2. /\ at' = [at EXCEPT ![m] = p]
        /\ sleep' \in [Module -> {"awake", "arming", "asleep"}]
    BY <1>0, <2>1, Awaiting
  <2>3. p \in Places \ {"reported"} /\ p # "done" BY DEF Places
  <2>4. at[m] \notin Ending \cup {"done"} BY <1>4 DEF Receive, About, Ending
  <2> QED BY <1>0, <1>4, <2>2, <2>3, <2>4, Stepping DEF Receive, Inv, TypeOK
<1> QED BY <1>1, <1>2, <1>3, <1>4 DEF ClientStep

\* Execute stops the simulation before it says why.
LEMMA EXKeepsInv == ASSUME Inv, EXStep PROVE Inv'
<1> USE DEF clockVars
<1>1. CASE ClientStep("EX") BY <1>1, ClientKeepsInv DEF Clients
<1>2. CASE EndSimulation
  <2>1. PICK r \in Ending : at' = [at EXCEPT !["EX"] = r]
    BY <1>2 DEF EndSimulation, Go, Ending
  <2>2. r \in Places \ {"reported"} /\ r # "done" BY DEF Places, Ending
  <2>3. at'["EX"] = r BY <2>1 DEF Inv, TypeOK, Module
  <2>4. Explained' BY <2>3 DEF Explained
  <2>5. at["EX"] # "done" /\ "EX" \in Module
    BY <1>2 DEF EndSimulation, About, Module
  <2> QED BY <1>2, <2>1, <2>2, <2>4, <2>5, Move DEF EndSimulation, Inv, TypeOK
<1>3. CASE SetEndReason
  <2>1. at' = [at EXCEPT !["EX"] = "loop"] BY <1>3 DEF SetEndReason, Go
  <2>2. "loop" \in Places \ {"reported"} BY DEF Places
  <2>3. Explained' BY <1>3 DEF SetEndReason, Explained
  <2>4. at["EX"] # "done" /\ "EX" \in Module BY <1>3 DEF SetEndReason, Module
  <2>5. endReason' \in {"none", "normal", "double_exception", "cycle_limit_exceeded"}
    BY <1>3 DEF SetEndReason
  <2> QED BY <1>3, <2>1, <2>2, <2>3, <2>4, <2>5, Move DEF SetEndReason, Inv, TypeOK
<1> QED BY <1>1, <1>2, <1>3 DEF EXStep

\* The Instruction Cache lets the clock start, and may give up a request.
LEMMA ICKeepsInv == ASSUME Inv, ICStep PROVE Inv'
<1> USE DEF clockVars
<1>0. "IC" \in Module BY DEF Module
<1>1. CASE ClientStep("IC") BY <1>1, ClientKeepsInv DEF Clients
<1>2. CASE Start
  <2>1. "timer" \in Places \ {"reported"} BY DEF Places
  <2>2. at["IC"] \notin Ending \cup {"done"} BY <1>2 DEF Start, Ending
  <2> QED BY <1>0, <1>2, <2>1, <2>2, Stepping DEF Start, Go, Inv, TypeOK
<1>3. CASE GiveUp
  <2>1. "loop" \in Places \ {"reported"} BY DEF Places
  <2>2. at["IC"] \notin Ending \cup {"done"} BY <1>3 DEF GiveUp, About, Ending
  <2> QED BY <1>0, <1>3, <2>1, <2>2, Stepping DEF GiveUp, Go, Inv, TypeOK
<1> QED BY <1>1, <1>2, <1>3 DEF ICStep

\* Load/Store takes one request and answers it.
LEMMA LSKeepsInv == ASSUME Inv, LSStep PROVE Inv'
<1> USE DEF clockVars
<1>0. "LS" \in Module BY DEF Module
<1>1. CASE ModuleStep("LS") BY <1>0, <1>1, ModuleKeepsInv
<1>2. ASSUME NEW m \in Clients, Serve(m) PROVE Inv'
  <2>1. /\ at' = [at EXCEPT !["LS"] = AnswerTo[m]]
        /\ sleep' \in [Module -> {"awake", "arming", "asleep"}]
    BY <1>0, <1>2, Awaiting DEF Serve
  <2>2. AnswerTo[m] \in Places \ {"reported"} /\ AnswerTo[m] # "done"
    BY DEF Clients, AnswerTo, Places
  <2>3. at["LS"] \notin Ending \cup {"done"} BY <1>2 DEF Serve, About, Ending
  <2> QED BY <1>0, <1>2, <2>1, <2>2, <2>3, Stepping DEF Serve, Inv, TypeOK
<1>3. ASSUME NEW m \in Clients, Answer(m) PROVE Inv'
  <2>1. "loop" \in Places \ {"reported"} BY DEF Places
  <2>2. at["LS"] \notin Ending \cup {"done"}
    BY <1>3 DEF Answer, About, Ending, AnswerTo, Clients
  <2> QED BY <1>0, <1>3, <2>1, <2>2, Stepping DEF Answer, Go, Inv, TypeOK
<1> QED BY <1>1, <1>2, <1>3 DEF LSStep

\* The clock says why when it stops the simulation, and never starts it again.
LEMMA ClockKeepsInv == ASSUME Inv, ClockStep PROVE Inv'
<1> USE DEF clockVars
<1> DEFINE Later(p) == at' = [at EXCEPT !["clock"] = p]
<1>1. ASSUME NEW p \in Places, Later(p), at["clock"] # "done", UNCHANGED joined
      PROVE  /\ at' \in [Module \cup {"clock", "main"} -> Places]
             /\ \A m \in Module : at'[m] = at[m]
             /\ JoinedAreDone' /\ ReportedLast'
  <2>1. at' \in [Module \cup {"clock", "main"} -> Places]
    BY <1>1 DEF Inv, TypeOK
  <2>2. \A m \in Module : at'[m] = at[m]
    BY <1>1 DEF Inv, TypeOK, Module
  <2>3. JoinedAreDone'
    BY <1>1, <2>2, Joining DEF Inv, JoinedAreDone
  <2>4. at["main"] # "reported" BY <1>1 DEF Inv, ReportedLast
  <2>5. at'["main"] # "reported" BY <1>1, <2>4 DEF Inv, TypeOK
  <2> QED BY <2>1, <2>2, <2>3, <2>5 DEF ReportedLast
<1>2. CASE Tick
  <2>1. Later("notify") /\ UNCHANGED joined /\ at["clock"] # "done"
    BY <1>2 DEF Tick, Go
  <2>2. "notify" \in Places BY DEF Places
  <2>3. /\ at' \in [Module \cup {"clock", "main"} -> Places]
        /\ \A m \in Module : at'[m] = at[m]
        /\ JoinedAreDone' /\ ReportedLast'
    BY <1>1, <2>1, <2>2
  <2>4. cycleCount' \in 0 .. CyclesLimit + 1
    BY <1>2, LimitAssumption DEF Tick, Inv, TypeOK
  <2>5. /\ running' \in BOOLEAN /\ (running' => running)
        /\ endReason' \in {"none", "normal", "double_exception", "cycle_limit_exceeded"}
    BY <1>2 DEF Tick, Inv, TypeOK
  <2>6. TypeOK' BY <1>2, <2>3, <2>4, <2>5 DEF Tick, Inv, TypeOK
  <2>7. running' \/ endReason' # "none" \/ (endReason' = endReason /\ ~running)
    BY <1>2, LimitAssumption DEF Tick, Inv, TypeOK
  <2>8. Explained' BY <2>3, <2>7 DEF Inv, Explained, Module
  <2>9. DoneAfterEnd' BY <2>3, <2>5 DEF Inv, DoneAfterEnd
  <2> QED BY <2>3, <2>6, <2>8, <2>9 DEF Inv
<1>3. CASE Notify
  <2>1. Later("tick") /\ UNCHANGED joined /\ at["clock"] # "done"
    BY <1>3 DEF Notify, Go
  <2>2. "tick" \in Places BY DEF Places
  <2>3. /\ at' \in [Module \cup {"clock", "main"} -> Places]
        /\ \A m \in Module : at'[m] = at[m]
        /\ JoinedAreDone' /\ ReportedLast'
    BY <1>1, <2>1, <2>2
  <2>4. sleep' \in [Module -> {"awake", "arming", "asleep"}]
    BY <1>3 DEF Notify, Inv, TypeOK
  <2>5. TypeOK' BY <1>3, <2>3, <2>4 DEF Notify, Inv, TypeOK
  <2>6. Explained' /\ DoneAfterEnd'
    BY <1>3, <2>3 DEF Notify, Inv, Explained, DoneAfterEnd, Module
  <2> QED BY <2>3, <2>5, <2>6 DEF Inv
<1>4. CASE StopClock
  <2>1. Later("done") /\ UNCHANGED joined /\ at["clock"] # "done"
    BY <1>4 DEF StopClock, Go
  <2>2. "done" \in Places BY DEF Places
  <2>3. /\ at' \in [Module \cup {"clock", "main"} -> Places]
        /\ \A m \in Module : at'[m] = at[m]
        /\ JoinedAreDone' /\ ReportedLast'
    BY <1>1, <2>1, <2>2
  <2>4. TypeOK' BY <1>4, <2>3 DEF StopClock, Inv, TypeOK
  <2>5. Explained' /\ DoneAfterEnd'
    BY <1>4, <2>3 DEF StopClock, Inv, Explained, DoneAfterEnd, Module
  <2> QED BY <2>3, <2>4, <2>5 DEF Inv
<1> QED BY <1>2, <1>3, <1>4 DEF ClockStep

\* The main thread joins the modules in their order, then the clock.
LEMMA MainKeepsInv == ASSUME Inv, MainStep PROVE Inv'
<1> USE DEF clockVars
<1>1. CASE Join
  <2>1. joined \in 0 .. 3 /\ joined' = joined + 1 /\ at[Joins[joined']] = "done"
    BY <1>1, Joining DEF Join, Inv, TypeOK
  <2>2. \A i \in 1 .. 4 : i <= joined' => i <= joined \/ i = joined' BY <2>1
  <2>3. JoinedAreDone' BY <1>1, <2>1, <2>2 DEF Join, Inv, JoinedAreDone
  <2>4. TypeOK' BY <1>1, <2>1, Joining DEF Join, Inv, TypeOK
  <2>5. ReportedLast' BY <1>1, <2>1 DEF Join, Inv, ReportedLast
  <2>6. Explained' /\ DoneAfterEnd' BY <1>1 DEF Join, Inv, Explained, DoneAfterEnd
  <2> QED BY <2>3, <2>4, <2>5, <2>6 DEF Inv
<1>2. CASE Report
  <2>1. /\ at' \in [Module \cup {"clock", "main"} -> Places]
        /\ \A m \in Module : at'[m] = at[m]
        /\ at'["clock"] = at["clock"]
    <3>1. "reported" \in Places BY DEF Places
    <3> QED BY <1>2, <3>1 DEF Report, Go, Inv, TypeOK, Module
  <2>2. TypeOK' BY <1>2, <2>1 DEF Report, Inv, TypeOK
  <2>3. JoinedAreDone' BY <1>2, <2>1, Joining DEF Report, Inv, JoinedAreDone
  <2>4. ReportedLast' BY <1>2, <2>1, Joining DEF Report, ReportedLast
  <2>5. Explained' /\ DoneAfterEnd'
    BY <1>2, <2>1 DEF Report, Inv, Explained, DoneAfterEnd, Module
  <2> QED BY <2>2, <2>3, <2>4, <2>5 DEF Inv
<1> QED BY <1>1, <1>2 DEF MainStep

\* Every step keeps the invariant.
LEMMA InvNext == Inv /\ [Next]_vars => Inv'
<1> SUFFICES ASSUME Inv, [Next]_vars PROVE Inv' OBVIOUS
<1>1. CASE DEStep
  <2> "DE" \in Module BY DEF Module
  <2> QED BY <1>1, ModuleKeepsInv DEF DEStep
<1>2. CASE UNCHANGED vars
  BY <1>2 DEF vars, Inv, TypeOK, Explained, DoneAfterEnd, JoinedAreDone, ReportedLast
<1> QED
  BY <1>1, <1>2, EXKeepsInv, ICKeepsInv, LSKeepsInv, ClockKeepsInv, MainKeepsInv DEF Next

LEMMA Invariance == Spec => []Inv
BY InvInit, InvNext, PTL DEF Spec

\* The flags, the places of the threads and the pipes are what they should be,
\* and the count of cycles stops one beyond the limit (Clock.cpp 11-37).
THEOREM ShutdownTypeCorrect == Spec => []TypeOK
<1>1. Inv => TypeOK BY DEF Inv
<1> QED BY <1>1, Invariance, PTL

\* When the result is reported every thread has ended and the recorder holds a
\* reason, whoever set it last (CPU.cpp 45-52, main.cpp 89-91).
THEOREM ReportIsFinalHolds == Spec => []ReportIsFinal
<1>1. Inv => ReportIsFinal
  <2> SUFFICES ASSUME Inv, at["main"] = "reported"
               PROVE  /\ \A m \in Module : at[m] = "done"
                      /\ at["clock"] = "done"
                      /\ endReason # "none"
    BY DEF ReportIsFinal
  <2>1. joined = 4 /\ at["clock"] = "done" BY DEF Inv, ReportedLast
  <2>2. \A i \in 1 .. 4 : at[Joins[i]] = "done" BY <2>1 DEF Inv, JoinedAreDone
  <2>3. \A m \in Module : at[m] = "done" BY <2>2, Joining
  <2>4. "EX" \in Module BY DEF Module
  <2>5. ~running /\ at["EX"] \notin Ending
    BY <2>3, <2>4 DEF Inv, DoneAfterEnd, Ending
  <2>6. endReason # "none" BY <2>5 DEF Inv, Explained
  <2> QED BY <2>1, <2>3, <2>6
<1> QED BY <1>1, Invariance, PTL
=============================================================================
