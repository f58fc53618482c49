-------------------------- MODULE Interface_proofs --------------------------
(***************************************************************************)
(* The session: the input tab never traps the user, never kills what is    *)
(* not there, and has one simulation at work, for any number of runs.      *)
(* That Cancel has a process to kill rests on the process at work being    *)
(* the one the tab holds, which rests on a run not being started before    *)
(* the last is over: that in turn is what the disabled buttons are for.    *)
(* All of it is therefore one inductive invariant.                         *)
(*                                                                         *)
(* The interface as a whole is a session: whatever the simulation tab does *)
(* with the results, each of its steps is a step of Session or leaves all  *)
(* of Session's variables alone.  So what is proved of Session holds of    *)
(* the interface.  And what is drawn follows the names and the cycle that  *)
(* the tab keeps (PictureRight).                                           *)
(*                                                                         *)
(* What is drawn is also what the last run recorded.  The directory holds  *)
(* the files of that run and no others (LastInv), as long as no earlier    *)
(* run was unanswered when it was started; the tab shows what was read     *)
(* from them for the cycle the slider is at (TabRules); so only what is    *)
(* named in AbortsAreKnown can raise an exception.                         *)
(***************************************************************************)
EXTENDS Interface, WellFoundedInduction, TLAPS

-----------------------------------------------------------------------------
(* The session.                                                            *)
AtWork(p)  == status[p] \in Working
Pending(p) == p \in connected /\ status[p] \in Over

SessionTypes ==
  /\ status \in [Runs -> Statuses]
  /\ connected \in SUBSET Runs
  /\ dialogs \in Seq(DialogKinds)
  /\ buttons \in BOOLEAN /\ cancelButton \in BOOLEAN
  /\ simulationCancelled \in BOOLEAN /\ late \in BOOLEAN

\* Cancelling a run disables Cancel, until another is started.
CancelOnce == simulationCancelled => ~cancelButton

\* What is at work, or over and not answered, was started last ...
OnlyLast == ~late => \A p \in Runs : AtWork(p) \/ Pending(p) => p = lastRun

\* ... is the process that Cancel would kill ...
WorkIsHeld == app = "open" /\ ~late => \A p \in connected : AtWork(p) => p = runningProcess

\* ... and is over when another can be started.
IdleInBetween ==
  app = "open" /\ ~late /\ (buttons \/ dialogs # <<>>) => \A p \in connected : ~AtWork(p)

Inv ==
  /\ SessionTypes /\ CancelOnce /\ CancelHasProcess /\ NeverTrapped
  /\ OnlyLast /\ WorkIsHeld /\ IdleInBetween

invVars == <<app, buttons, cancelButton, dialogs, runningProcess, simulationCancelled,
             status, connected, lastRun, late>>

-----------------------------------------------------------------------------
(* What several actions do.                                                *)

\* The statuses a process is at work in are not those it is over in.
LEMMA StatusKinds ==
  /\ Working \intersect Over = {}
  /\ Working \union Over \union {"unused", "absent", "done"} = Statuses
BY DEF Working, Over, Statuses

\* A dialog that is opened is open.
LEMMA DialogOpened ==
  ASSUME NEW s \in Seq(DialogKinds), NEW d \in DialogKinds
  PROVE  Append(s, d) \in Seq(DialogKinds) /\ Append(s, d) # <<>>
<1> HIDE DEF DialogKinds
<1>1. Append(s, d) \in Seq(DialogKinds)
  OBVIOUS
<1>2. Len(Append(s, d)) = Len(s) + 1 /\ Len(s) \in Nat
  OBVIOUS
<1>3. Len(Append(s, d)) # Len(<<>>)
  BY <1>2
<1> QED
  BY <1>1, <1>3

\* Closing the dialog on top leaves a stack of dialogs.
LEMMA DialogClosed ==
  ASSUME NEW s \in Seq(DialogKinds), s # <<>>
  PROVE  Front(s) \in Seq(DialogKinds)
BY DEF Front

\* The invariant is about the variables of invVars.
LEMMA Kept == Inv /\ UNCHANGED invVars => Inv'
BY DEF Inv, invVars, SessionTypes, CancelOnce, CancelHasProcess, NeverTrapped, OnlyLast,
       WorkIsHeld, IdleInBetween, AtWork, Pending, UserTurn, Runs

\* A new window listens to no process and holds none.
LEMMA NewWindowKeeps ==
  Inv /\ NewWindow /\ UNCHANGED <<lastRun, late>>
    /\ status' \in [Runs -> Statuses] /\ (\A p \in Runs : AtWork(p)' => AtWork(p))
  => Inv'
<1> SUFFICES ASSUME Inv, NewWindow, UNCHANGED <<lastRun, late>>,
                    status' \in [Runs -> Statuses], \A p \in Runs : AtWork(p)' => AtWork(p)
             PROVE  Inv'
  OBVIOUS
<1>1. /\ buttons' = TRUE /\ cancelButton' = FALSE /\ simulationCancelled' = FALSE
      /\ connected' = {} /\ dialogs' = <<>>
  BY DEF NewWindow, SetAllButtonsEnabled
<1>2. SessionTypes'
  <2>1. <<>> \in Seq(DialogKinds) /\ late \in BOOLEAN
    BY DEF Inv, SessionTypes
  <2> QED
    BY <1>1, <2>1 DEF SessionTypes
<1>3. OnlyLast'
  BY <1>1 DEF Inv, OnlyLast, Pending
<1> QED
  BY <1>1, <1>2, <1>3
  DEF Inv, CancelOnce, CancelHasProcess, NeverTrapped, WorkIsHeld, IdleInBetween

\* What is killed, or answered, is over.
LEMMA KillEnds ==
  ASSUME status \in [Runs -> Statuses], NEW ps, Kill(ps)
  PROVE  /\ status' \in [Runs -> Statuses]
         /\ \A p \in Runs : /\ AtWork(p)' => AtWork(p) /\ p \notin ps
                            /\ status'[p] \in Over => status[p] \in Over \/ AtWork(p)
BY DEF Kill, AtWork, Working, Over, Statuses

\* When a run is answered none is at work, unless it was started too early.
LEMMA AnswerEnds ==
  ASSUME Inv, NEW p \in Runs, Answers(p)
  PROVE  /\ status' \in [Runs -> Statuses] /\ app = "open"
         /\ \A q \in Runs : /\ AtWork(q)' => AtWork(q)
                            /\ status'[q] \in Over => status[q] \in Over
         /\ ~late => \A q \in Runs : ~AtWork(q)'
<1>1. status \in [Runs -> Statuses] /\ status' = [status EXCEPT ![p] = "done"]
  BY DEF Inv, SessionTypes, Answers
<1>2. "done" \in Statuses /\ "done" \notin Working \union Over
  BY DEF Statuses, Working, Over
<1>3. ~late => \A q \in Runs : AtWork(q) => q = p
  BY DEF Inv, OnlyLast, Pending, Answers
<1>4. app = "open"
  BY DEF Answers
<1> QED
  BY <1>1, <1>2, <1>3, <1>4 DEF AtWork

-----------------------------------------------------------------------------
\* The invariant holds when the program is first started.
LEMMA SessionInitInv == SessionInit => Inv
<1> SUFFICES ASSUME SessionInit PROVE Inv
  OBVIOUS
<1>1. /\ app = "open" /\ buttons = TRUE /\ cancelButton = FALSE /\ dialogs = <<>>
      /\ simulationCancelled = FALSE /\ connected = {} /\ late = FALSE
      /\ status = [p \in Runs |-> "unused"]
  BY DEF SessionInit, FreshWindow
<1>2. "unused" \in Statuses /\ "unused" \notin Working
  BY DEF Statuses, Working, Over
<1>3. SessionTypes
  <2>1. <<>> \in Seq(DialogKinds)
    OBVIOUS
  <2> QED
    BY <1>1, <1>2, <2>1 DEF SessionTypes
<1> QED
  BY <1>1, <1>2, <1>3
  DEF Inv, CancelOnce, CancelHasProcess, NeverTrapped, OnlyLast, WorkIsHeld,
      IdleInBetween, AtWork, Pending

-----------------------------------------------------------------------------
(* Every step keeps the invariant.                                         *)

\* A process that works, or ends, was at work.
LEMMA ProcessStepKeeps ==
  ASSUME Inv, NEW p \in Runs, ProcessStep(p)
  PROVE  Inv'
<1>1. UNCHANGED <<app, buttons, cancelButton, dialogs, runningProcess,
                  simulationCancelled, connected, lastRun, late>>
  BY DEF ProcessStep, windowVars, inputVars, historyVars
<1>2. AtWork(p) /\ (status' = status \/ \E s \in Statuses : status' = [status EXCEPT ![p] = s])
  <2>1. status[p] = "running"
    BY DEF ProcessStep, WriteCycle, Exits, Fails, Sticks, ProcessIs
  <2>2. \/ status' = status \/ status' = [status EXCEPT ![p] = "exited"]
        \/ status' = [status EXCEPT ![p] = "failed"]
        \/ status' = [status EXCEPT ![p] = "stuck"]
    BY DEF ProcessStep, WriteCycle, Exits, Fails, Sticks, ProcessIs
  <2> QED
    BY <2>1, <2>2 DEF AtWork, Working, Statuses, Over
<1>3. status \in [Runs -> Statuses]
  BY DEF Inv, SessionTypes
<1>4. /\ status' \in [Runs -> Statuses]
      /\ \A q \in Runs : q # p => status'[q] = status[q]
  BY <1>2, <1>3
<1>5. \A q \in Runs : AtWork(q)' => AtWork(q)
  BY <1>2, <1>4 DEF AtWork
<1>6. connected \in SUBSET Runs
  BY DEF Inv, SessionTypes
<1>7. SessionTypes'
  BY <1>1, <1>4 DEF Inv, SessionTypes
<1>8. OnlyLast'
  BY <1>1, <1>2, <1>4, <1>5 DEF Inv, OnlyLast, Pending, AtWork
<1>9. WorkIsHeld' /\ IdleInBetween'
  BY <1>1, <1>5, <1>6 DEF Inv, WorkIsHeld, IdleInBetween
<1> QED
  BY <1>1, <1>7, <1>8, <1>9
  DEF Inv, CancelOnce, CancelHasProcess, NeverTrapped, UserTurn

\* The end of the program, its start and an exception leave a new window.
LEMMA WindowStepKeeps ==
  Inv /\ (Close \/ Start \/ ViewAborts \/ TextAborts \/ CleanUpAborts) => Inv'
<1> SUFFICES ASSUME Inv, Close \/ Start \/ ViewAborts \/ TextAborts \/ CleanUpAborts
             PROVE  Inv'
  OBVIOUS
<1>1. NewWindow /\ UNCHANGED <<lastRun, late>>
  BY DEF Close, Start, ViewAborts, TextAborts, CleanUpAborts, Abort, historyVars
<1>2. status \in [Runs -> Statuses]
  BY DEF Inv, SessionTypes
<1>3. /\ status' \in [Runs -> Statuses]
      /\ \A p \in Runs : AtWork(p)' => AtWork(p)
  <2>1. CASE Close
    <3>1. Kill(connected)
      BY <2>1 DEF Close
    <3> QED
      BY <1>2, <3>1, KillEnds
  <2>2. CASE Start \/ ViewAborts \/ TextAborts \/ CleanUpAborts
    BY <1>2, <2>2 DEF Start, ViewAborts, TextAborts, CleanUpAborts, processVars, AtWork
  <2> QED
    BY <2>1, <2>2
<1> QED
  BY <1>1, <1>3, NewWindowKeeps

\* The configuration is not what the invariant is about.
LEMMA ConfigStepKeeps ==
  Inv /\ (Save \/ SetConfig \/ \E c \in Configs : Edit(c)) => Inv'
<1> SUFFICES ASSUME Inv, Save \/ SetConfig \/ \E c \in Configs : Edit(c) PROVE Inv'
  OBVIOUS
<1>1. ConfigStep
  BY DEF Save, SetConfig, Edit
<1>2. UNCHANGED invVars
  BY <1>1 DEF ConfigStep, invVars, inputVars, processVars
<1> QED
  BY <1>2, Kept

\* While a file is chosen no run can be started, and there is none at work.
LEMMA OpenDialogKeeps == Inv /\ OpenDialog => Inv'
<1> SUFFICES ASSUME Inv, OpenDialog PROVE Inv'
  OBVIOUS
<1>1. /\ buttons /\ app = "open"
      /\ buttons' = FALSE /\ cancelButton' = FALSE
      /\ dialogs' = Append(dialogs, "file")
      /\ UNCHANGED <<app, connected, runningProcess, simulationCancelled, status,
                     lastRun, late>>
  BY DEF OpenDialog, UserTurn, SetAllButtonsEnabled, processVars, historyVars
<1>2. dialogs' \in Seq(DialogKinds) /\ dialogs' # <<>>
  <2>1. dialogs \in Seq(DialogKinds) /\ "file" \in DialogKinds
    BY DEF Inv, SessionTypes, DialogKinds
  <2> QED
    BY <1>1, <2>1, DialogOpened
<1>3. SessionTypes'
  BY <1>1, <1>2 DEF Inv, SessionTypes
<1>4. OnlyLast'
  BY <1>1 DEF Inv, OnlyLast, AtWork, Pending
<1>5. WorkIsHeld' /\ IdleInBetween'
  BY <1>1 DEF Inv, WorkIsHeld, IdleInBetween, AtWork
<1> QED
  BY <1>1, <1>2, <1>3, <1>4, <1>5
  DEF Inv, CancelOnce, CancelHasProcess, NeverTrapped, UserTurn

\* Closing a dialog enables the buttons: with it open no run was at work.
LEMMA CloseDialogKeeps ==
  Inv /\ (CloseFileDialog \/ CloseFailure \/ CloseNoResults) => Inv'
<1> SUFFICES ASSUME Inv, CloseFileDialog \/ CloseFailure \/ CloseNoResults PROVE Inv'
  OBVIOUS
<1>1. dialogs # <<>> /\ app = "open"
  BY DEF CloseFileDialog, CloseFailure, CloseNoResults, Top
<1>2. CASE TextAborts \/ CleanUpAborts
  BY <1>2, WindowStepKeeps
<1>3. CASE /\ buttons' = TRUE /\ cancelButton' = FALSE /\ dialogs' = Front(dialogs)
           /\ UNCHANGED <<app, connected, runningProcess, simulationCancelled>>
           /\ UNCHANGED <<status, lastRun, late>>
  <2>1. dialogs' \in Seq(DialogKinds)
    BY <1>1, <1>3, DialogClosed DEF Inv, SessionTypes
  <2>2. SessionTypes'
    BY <1>1, <1>3, <2>1 DEF Inv, SessionTypes
  <2>3. OnlyLast'
    BY <1>1, <1>3 DEF Inv, OnlyLast, AtWork, Pending
  <2>4. WorkIsHeld' /\ IdleInBetween'
    BY <1>1, <1>3 DEF Inv, WorkIsHeld, IdleInBetween, AtWork
  <2> QED
    BY <1>1, <1>3, <2>2, <2>3, <2>4
    DEF Inv, CancelOnce, CancelHasProcess, NeverTrapped, UserTurn
<1> QED
  BY <1>2, <1>3
  DEF CloseFileDialog, CloseFailure, CloseNoResults, SetAllButtonsEnabled, processVars,
      historyVars

\* A conversion leaves the session alone, or ends the program.
LEMMA ConvertKeeps == Inv /\ ConvertAsmToHex => Inv'
<1> SUFFICES ASSUME Inv, ConvertAsmToHex PROVE Inv'
  OBVIOUS
<1>1. CASE TextAborts
  BY <1>1, WindowStepKeeps
<1>2. CASE /\ buttons /\ buttons' = TRUE /\ cancelButton' = FALSE
           /\ UNCHANGED <<app, dialogs, connected, runningProcess, simulationCancelled>>
           /\ UNCHANGED <<status, lastRun, late>>
  <2>1. SessionTypes'
    BY <1>2 DEF Inv, SessionTypes
  <2>2. OnlyLast' /\ WorkIsHeld' /\ IdleInBetween'
    BY <1>2 DEF Inv, OnlyLast, WorkIsHeld, IdleInBetween, AtWork, Pending
  <2> QED
    BY <1>2, <2>1, <2>2
    DEF Inv, CancelOnce, CancelHasProcess, NeverTrapped, UserTurn
<1> QED
  BY <1>1, <1>2 DEF ConvertAsmToHex, SetAllButtonsEnabled, processVars, historyVars

\* A run is started with none at work and none to be answered, or is late.
LEMMA ExecuteKeeps ==
  ASSUME Inv, NEW p \in Runs, NEW starts \in BOOLEAN, NEW r \in Recordings,
         ExecuteSimulation(p, starts, r), RunStarted(p, starts, r)
  PROVE  Inv'
<1>1. /\ app = "open" /\ dialogs = <<>> /\ buttons
      /\ buttons' = FALSE /\ cancelButton' = TRUE
      /\ connected' = connected \union {p}
      /\ runningProcess' = p /\ simulationCancelled' = FALSE
      /\ lastRun' = p /\ late' = Unanswered
      /\ UNCHANGED <<app, dialogs>>
  BY DEF ExecuteSimulation, RunStarted, StartProcess, UserTurn, SetAllButtonsEnabled
<1>2. p # NoRun
  BY RunsAssumption DEF Runs, NoRun
<1>3. status \in [Runs -> Statuses] /\ connected \in SUBSET Runs
  BY DEF Inv, SessionTypes
<1>4. /\ status' \in [Runs -> Statuses]
      /\ status'[p] \notin Over
      /\ \A q \in Runs : q # p => status'[q] = status[q]
  <2>1. \E s \in {"running", "absent"} : status' = [status EXCEPT ![p] = s]
    BY DEF RunStarted, StartProcess
  <2>2. {"running", "absent"} \subseteq Statuses \ Over
    BY DEF Statuses, Working, Over
  <2> QED
    BY <1>3, <2>1, <2>2
<1>5. ~Unanswered => \A q \in Runs : ~AtWork(q) /\ ~Pending(q)
  <2> SUFFICES ASSUME ~Unanswered, NEW q \in Runs PROVE ~AtWork(q) /\ ~Pending(q)
    OBVIOUS
  <2>1. ~Pending(q) /\ (AtWork(q) => q \in connected /\ ~late)
    BY DEF Unanswered, Pending, AtWork
  <2>2. ~AtWork(q)
    BY <1>1, <2>1 DEF Inv, IdleInBetween
  <2> QED
    BY <2>1, <2>2
<1>6. SessionTypes'
  <2>1. Unanswered \in BOOLEAN
    BY DEF Unanswered
  <2> QED
    BY <1>1, <1>3, <1>4, <2>1 DEF Inv, SessionTypes
<1>7. ~late' => \A q \in Runs : q # p => ~AtWork(q)' /\ ~Pending(q)'
  BY <1>1, <1>3, <1>4, <1>5 DEF AtWork, Pending
<1>8. OnlyLast'
  BY <1>1, <1>7 DEF OnlyLast
<1>9. WorkIsHeld' /\ IdleInBetween'
  BY <1>1, <1>3, <1>7 DEF WorkIsHeld, IdleInBetween
<1> QED
  BY <1>1, <1>2, <1>6, <1>8, <1>9
  DEF Inv, CancelOnce, CancelHasProcess, NeverTrapped, UserTurn

\* Cancel kills the one process at work.
LEMMA CancelKeeps == Inv /\ CancelSimulation => Inv'
<1> SUFFICES ASSUME Inv, CancelSimulation PROVE Inv'
  OBVIOUS
<1>1. /\ app = "open" /\ runningProcess # NoRun /\ Kill({runningProcess})
      /\ runningProcess' = NoRun /\ simulationCancelled' = TRUE
      /\ buttons' = TRUE /\ cancelButton' = FALSE
      /\ UNCHANGED <<app, dialogs, connected, lastRun, late>>
  BY DEF Inv, CancelHasProcess, CancelSimulation, UserTurn, SetAllButtonsEnabled,
         historyVars
<1>2. status \in [Runs -> Statuses] /\ connected \in SUBSET Runs
  BY DEF Inv, SessionTypes
<1>3. /\ status' \in [Runs -> Statuses]
      /\ \A p \in Runs : /\ AtWork(p)' => AtWork(p) /\ p \notin {runningProcess}
                         /\ status'[p] \in Over => status[p] \in Over \/ AtWork(p)
  BY <1>1, <1>2, KillEnds
<1>4. ~late => \A p \in connected : ~AtWork(p)'
  BY <1>1, <1>2, <1>3 DEF Inv, WorkIsHeld
<1>5. SessionTypes'
  BY <1>1, <1>3 DEF Inv, SessionTypes
<1>6. OnlyLast'
  BY <1>1, <1>3 DEF Inv, OnlyLast, Pending
<1>7. WorkIsHeld' /\ IdleInBetween'
  BY <1>1, <1>4 DEF WorkIsHeld, IdleInBetween
<1> QED
  BY <1>1, <1>5, <1>6, <1>7
  DEF Inv, CancelOnce, CancelHasProcess, NeverTrapped, UserTurn

\* With a run answered none is at work; the buttons are back or a dialog is open.
LEMMA AnswerKeeps ==
  ASSUME Inv, NEW p \in Runs, Answers(p),
         \/ FailureReported(p) \/ CancelledAnswered(p)
         \/ SuccessAnswered(p) /\ (ResultsLoaded \/ NoResults \/ Abort("view"))
  PROVE  Inv'
<1>1. UNCHANGED <<lastRun, late>>
  BY DEF FailureReported, CancelledAnswered, SuccessAnswered, historyVars
<1>2. /\ status' \in [Runs -> Statuses] /\ app = "open"
      /\ \A q \in Runs : /\ AtWork(q)' => AtWork(q)
                         /\ status'[q] \in Over => status[q] \in Over
      /\ ~late => \A q \in Runs : ~AtWork(q)'
  BY AnswerEnds
<1>3. CASE NewWindow
  BY <1>1, <1>2, <1>3, NewWindowKeeps
<1>4. CASE UNCHANGED connected
  <2>1. connected \in SUBSET Runs
    BY DEF Inv, SessionTypes
  <2>2. OnlyLast'
    BY <1>1, <1>2, <1>4 DEF Inv, OnlyLast, Pending
  <2>3. WorkIsHeld' /\ IdleInBetween'
    BY <1>1, <1>2, <1>4, <2>1 DEF WorkIsHeld, IdleInBetween
  <2>4. CASE UNCHANGED <<app, inputVars>> /\ dialogs' = Append(dialogs, "failed")
    <3>1. UNCHANGED <<app, inputVars>> /\ dialogs' = Append(dialogs, "failed")
      BY <2>4
    <3>2. dialogs' \in Seq(DialogKinds) /\ dialogs' # <<>>
      <4>1. dialogs \in Seq(DialogKinds) /\ "failed" \in DialogKinds
        BY DEF Inv, SessionTypes, DialogKinds
      <4> QED
        BY <3>1, <4>1, DialogOpened
    <3>3. SessionTypes'
      BY <1>1, <1>2, <1>4, <3>1, <3>2 DEF Inv, SessionTypes, inputVars
    <3> QED
      BY <2>2, <2>3, <3>1, <3>2, <3>3
      DEF Inv, CancelOnce, CancelHasProcess, NeverTrapped, UserTurn, inputVars
  <2>5. CASE CancelledAnswered(p)
    <3>1. /\ simulationCancelled /\ simulationCancelled' = FALSE
          /\ UNCHANGED <<app, buttons, cancelButton, dialogs>>
      BY <2>5 DEF CancelledAnswered
    <3>2. SessionTypes'
      BY <1>1, <1>2, <1>4, <3>1 DEF Inv, SessionTypes
    <3>3. CancelOnce' /\ CancelHasProcess' /\ NeverTrapped'
      BY <3>1 DEF Inv, CancelOnce, CancelHasProcess, NeverTrapped, UserTurn
    <3> QED
      BY <2>2, <2>3, <3>2, <3>3 DEF Inv
  <2>6. CASE ResultsLoaded
    <3>1. /\ buttons' = TRUE /\ cancelButton' = FALSE
          /\ UNCHANGED <<app, dialogs, simulationCancelled>>
      BY <2>6 DEF ResultsLoaded, SetAllButtonsEnabled
    <3>2. SessionTypes'
      BY <1>1, <1>2, <1>4, <3>1 DEF Inv, SessionTypes
    <3> QED
      BY <2>2, <2>3, <3>1, <3>2
      DEF Inv, CancelOnce, CancelHasProcess, NeverTrapped, UserTurn
  <2>7. CASE NoResults
    <3>1. /\ dialogs' = Append(dialogs, "noStates")
          /\ UNCHANGED <<app, buttons, cancelButton, simulationCancelled>>
      BY <2>7 DEF NoResults
    <3>2. dialogs' \in Seq(DialogKinds) /\ dialogs' # <<>>
      <4>1. dialogs \in Seq(DialogKinds) /\ "noStates" \in DialogKinds
        BY DEF Inv, SessionTypes, DialogKinds
      <4> QED
        BY <3>1, <4>1, DialogOpened
    <3>3. SessionTypes'
      BY <1>1, <1>2, <1>4, <3>1, <3>2 DEF Inv, SessionTypes
    <3> QED
      BY <2>2, <2>3, <3>1, <3>2, <3>3
      DEF Inv, CancelOnce, CancelHasProcess, NeverTrapped, UserTurn
  <2>8. CASE NewWindow
    BY <1>3, <2>8
  <2> QED
    BY <2>4, <2>5, <2>6, <2>7, <2>8 DEF FailureReported, Abort
<1> QED
  BY <1>3, <1>4
  DEF FailureReported, CancelledAnswered, ResultsLoaded, NoResults, Abort

\* The invariant is inductive.
LEMMA SessionNextInv == Inv /\ [SessionNext]_sessionVars => Inv'
<1> SUFFICES ASSUME Inv, [SessionNext]_sessionVars PROVE Inv'
  OBVIOUS
<1>1. CASE UNCHANGED sessionVars
  BY <1>1, Kept DEF sessionVars, invVars
<1>2. CASE Close \/ Start \/ ViewAborts
  BY <1>2, WindowStepKeeps
<1>3. CASE Save \/ SetConfig \/ \E c \in Configs : Edit(c)
  BY <1>3, ConfigStepKeeps
<1>4. CASE OpenDialog
  BY <1>4, OpenDialogKeeps
<1>5. CASE CloseFileDialog \/ CloseFailure \/ CloseNoResults \/ ConvertAsmToHex
  BY <1>5, CloseDialogKeeps, ConvertKeeps
<1>6. CASE CancelSimulation
  BY <1>6, CancelKeeps
<1>7. ASSUME NEW p \in Runs,
             \/ ProcessStep(p)
             \/ \E starts \in BOOLEAN, r \in Recordings : ExecuteSimulation(p, starts, r)
             \/ FailureReported(p)
             \/ CancelledAnswered(p)
             \/ SuccessAnswered(p) /\ (ResultsLoaded \/ NoResults \/ Abort("view"))
      PROVE  Inv'
  <2>1. CASE ProcessStep(p)
    BY <2>1, ProcessStepKeeps
  <2>2. CASE \E starts \in BOOLEAN, r \in Recordings : ExecuteSimulation(p, starts, r)
    BY <2>2, ExecuteKeeps, WindowStepKeeps DEF ExecuteSimulation
  <2>3. CASE \/ FailureReported(p) \/ CancelledAnswered(p)
             \/ SuccessAnswered(p) /\ (ResultsLoaded \/ NoResults \/ Abort("view"))
    <3>1. Answers(p)
      BY <2>3 DEF FailureReported, CancelledAnswered, SuccessAnswered
    <3> QED
      BY <2>3, <3>1, AnswerKeeps
  <2> QED
    BY <1>7, <2>1, <2>2, <2>3
<1> QED
  BY <1>1, <1>2, <1>3, <1>4, <1>5, <1>6, <1>7 DEF SessionNext

\* The invariant holds in every behaviour of the session.
LEMMA SessionInv == SessionSpec => []Inv
<1> QED
  BY SessionInitInv, SessionNextInv, PTL DEF SessionSpec

-----------------------------------------------------------------------------
\* Cancel never kills a process that is not there (InputTab.CancelSimulation), for
\* any number of runs, whatever is cancelled, saved, closed or started between.
THEOREM CancelHasProcessHolds == SessionSpec => []CancelHasProcess
<1>1. Inv => CancelHasProcess
  BY DEF Inv
<1> QED
  BY <1>1, SessionInv, PTL

\* The user always has a button to press or a dialog to close
\* (InputTab.SetAllButtonsEnabled).
THEOREM NeverTrappedHolds == SessionSpec => []NeverTrapped
<1>1. Inv => NeverTrapped
  BY DEF Inv
<1> QED
  BY <1>1, SessionInv, PTL

\* Unless it was started too early, the last run is the only one at work
\* (InputTab.ExecuteSimulation).
THEOREM OneAtATimeHolds == SessionSpec => []OneAtATime
<1>1. Inv => OneAtATime
  BY DEF Inv, OnlyLast, OneAtATime, AtWork
<1> QED
  BY <1>1, SessionInv, PTL
-----------------------------------------------------------------------------
(* The interface is a session.                                             *)


\* Drawing the view changes nothing of the session, unless it ends the program.
LEMMA MovingIsSession ==
  ASSUME NEW t, NEW u, MoveTo(t, u)
  PROVE  ViewAborts \/ UNCHANGED sessionVars
BY DEF MoveTo

\* The next cycle, shown by the button or by the timer.
LEMMA IncreaseIsSession ==
  ASSUME IncreaseCycle
  PROVE  ViewAborts \/ UNCHANGED sessionVars
<1>1. CASE slider.value < slider.maximum
  BY <1>1, MovingIsSession DEF IncreaseCycle, StepTo
<1>2. CASE ~(slider.value < slider.maximum)
  BY <1>2 DEF IncreaseCycle, TogglePlayPause
<1> QED
  BY <1>1, <1>2

\* The controls of the tab, and the mouse.
LEMMA TabIsSession == ClickAtTab => ViewAborts \/ UNCHANGED sessionVars
<1> SUFFICES ASSUME ClickAtTab PROVE ViewAborts \/ UNCHANGED sessionVars
  OBVIOUS
<1>1. CASE \E v \in Cycles : MoveSlider(v)
  BY <1>1, MovingIsSession DEF MoveSlider
<1>2. CASE DecreaseCycle
  BY <1>2, MovingIsSession DEF DecreaseCycle, StepTo
<1>3. CASE IncreaseCycle
  BY <1>3, IncreaseIsSession
<1>4. CASE TogglePlayPause
  BY <1>4 DEF TogglePlayPause
<1>5. CASE \E n \in Components \union {NoComponent} : Hover(n)
  BY <1>5 DEF Hover
<1>6. CASE \E n \in Components : Press(n)
  BY <1>6 DEF Press
<1> QED
  BY <1>1, <1>2, <1>3, <1>4, <1>5, <1>6 DEF ClickAtTab

\* The results are loaded, there are none, or loading them ends the program.
LEMMA LoadingIsSession ==
  ASSUME NEW p \in Runs, LoadResults(p)
  PROVE  SuccessAnswered(p) /\ (ResultsLoaded \/ NoResults \/ Abort("view"))
<1>1. CASE GetMaxCycleNumber = 0
  BY <1>1 DEF LoadResults
<1>2. CASE GetMaxCycleNumber # 0 /\ LoadAborts
  BY <1>2 DEF LoadResults
<1>3. CASE GetMaxCycleNumber # 0 /\ ~LoadAborts
  BY <1>3 DEF LoadResults
<1> QED
  BY <1>1, <1>2, <1>3

\* Every step of the interface is one of the session, or none.
LEMMA NextIsSession == [Next]_vars => [SessionNext]_sessionVars
<1> SUFFICES ASSUME [Next]_vars PROVE [SessionNext]_sessionVars
  OBVIOUS
<1>1. CASE UNCHANGED vars
  BY <1>1 DEF vars
<1>2. CASE Elsewhere
  BY <1>2 DEF Elsewhere, SessionNext
<1>3. CASE ClickElsewhere
  BY <1>3 DEF ClickElsewhere, SessionNext
<1>4. CASE SwitchAnyway
  BY <1>4 DEF SwitchAnyway, SessionNext
<1>5. CASE ClickAtTab
  BY <1>5, TabIsSession DEF SessionNext
<1>6. CASE Tick
  BY <1>6, IncreaseIsSession DEF Tick, SessionNext
<1>7. CASE \E p \in Runs : LoadResults(p)
  BY <1>7, LoadingIsSession DEF SessionNext
<1> QED
  BY <1>1, <1>2, <1>3, <1>4, <1>5, <1>6, <1>7 DEF Next

\* The interface implements the session: what the tab draws, and when the timer
\* ticks, never lets it do what the input tab's handlers do not.
THEOREM SessionImplemented == Spec => SessionSpec
<1>1. Init => SessionInit
  BY DEF Init
<1> QED
  BY <1>1, NextIsSession, PTL DEF Spec, SessionSpec

\* What is proved of a session holds of the interface: Cancel has a process to kill,
\* the user can go on, and one run works at a time (InputTab).
THEOREM InterfaceIsSafe == Spec => [](CancelHasProcess /\ NeverTrapped /\ OneAtATime)
BY SessionImplemented, CancelHasProcessHolds, NeverTrappedHolds, OneAtATimeHolds, PTL
-----------------------------------------------------------------------------
(* What is drawn: the flags of the components and the details follow the   *)
(* names the tab keeps.                                                    *)

Drawn(p) ==
  /\ DOMAIN p = DOMAIN FreshPicture
  /\ p.isSelected = [n \in Components |-> n = p.selected]
  /\ p.isHovered = [n \in Components |-> n = p.hovered]

Detailed(p) == p.selected # NoComponent /\ p.state # NoFile => p.details = Details(p)

Right(p) == Drawn(p) /\ Detailed(p)

\* A new window has nothing drawn.
LEMMA FreshIsRight == Right(FreshPicture)
BY ComponentsAssumption DEF Right, Drawn, Detailed, FreshPicture, Nowhere, NoFile

\* Redrawing the components sets every flag again.
LEMMA RedrawnFlags ==
  ASSUME NEW s, NEW p, Drawn(p)
  PROVE  /\ Drawn(UpdateComponentStates(s, p))
         /\ UpdateComponentStates(s, p).state = LoadStateFile(s.value)
         /\ UpdateComponentStates(s, p).selected = p.selected
BY DEF Drawn, UpdateComponentStates, FreshPicture

\* The details are made anew of what was read, or are not looked at.
LEMMA DetailsAreRight == ASSUME NEW p, Drawn(p) PROVE Right(UpdateDetailsDisplay(p))
<1> DEFINE q == UpdateDetailsDisplay(p)
<1>1. /\ DOMAIN q = DOMAIN FreshPicture
      /\ q.details = IF p.selected = NoComponent \/ p.state = NoFile
                     THEN NoDetails ELSE Details(p)
  BY DEF UpdateDetailsDisplay, Drawn, FreshPicture
<1>2. /\ q.selected = p.selected /\ q.hovered = p.hovered
      /\ q.isSelected = p.isSelected /\ q.isHovered = p.isHovered
      /\ q.state = p.state /\ q.previous = p.previous
      /\ q.memory = p.memory /\ q.previousMemory = p.previousMemory
      /\ q.spec = p.spec
  BY DEF UpdateDetailsDisplay, Drawn, FreshPicture
<1> QED
  BY <1>1, <1>2 DEF Right, Drawn, Detailed, Details

\* Drawing the view, for whatever cycle and after whatever was loaded.
LEMMA ViewIsRight ==
  ASSUME NEW s, NEW p, Drawn(p) PROVE Right(UpdateSimulationView(s, p))
<1>1. CASE p.selected = NoComponent \/ LoadStateFile(s.value) = NoFile
  BY <1>1, RedrawnFlags DEF UpdateSimulationView, Right, Detailed
<1>2. CASE ~(p.selected = NoComponent \/ LoadStateFile(s.value) = NoFile)
  BY <1>2, RedrawnFlags, DetailsAreRight DEF UpdateSimulationView
<1> QED
  BY <1>1, <1>2

\* The slider may have moved or not.
LEMMA MovedIsRight ==
  ASSUME NEW s, NEW t, NEW p, Right(p) PROVE Right(Moved(s, t, p))
BY ViewIsRight DEF Moved, Right

\* Loading: the view is drawn twice, with the new configuration.
LEMMA ResultsAreRight == Right(picture) /\ ShowResults => Right(picture')
<1> SUFFICES ASSUME Right(picture), ShowResults PROVE Right(picture')
  OBVIOUS
<1>1. Drawn(WithSpec(picture))
  BY DEF WithSpec, Right, Drawn, FreshPicture
<1>2. PICK loaded : picture' = Moved(loaded, slider', UpdateSimulationView(loaded, WithSpec(picture)))
  BY DEF ShowResults
<1> QED
  BY <1>1, <1>2, ViewIsRight, MovedIsRight

\* The mouse over a component, over none, or gone.
LEMMA HoverIsRight ==
  ASSUME Right(picture), NEW n, Hover(n) PROVE Right(picture')
<1>1. /\ DOMAIN picture' = DOMAIN FreshPicture
      /\ picture'.hovered = n
      /\ picture'.isHovered =
           [c \in Components |-> c = n \/ (c # picture.hovered /\ picture.isHovered[c])]
      /\ picture'.selected = picture.selected /\ picture'.isSelected = picture.isSelected
      /\ picture'.details = picture.details /\ Details(picture)' = Details(picture)
      /\ picture'.state = picture.state
  BY DEF Hover, Right, Drawn, FreshPicture, Details
<1>2. picture'.isHovered = [c \in Components |-> c = n]
  BY <1>1 DEF Right, Drawn
<1> QED
  BY <1>1, <1>2 DEF Right, Drawn, Detailed

\* A click on a component, which ends the program or shows its details.
LEMMA PressIsRight ==
  ASSUME Right(picture), NEW n, Press(n) PROVE Right(picture')
<1> DEFINE q == [picture EXCEPT
                  !.selected = n,
                  !.isSelected = [c \in Components |->
                                    c = n \/ (c # picture.selected /\ @[c])]]
<1>1. CASE FreshView
  BY <1>1, FreshIsRight DEF FreshView
<1>2. CASE picture' = UpdateDetailsDisplay(q)
  <2>1. /\ DOMAIN q = DOMAIN FreshPicture
        /\ q.selected = n
        /\ q.isSelected =
             [c \in Components |-> c = n \/ (c # picture.selected /\ picture.isSelected[c])]
        /\ q.hovered = picture.hovered /\ q.isHovered = picture.isHovered
    BY DEF Right, Drawn, FreshPicture
  <2>2. q.isSelected = [c \in Components |-> c = n]
    BY <2>1 DEF Right, Drawn
  <2>3. Drawn(q)
    BY <2>1, <2>2 DEF Right, Drawn
  <2> QED
    BY <1>2, <2>3, DetailsAreRight
<1> QED
  BY <1>1, <1>2 DEF Press

\* Moving the slider, by whatever means.
LEMMA MoveIsRight ==
  ASSUME Right(picture), NEW t, NEW u, MoveTo(t, u) PROVE Right(picture')
BY FreshIsRight, MovedIsRight DEF MoveTo, FreshView

\* The next cycle, for the button and the timer.
LEMMA IncreaseIsRight ==
  ASSUME Right(picture), IncreaseCycle PROVE Right(picture')
<1>1. CASE slider.value < slider.maximum
  BY <1>1, MoveIsRight DEF IncreaseCycle, StepTo
<1>2. CASE ~(slider.value < slider.maximum)
  BY <1>2 DEF IncreaseCycle, TogglePlayPause
<1> QED
  BY <1>1, <1>2

\* Steps that leave the tab alone or end the program.
LEMMA KeptIsRight == Right(picture) /\ TabKept => Right(picture')
BY FreshIsRight DEF TabKept, FreshView, viewVars

\* Every step of the interface.
LEMMA NextIsRight == Right(picture) /\ [Next]_vars => Right(picture')
<1> SUFFICES ASSUME Right(picture), [Next]_vars PROVE Right(picture')
  OBVIOUS
<1>1. CASE UNCHANGED vars
  BY <1>1 DEF vars, viewVars
<1>2. CASE Elsewhere
  BY <1>2, KeptIsRight DEF Elsewhere
<1>3. CASE ClickElsewhere
  BY <1>3, KeptIsRight DEF ClickElsewhere
<1>4. CASE SwitchAnyway
  BY <1>4, FreshIsRight, MovedIsRight DEF SwitchAnyway, FreshView
<1>5. CASE ClickAtTab
  <2>1. CASE \E v \in Cycles : MoveSlider(v)
    BY <2>1, MoveIsRight DEF MoveSlider
  <2>2. CASE DecreaseCycle
    BY <2>2, MoveIsRight DEF DecreaseCycle, StepTo
  <2>3. CASE IncreaseCycle
    BY <2>3, IncreaseIsRight
  <2>4. CASE TogglePlayPause
    BY <2>4 DEF TogglePlayPause
  <2>5. CASE \E n \in Components \union {NoComponent} : Hover(n)
    BY <2>5, HoverIsRight
  <2>6. CASE \E n \in Components : Press(n)
    BY <2>6, PressIsRight
  <2> QED
    BY <1>5, <2>1, <2>2, <2>3, <2>4, <2>5, <2>6 DEF ClickAtTab
<1>6. CASE Tick
  BY <1>6, IncreaseIsRight DEF Tick
<1>7. CASE \E p \in Runs : LoadResults(p)
  BY <1>7, FreshIsRight, ResultsAreRight DEF LoadResults, FreshView
<1> QED
  BY <1>1, <1>2, <1>3, <1>4, <1>5, <1>6, <1>7 DEF Next

PictureRight == Right(picture)

\* Whatever is drawn is right, always.
LEMMA AlwaysRight == Spec => []PictureRight
<1>1. Init => PictureRight
  BY FreshIsRight DEF Init, PictureRight
<1>2. PictureRight /\ [Next]_vars => PictureRight'
  BY NextIsRight DEF PictureRight
<1> QED
  BY <1>1, <1>2, PTL DEF Spec

\* The border, the shade and the details are those of the component selected and of
\* the one under the mouse, made of the files of the cycle that is drawn and of the
\* configuration of its results, however the mouse, loading and ends of the program
\* alternate.
THEOREM SelectionIsShownHolds == Spec => []SelectionIsShown
<1>1. PictureRight => SelectionIsShown
  BY DEF PictureRight, Right, Drawn, Detailed, SelectionIsShown, Border, Fill
<1> QED
  BY <1>1, AlwaysRight, PTL
-----------------------------------------------------------------------------
(* Types.                                                                  *)

Owners == Runs \union {NoRun}

Apps == {"open", "closed"} \union Exceptions

WindowTypes ==
  /\ app \in Apps
  /\ tabEnabled \in BOOLEAN /\ edited \in BOOLEAN
  /\ runningProcess \in Owners /\ lastRun \in Owners
  /\ currConfig \in Configs /\ inputs \in Configs

ProcessTypes ==
  /\ usedConfig \in [Runs -> Configs] /\ recording \in [Runs -> Recordings]
  /\ written \in [Runs -> Cycles \union {0}]

FileTypes == cpuStates \in [Cycles -> Owners] /\ memories \in [Cycles -> Owners]

SessionTyped == WindowTypes /\ ProcessTypes /\ FileTypes

\* The cycles that are recorded, and those that memory is written for.
CyclesOf(config, r) ==
  IF config.single_state_mode THEN {1, r.last} ELSE 1 .. r.last

MemoryOf(config, r) ==
  IF ~config.single_state_mode THEN r.memory
  ELSE {1} \union IF r.memory = {1} THEN {} ELSE {r.last}

LEMMA RecordedIs ==
  ASSUME NEW p
  PROVE  /\ Recorded(p) = CyclesOf(usedConfig[p], recording[p])
         /\ MemoryWritten(p) = MemoryOf(usedConfig[p], recording[p])
BY DEF Recorded, MemoryWritten, Single, CyclesOf, MemoryOf

\* Memory is written in the first cycle, and only in cycles that are recorded.
LEMMA CyclesAreCycles ==
  ASSUME NEW config, NEW r \in Recordings
  PROVE  /\ r.last \in Cycles /\ r.last > 1 /\ 1 \in Cycles
         /\ CyclesOf(config, r) \subseteq 1 .. r.last
         /\ CyclesOf(config, r) \subseteq Cycles
         /\ 1 \in CyclesOf(config, r) /\ r.last \in CyclesOf(config, r)
         /\ MemoryOf(config, r) \subseteq CyclesOf(config, r)
         /\ 1 \in MemoryOf(config, r)
<1>1. /\ r.last \in 2 .. MaxCycle /\ 1 \in r.memory /\ r.memory \subseteq 1 .. r.last
      /\ MaxCycle \in Nat
  BY RecordingsAssumption
<1>2. /\ r.last \in Cycles /\ r.last > 1 /\ 1 \in Cycles
      /\ 1 .. r.last \subseteq Cycles
  BY <1>1 DEF Cycles
<1>3. {1, r.last} \subseteq 1 .. r.last
  BY <1>1
<1>4. CyclesOf(config, r) \subseteq 1 .. r.last /\ {1, r.last} \subseteq CyclesOf(config, r)
  BY <1>3, Zenon DEF CyclesOf
<1>5. MemoryOf(config, r) \subseteq CyclesOf(config, r) /\ 1 \in MemoryOf(config, r)
  BY <1>1, <1>3, Zenon DEF MemoryOf, CyclesOf
<1> QED
  BY <1>2, <1>4, <1>5

\* The next cycle to write is the least that is recorded and not written.
LEMMA NextIsLeast ==
  ASSUME ProcessTypes, NEW p \in Runs, written[p] < recording[p].last
  PROVE  /\ NextToWrite(p) \in Recorded(p) /\ NextToWrite(p) \in Cycles
         /\ NextToWrite(p) > written[p]
         /\ \A d \in Recorded(p) : d > written[p] => d >= NextToWrite(p)
<1> DEFINE r == recording[p]
<1>1. /\ r \in Recordings /\ written[p] \in Cycles \union {0}
      /\ Recorded(p) = CyclesOf(usedConfig[p], r)
  BY RecordedIs DEF ProcessTypes
<1>2. /\ CyclesOf(usedConfig[p], r) \subseteq Cycles
      /\ r.last \in Cycles /\ r.last > 1
  BY <1>1, CyclesAreCycles
<1>3. written[p] \in Nat /\ r.last \in Nat /\ written[p] < r.last
  BY <1>1, <1>2, RecordingsAssumption DEF Cycles
<1>4. \E c \in Recorded(p) : c > written[p] /\ \A d \in Recorded(p) : d > written[p] => d >= c
  <2>1. CASE usedConfig[p].single_state_mode /\ written[p] = 0
    <3>1. Recorded(p) = {1, r.last}
      BY <1>1, <2>1 DEF CyclesOf
    <3> QED
      BY <1>2, <1>3, <2>1, <3>1
  <2>2. CASE usedConfig[p].single_state_mode /\ written[p] # 0
    <3>1. Recorded(p) = {1, r.last}
      BY <1>1, <2>2 DEF CyclesOf
    <3> QED
      BY <1>2, <1>3, <2>2, <3>1
  <2>3. CASE ~usedConfig[p].single_state_mode
    <3>1. Recorded(p) = 1 .. r.last
      BY <1>1, <2>3 DEF CyclesOf
    <3>2. written[p] + 1 \in Recorded(p)
      BY <1>3, <3>1
    <3> QED
      BY <1>3, <3>1, <3>2
  <2> QED
    BY <2>1, <2>2, <2>3
<1> DEFINE Least(c) == c > written[p] /\ \A d \in Recorded(p) : d > written[p] => d >= c
<1>5. NextToWrite(p) = CHOOSE c \in Recorded(p) : Least(c)
  BY DEF NextToWrite
<1>6. \E c \in Recorded(p) : Least(c)
  BY <1>4
<1>7. NextToWrite(p) \in Recorded(p) /\ Least(NextToWrite(p))
  <2> HIDE DEF Least
  <2> QED
    BY <1>5, <1>6, Zenon
<1> QED
  BY <1>1, <1>2, <1>7

LEMMA SessionInitTyped == SessionInit => SessionTyped
<1> SUFFICES ASSUME SessionInit PROVE SessionTyped
  OBVIOUS
<1>1. WindowTypes
  BY ConfigsAssumption DEF SessionInit, FreshWindow, WindowTypes, Owners, Apps
<1>2. ProcessTypes
  <2>1. (CHOOSE r \in Recordings : TRUE) \in Recordings
    BY RecordingsAssumption, Zenon
  <2> QED
    BY <2>1, ConfigsAssumption DEF SessionInit, ProcessTypes
<1>3. FileTypes
  BY DEF SessionInit, FileTypes, NoFiles, Owners
<1> QED
  BY <1>1, <1>2, <1>3 DEF SessionTyped

\* A new window has the default configuration and no process.
LEMMA NewWindowTyped ==
  WindowTypes /\ NewWindow /\ UNCHANGED <<edited, lastRun>> /\ app' \in Apps
  => WindowTypes'
BY ConfigsAssumption DEF WindowTypes, NewWindow, Owners, SetAllButtonsEnabled

\* What a process does to its own state and to the files.
LEMMA ProcessStepTyped ==
  ASSUME SessionTyped, NEW p \in Runs, ProcessStep(p) PROVE SessionTyped'
<1>1. WindowTypes'
  BY DEF ProcessStep, SessionTyped, WindowTypes, windowVars, inputVars, configVars,
         historyVars
<1>2. CASE WriteCycle(p)
  <2>1. PICK c : /\ c = NextToWrite(p) /\ written' = [written EXCEPT ![p] = c]
                 /\ cpuStates' = [cpuStates EXCEPT ![c] = p]
                 /\ \/ memories' = [memories EXCEPT ![c] = p]
                    \/ memories' = memories
    BY <1>2 DEF WriteCycle
  <2>2. c \in Cycles
    BY <1>2, <2>1, NextIsLeast DEF SessionTyped, WriteCycle
  <2>3. ProcessTypes'
    BY <1>2, <2>1, <2>2 DEF SessionTyped, ProcessTypes, WriteCycle
  <2>4. FileTypes'
    BY <2>1, <2>2 DEF SessionTyped, FileTypes, Owners
  <2> QED
    BY <1>1, <2>3, <2>4 DEF SessionTyped
<1>3. CASE Exits(p) \/ Fails(p) \/ Sticks(p)
  BY <1>1, <1>3
  DEF Exits, Fails, Sticks, ProcessIs, SessionTyped, ProcessTypes, FileTypes
<1> QED
  BY <1>2, <1>3 DEF ProcessStep

LEMMA FilesRemoved == CleanUpSimulationDir => FileTypes'
BY DEF CleanUpSimulationDir, FileTypes, NoFiles, Owners

\* What is left when the directory could not be cleaned up.
LEMMA RestTyped ==
  ASSUME NEW dir \in [Cycles -> Owners], NEW kept PROVE Rest(dir, kept) \in [Cycles -> Owners]
BY DEF Rest, Owners

LEMMA FilesUntouched == FileTypes /\ UNCHANGED fileVars => FileTypes'
BY DEF FileTypes, fileVars

LEMMA ProcessesUntouched == ProcessTypes /\ UNCHANGED <<usedConfig, recording, written>> => ProcessTypes'
BY DEF ProcessTypes

\* Processes that are killed have nothing more to write.
LEMMA KillTyped == ASSUME ProcessTypes, NEW ps, Kill(ps) PROVE ProcessTypes'
BY DEF ProcessTypes, Kill

\* Every exception ends the program with the types it had.
LEMMA AbortTyped ==
  ASSUME SessionTyped, NEW e \in Exceptions, Abort(e), UNCHANGED historyVars PROVE WindowTypes'
BY NewWindowTyped DEF Abort, Apps, historyVars, SessionTyped

LEMMA TextAbortsTyped == ASSUME SessionTyped, TextAborts PROVE SessionTyped'
<1>1. WindowTypes'
  BY AbortTyped DEF TextAborts, Exceptions
<1>2. ProcessTypes' /\ FileTypes'
  BY FilesUntouched, ProcessesUntouched DEF TextAborts, processVars, SessionTyped
<1> QED
  BY <1>1, <1>2 DEF SessionTyped

LEMMA CleanUpAbortsTyped == ASSUME SessionTyped, CleanUpAborts PROVE SessionTyped'
<1>1. WindowTypes'
  BY AbortTyped DEF CleanUpAborts, Exceptions
<1>2. ProcessTypes'
  BY ProcessesUntouched DEF CleanUpAborts, processVars, SessionTyped
<1>3. FileTypes'
  <2>1. PICK kept :
          \/ cpuStates' = Rest(cpuStates, kept) /\ UNCHANGED memories
          \/ cpuStates' = NoFiles /\ memories' = Rest(memories, kept)
    BY DEF CleanUpAborts
  <2>2. NoFiles \in [Cycles -> Owners]
    BY DEF NoFiles, Owners
  <2> QED
    BY <2>1, <2>2, RestTyped DEF FileTypes, SessionTyped
<1> QED
  BY <1>1, <1>2, <1>3 DEF SessionTyped

LEMMA StartedTyped ==
  ASSUME SessionTyped, NEW p \in Runs, NEW starts \in BOOLEAN, NEW r \in Recordings,
         RunStarted(p, starts, r)
  PROVE  SessionTyped'
<1>1. WindowTypes'
  BY DEF SessionTyped, WindowTypes, RunStarted, Owners
<1>2. ProcessTypes'
  BY <1>1 DEF SessionTyped, WindowTypes, ProcessTypes, RunStarted, StartProcess
<1>3. FileTypes'
  BY FilesRemoved DEF RunStarted
<1> QED
  BY <1>1, <1>2, <1>3 DEF SessionTyped

\* The configuration tab.
LEMMA ConfigTyped ==
  SessionTyped /\ (Save \/ SetConfig \/ \E c \in Configs : Edit(c)) => SessionTyped'
<1> SUFFICES ASSUME SessionTyped, Save \/ SetConfig \/ \E c \in Configs : Edit(c)
             PROVE  SessionTyped'
  OBVIOUS
<1>1. ConfigStep
  BY DEF Save, SetConfig, Edit
<1>2. ProcessTypes' /\ FileTypes'
  BY <1>1, FilesUntouched, ProcessesUntouched
  DEF ConfigStep, processVars, SessionTyped
<1>3. currConfig' \in Configs /\ inputs' \in Configs /\ edited' \in BOOLEAN
  BY ConfigsAssumption DEF Save, SetConfig, Edit, SessionTyped, WindowTypes
<1>4. WindowTypes'
  BY <1>1, <1>3 DEF SessionTyped, WindowTypes, ConfigStep, inputVars
<1> QED
  BY <1>2, <1>4 DEF SessionTyped

\* The steps of the window that start and kill nothing and write no files.
LEMMA WindowStepTyped ==
  ASSUME SessionTyped, ~TextAborts, ~CleanUpAborts,
         \/ Close \/ Start \/ ViewAborts \/ ConvertAsmToHex
         \/ OpenDialog \/ CloseFileDialog \/ CloseFailure \/ CloseNoResults
         \/ CancelSimulation
         \/ \E p \in Runs : \/ FailureReported(p) \/ CancelledAnswered(p)
                            \/ SuccessAnswered(p) /\ (ResultsLoaded \/ NoResults \/ Abort("view"))
  PROVE  SessionTyped'
<1>1. UNCHANGED historyVars
  BY DEF Close, Start, ViewAborts, ConvertAsmToHex, OpenDialog, CloseFileDialog,
         CloseFailure, CloseNoResults, CancelSimulation, FailureReported, CancelledAnswered,
         SuccessAnswered
<1>2. \/ NewWindow /\ app' \in Apps
      \/ /\ UNCHANGED <<app, configVars>>
         /\ tabEnabled' \in {tabEnabled, TRUE, FALSE}
         /\ runningProcess' \in {runningProcess, NoRun}
  BY DEF Close, Start, ViewAborts, ConvertAsmToHex, OpenDialog, CloseFileDialog,
         CloseFailure, CloseNoResults, CancelSimulation, FailureReported, CancelledAnswered,
         ResultsLoaded, NoResults, Abort, Apps, Exceptions, inputVars
<1>3. WindowTypes'
  <2>1. UNCHANGED <<edited, lastRun>>
    BY <1>1 DEF historyVars
  <2>2. CASE NewWindow /\ app' \in Apps
    BY <2>1, <2>2, NewWindowTyped DEF SessionTyped
  <2>3. CASE /\ UNCHANGED <<app, configVars>>
             /\ tabEnabled' \in {tabEnabled, TRUE, FALSE}
             /\ runningProcess' \in {runningProcess, NoRun}
    <3>1. tabEnabled' \in BOOLEAN
      BY <2>3, Zenon DEF SessionTyped, WindowTypes
    <3> QED
      BY <2>1, <2>3, <3>1 DEF SessionTyped, WindowTypes, configVars, Owners
  <2> QED
    BY <1>2, <2>2, <2>3
<1>4. ProcessTypes'
  <2>1. CASE UNCHANGED <<usedConfig, recording, written>>
    BY <2>1, ProcessesUntouched DEF SessionTyped
  <2>2. CASE \E ps : Kill(ps)
    BY <2>2, KillTyped DEF SessionTyped
  <2> QED
    BY <2>1, <2>2
    DEF Close, Start, ViewAborts, ConvertAsmToHex, OpenDialog, CloseFileDialog,
        CloseFailure, CloseNoResults, CancelSimulation, FailureReported, CancelledAnswered,
        SuccessAnswered, Answers, processVars
<1>5. FileTypes'
  <2>1. CASE UNCHANGED fileVars
    BY <2>1, FilesUntouched DEF SessionTyped
  <2>2. CASE CleanUpSimulationDir
    BY <2>2, FilesRemoved
  <2> QED
    BY <2>1, <2>2
    DEF Close, Start, ViewAborts, ConvertAsmToHex, OpenDialog, CloseFileDialog,
        CloseFailure, CloseNoResults, CancelSimulation, FailureReported, CancelledAnswered,
        SuccessAnswered, fileVars
<1> QED
  BY <1>3, <1>4, <1>5 DEF SessionTyped

\* Every step keeps the types.
LEMMA SessionNextTyped == SessionTyped /\ [SessionNext]_sessionVars => SessionTyped'
<1> SUFFICES ASSUME SessionTyped, [SessionNext]_sessionVars PROVE SessionTyped'
  OBVIOUS
<1>1. CASE UNCHANGED sessionVars
  BY <1>1
  DEF sessionVars, SessionTyped, WindowTypes, ProcessTypes, FileTypes
<1>2. CASE Save \/ SetConfig \/ \E c \in Configs : Edit(c)
  BY <1>2, ConfigTyped
<1>3. ASSUME NEW p \in Runs, ProcessStep(p) PROVE SessionTyped'
  BY <1>3, ProcessStepTyped
<1>4. ASSUME NEW p \in Runs,
             \E starts \in BOOLEAN, r \in Recordings : ExecuteSimulation(p, starts, r)
      PROVE  SessionTyped'
  BY <1>4, StartedTyped, TextAbortsTyped, CleanUpAbortsTyped DEF ExecuteSimulation
<1>5. CASE \/ Close \/ Start \/ ViewAborts \/ ConvertAsmToHex
           \/ OpenDialog \/ CloseFileDialog \/ CloseFailure \/ CloseNoResults
           \/ CancelSimulation
           \/ \E p \in Runs : \/ FailureReported(p) \/ CancelledAnswered(p)
                              \/ SuccessAnswered(p) /\ (ResultsLoaded \/ NoResults \/ Abort("view"))
  BY <1>5, WindowStepTyped, TextAbortsTyped, CleanUpAbortsTyped
<1> QED
  BY <1>1, <1>2, <1>3, <1>4, <1>5 DEF SessionNext
-----------------------------------------------------------------------------
(* What the last run leaves in the directory, as long as no earlier one    *)
(* was unanswered when it was started.                                     *)

\* The window that is open has started the last run.
OfWindow == app = "open" /\ ~late /\ lastRun \in connected

\* It has ended as it should, or may still.
Recorder == status[lastRun] \in {"running", "exited"}

\* Only a process at work has written something it will go on from.
WrittenAtWork == \A p \in Runs : status[p] # "running" => written[p] = 0

\* The tab is enabled once the last run is answered.
EnabledIsAnswered ==
  app = "open" /\ ~late /\ tabEnabled => lastRun \in connected /\ status[lastRun] = "done"

\* A dialog never says that there are no results, and that a run has failed only of
\* the last one.
DialogsAreOfLast ==
  app = "open" /\ ~late =>
    \A i \in DOMAIN dialogs :
      /\ dialogs[i] # "noStates"
      /\ dialogs[i] = "failed" => status[lastRun] = "done" /\ ~tabEnabled

\* Until the last run is answered, or cancelled, the tab waits for it, and a
\* configuration that is saved is noticed.
LastIsAwaited ==
  OfWindow /\ Recorder /\ ~simulationCancelled =>
    /\ cancelButton /\ ~buttons /\ dialogs = <<>>
    /\ ~edited => currConfig = usedConfig[lastRun]

\* What a run p has left in the directory when it has written the files of the cycles
\* up to n, and nothing else is there.
LeftBy(p, config, r, n, states, memory) ==
  /\ states = [c \in Cycles |-> IF c \in CyclesOf(config, r) /\ c <= n THEN p ELSE NoRun]
  /\ memory = [c \in Cycles |-> IF c \in MemoryOf(config, r) /\ c <= n THEN p ELSE NoRun]

Progress == IF status[lastRun] = "running" THEN written[lastRun] ELSE recording[lastRun].last

FilesAreOfLast ==
  OfWindow /\ (Recorder \/ tabEnabled) =>
    LeftBy(lastRun, usedConfig[lastRun], recording[lastRun], Progress, cpuStates, memories)

LastInv ==
  /\ Inv /\ SessionTyped
  /\ WrittenAtWork /\ EnabledIsAnswered /\ DialogsAreOfLast /\ LastIsAwaited /\ FilesAreOfLast

LastRules ==
  EnabledIsAnswered /\ DialogsAreOfLast /\ LastIsAwaited /\ FilesAreOfLast

-----------------------------------------------------------------------------
(* The files.                                                              *)

\* Writing the next cycle.
LEMMA LeftByNext ==
  ASSUME ProcessTypes, NEW p \in Runs, WriteCycle(p),
         LeftBy(p, usedConfig[p], recording[p], written[p], cpuStates, memories)
  PROVE  LeftBy(p, usedConfig[p], recording[p], written'[p], cpuStates', memories')
<1> DEFINE rec == CyclesOf(usedConfig[p], recording[p])
           mem == MemoryOf(usedConfig[p], recording[p])
           n == written[p]
           c == NextToWrite(p)
<1>1. /\ written' = [written EXCEPT ![p] = c]
      /\ cpuStates' = [cpuStates EXCEPT ![c] = p]
      /\ memories' = IF c \in mem THEN [memories EXCEPT ![c] = p] ELSE memories
      /\ written[p] < recording[p].last
  BY RecordedIs DEF WriteCycle
<1>2. /\ c \in rec /\ c \in Cycles /\ c > n
      /\ \A d \in rec : d > n => d >= c
  BY <1>1, NextIsLeast, RecordedIs
<1>3. mem \subseteq rec /\ rec \subseteq Cycles
  BY CyclesAreCycles DEF ProcessTypes
<1>4. n \in Int /\ Cycles \subseteq Int /\ written'[p] = c
  BY <1>1 DEF ProcessTypes, Cycles
<1> HIDE DEF rec, mem, n, c
<1>5. \A d \in Cycles : /\ d \in rec /\ d <= c <=> (d \in rec /\ d <= n) \/ d = c
                        /\ d \in mem /\ d <= c <=> (d \in mem /\ d <= n) \/ (d = c /\ c \in mem)
  BY <1>2, <1>3, <1>4
<1>6. cpuStates = [d \in Cycles |-> IF d \in rec /\ d <= n THEN p ELSE NoRun]
  BY DEF LeftBy, rec, n
<1>7. memories = [d \in Cycles |-> IF d \in mem /\ d <= n THEN p ELSE NoRun]
  BY DEF LeftBy, mem, n
<1>8. cpuStates' = [d \in Cycles |-> IF d \in rec /\ d <= c THEN p ELSE NoRun]
  BY <1>1, <1>2, <1>5, <1>6
<1>9. memories' = [d \in Cycles |-> IF d \in mem /\ d <= c THEN p ELSE NoRun]
  BY <1>1, <1>2, <1>5, <1>7
<1> QED
  BY <1>4, <1>8, <1>9 DEF LeftBy, rec, mem

\* Nothing has been written.
LEMMA LeftByNone ==
  ASSUME NEW p, NEW config, NEW r \in Recordings
  PROVE  LeftBy(p, config, r, 0, NoFiles, NoFiles)
<1>1. \A c \in Cycles : ~(c <= 0)
  BY DEF Cycles
<1> QED
  BY <1>1 DEF LeftBy, NoFiles

-----------------------------------------------------------------------------
(* Every step keeps the rules.                                             *)

\* A new window.
LEMMA NewWindowLast == NewWindow => LastRules'
BY DEF NewWindow, LastRules, EnabledIsAnswered, DialogsAreOfLast, LastIsAwaited,
       FilesAreOfLast, OfWindow

\* With an earlier run unanswered, or no window, nothing is claimed.
LEMMA LateLast == late' \/ app' # "open" => LastRules'
BY DEF LastRules, EnabledIsAnswered, DialogsAreOfLast, LastIsAwaited, FilesAreOfLast,
       OfWindow

\* An exception leaves no window.
LEMMA AbortLast ==
  TextAborts \/ CleanUpAborts \/ ViewAborts \/ (\E e \in Exceptions : Abort(e)) => LastRules'
BY NewWindowLast DEF TextAborts, CleanUpAborts, ViewAborts, Abort

\* Processes write, and end.
LEMMA ProcessStepLast ==
  ASSUME LastInv, NEW p \in Runs, ProcessStep(p) PROVE LastRules'
<1>1. UNCHANGED <<windowVars, historyVars>> /\ UNCHANGED <<usedConfig, recording>>
  BY DEF ProcessStep, WriteCycle, Exits, Fails, Sticks, ProcessIs
<1>2. UNCHANGED <<app, tabEnabled, dialogs, connected, buttons, cancelButton,
                  simulationCancelled, currConfig, lastRun, late, edited,
                  usedConfig, recording>>
  BY <1>1 DEF windowVars, inputVars, configVars, historyVars
<1>3. status[p] = "running"
  BY DEF ProcessStep, WriteCycle, Exits, Fails, Sticks, ProcessIs
<1>4. CASE app = "open" /\ ~late
  <2>1. p = lastRun
    BY <1>3, <1>4 DEF LastInv, Inv, OnlyLast, AtWork, Working
  <2>2. ~tabEnabled /\ \A i \in DOMAIN dialogs : dialogs[i] \notin {"noStates", "failed"}
    BY <1>3, <1>4, <2>1 DEF LastInv, EnabledIsAnswered, DialogsAreOfLast
  <2>3. EnabledIsAnswered' /\ DialogsAreOfLast'
    BY <1>2, <2>2 DEF EnabledIsAnswered, DialogsAreOfLast
  <2>4. LastIsAwaited'
    BY <1>2, <1>3, <2>1 DEF LastInv, LastIsAwaited, OfWindow, Recorder
  <2>5. ProcessTypes /\ status \in [Runs -> Statuses]
    BY DEF LastInv, SessionTyped, Inv, SessionTypes
  <2>6. ASSUME lastRun \in connected, Recorder' PROVE FilesAreOfLast'
    <3>1. LeftBy(p, usedConfig[p], recording[p], written[p], cpuStates, memories)
      BY <1>3, <1>4, <2>1, <2>6 DEF LastInv, FilesAreOfLast, OfWindow, Recorder, Progress
    <3>2. CASE WriteCycle(p)
      <4>1. LeftBy(p, usedConfig[p], recording[p], written'[p], cpuStates', memories')
        BY <2>5, <3>1, <3>2, LeftByNext
      <4>2. status'[p] = "running"
        BY <1>3, <3>2 DEF WriteCycle
      <4> QED
        BY <1>2, <2>1, <4>1, <4>2 DEF FilesAreOfLast, Progress
    <3>3. CASE Exits(p)
      <4>1. written[p] = recording[p].last /\ UNCHANGED <<cpuStates, memories>>
        BY <3>3 DEF Exits, ProcessIs
      <4>2. status'[p] = "exited"
        BY <2>5, <3>3 DEF Exits, ProcessIs
      <4> QED
        BY <1>2, <2>1, <3>1, <4>1, <4>2 DEF FilesAreOfLast, Progress
    <3>4. CASE Fails(p) \/ Sticks(p)
      <4>1. status'[p] \in {"failed", "stuck"}
        BY <2>5, <3>4 DEF Fails, Sticks, ProcessIs
      <4> QED
        BY <1>2, <2>1, <2>6, <4>1 DEF Recorder
    <3> QED
      BY <3>2, <3>3, <3>4 DEF ProcessStep
  <2>7. FilesAreOfLast'
    BY <1>2, <2>2, <2>6 DEF FilesAreOfLast, OfWindow
  <2> QED
    BY <2>3, <2>4, <2>7 DEF LastRules
<1>5. CASE ~(app = "open" /\ ~late)
  BY <1>2, <1>5, LateLast
<1> QED
  BY <1>4, <1>5

\* The configuration tab: what is saved while a run is awaited is noticed.
LEMMA ConfigLast ==
  LastInv /\ (Save \/ SetConfig \/ \E c \in Configs : Edit(c)) => LastRules'
<1> SUFFICES ASSUME LastInv, Save \/ SetConfig \/ \E c \in Configs : Edit(c)
             PROVE  LastRules'
  OBVIOUS
<1>1. UNCHANGED <<app, tabEnabled, dialogs, connected, buttons, cancelButton,
                  simulationCancelled, lastRun, late, status, usedConfig, recording,
                  written, cpuStates, memories>>
  BY DEF Save, SetConfig, Edit, ConfigStep, inputVars, processVars, fileVars
<1>2. cancelButton /\ ~edited' => ~edited /\ currConfig' = currConfig
  <2>1. CASE Save
    BY <2>1, Zenon DEF Save, UnderWay
  <2>2. CASE SetConfig
    BY <2>2, Zenon DEF SetConfig, UnderWay
  <2>3. CASE \E c \in Configs : Edit(c)
    BY <2>3 DEF Edit
  <2> QED
    BY <2>1, <2>2, <2>3
<1>3. LastIsAwaited'
  BY <1>1, <1>2 DEF LastInv, LastIsAwaited, OfWindow, Recorder
<1>4. EnabledIsAnswered' /\ DialogsAreOfLast' /\ FilesAreOfLast'
  BY <1>1
  DEF LastInv, EnabledIsAnswered, DialogsAreOfLast, FilesAreOfLast, OfWindow, Recorder,
      Progress
<1> QED
  BY <1>3, <1>4 DEF LastRules

\* The dialogs left when the one on top is closed.
LEMMA FrontIs ==
  ASSUME NEW s \in Seq(DialogKinds), s # <<>>
  PROVE  \A i \in DOMAIN Front(s) : i \in DOMAIN s /\ Front(s)[i] = s[i]
BY DEF Front

\* Files are opened, saved and assembled while no run is awaited.
LEMMA FileDialogLast ==
  LastInv /\ (OpenDialog \/ CloseFileDialog \/ ConvertAsmToHex) => LastRules'
<1> SUFFICES ASSUME LastInv, OpenDialog \/ CloseFileDialog \/ ConvertAsmToHex
             PROVE  LastRules'
  OBVIOUS
<1>1. CASE TextAborts
  BY <1>1, AbortLast
<1>2. CASE ~TextAborts
  <2>1. /\ buttons \/ dialogs # <<>>
        /\ UNCHANGED <<app, tabEnabled, connected, simulationCancelled, currConfig,
                       lastRun, late, edited, status, usedConfig, recording, written,
                       cpuStates, memories>>
    BY <1>2 DEF OpenDialog, CloseFileDialog, ConvertAsmToHex, Top, configVars, processVars,
                fileVars, historyVars
  <2>2. dialogs \in Seq(DialogKinds)
    BY DEF LastInv, Inv, SessionTypes
  <2>3. \A i \in DOMAIN dialogs' : \/ dialogs'[i] = "file"
                                   \/ i \in DOMAIN dialogs /\ dialogs'[i] = dialogs[i]
    <3>1. CASE OpenDialog
      <4>1. dialogs' = Append(dialogs, "file")
        BY <3>1 DEF OpenDialog
      <4> HIDE DEF DialogKinds
      <4> QED
        BY <2>2, <4>1
    <3>2. CASE CloseFileDialog
      BY <1>2, <2>2, <3>2, FrontIs DEF CloseFileDialog, Top
    <3>3. CASE ConvertAsmToHex
      BY <1>2, <3>3 DEF ConvertAsmToHex
    <3> QED
      BY <3>1, <3>2, <3>3
  <2>4. EnabledIsAnswered' /\ FilesAreOfLast'
    BY <2>1 DEF LastInv, EnabledIsAnswered, FilesAreOfLast, OfWindow, Recorder, Progress
  <2>5. DialogsAreOfLast'
    BY <2>1, <2>3 DEF LastInv, DialogsAreOfLast
  <2>6. LastIsAwaited'
    BY <2>1 DEF LastInv, LastIsAwaited, OfWindow, Recorder
  <2> QED
    BY <2>4, <2>5, <2>6 DEF LastRules
<1> QED
  BY <1>1, <1>2

\* Closing the report of a failure removes what it left, and disables the tab.
LEMMA FailureLast == LastInv /\ CloseFailure => LastRules'
<1> SUFFICES ASSUME LastInv, CloseFailure, ~CleanUpAborts PROVE LastRules'
  BY AbortLast
<1>1. /\ dialogs # <<>> /\ dialogs[Len(dialogs)] = "failed"
      /\ dialogs' = Front(dialogs) /\ tabEnabled' = FALSE /\ app = "open"
      /\ UNCHANGED <<app, connected, simulationCancelled, lastRun, late, status>>
  BY DEF CloseFailure, Top, processVars, historyVars
<1>2. dialogs \in Seq(DialogKinds)
  BY DEF LastInv, Inv, SessionTypes
<1>3. ~late => status[lastRun] = "done"
  <2>1. Len(dialogs) \in DOMAIN dialogs
    BY <1>1, <1>2
  <2> QED
    BY <1>1, <2>1 DEF LastInv, DialogsAreOfLast
<1>4. EnabledIsAnswered' /\ LastIsAwaited' /\ FilesAreOfLast'
  BY <1>1, <1>3 DEF EnabledIsAnswered, LastIsAwaited, FilesAreOfLast, OfWindow, Recorder
<1>5. DialogsAreOfLast'
  BY <1>1, <1>2, FrontIs DEF LastInv, DialogsAreOfLast
<1> QED
  BY <1>4, <1>5 DEF LastRules

\* The message that there are no results is open only after an early start.
LEMMA NoStatesIsLate == LastInv /\ Top("noStates") => late
<1> SUFFICES ASSUME LastInv, Top("noStates") PROVE late
  OBVIOUS
<1>1. dialogs \in Seq(DialogKinds) /\ dialogs # <<>>
  BY DEF LastInv, Inv, SessionTypes, Top
<1>2. Len(dialogs) \in DOMAIN dialogs
  BY <1>1
<1> QED
  BY <1>2 DEF Top, LastInv, DialogsAreOfLast

\* Cancel kills the process at work; one that is over is answered as it is.
LEMMA CancelLast == LastInv /\ CancelSimulation => LastRules'
<1> SUFFICES ASSUME LastInv, CancelSimulation PROVE LastRules'
  OBVIOUS
<1>1. /\ app = "open" /\ Kill({runningProcess}) /\ simulationCancelled' = TRUE
      /\ UNCHANGED <<app, tabEnabled, dialogs, connected, lastRun, late, edited,
                     currConfig, usedConfig, recording, cpuStates, memories>>
  BY DEF LastInv, Inv, CancelHasProcess, CancelSimulation, UserTurn, Kill, configVars,
         fileVars, historyVars
<1>2. connected \in SUBSET Runs /\ "done" \notin Working
  BY DEF LastInv, Inv, SessionTypes, Working
<1>3. ~late /\ lastRun \in connected /\ status[lastRun] \in Working =>
        status'[lastRun] = "killed"
  BY <1>1, <1>2 DEF LastInv, Inv, WorkIsHeld, AtWork, Kill
<1>4. lastRun \in connected /\ status[lastRun] \notin Working =>
        status'[lastRun] = status[lastRun]
  BY <1>1, <1>2 DEF Kill
<1>5. LastIsAwaited'
  BY <1>1 DEF LastIsAwaited
<1>6. EnabledIsAnswered'
  BY <1>1, <1>2, <1>4 DEF LastInv, EnabledIsAnswered
<1>7. DialogsAreOfLast'
  <2>1. \A p \in Runs : status[p] = "done" => status'[p] = "done"
    BY <1>1, <1>2 DEF Kill
  <2>2. CASE lastRun \in Runs
    BY <1>1, <2>1, <2>2 DEF LastInv, DialogsAreOfLast
  <2>3. CASE lastRun \notin Runs
    <3>1. ~late => dialogs = <<>>
      BY DEF CancelSimulation, UserTurn
    <3> QED
      BY <1>1, <3>1 DEF DialogsAreOfLast
  <2> QED
    BY <2>2, <2>3
<1>8. FilesAreOfLast'
  <2> SUFFICES ASSUME OfWindow', Recorder' \/ tabEnabled' PROVE FilesAreOfLast'
    BY DEF FilesAreOfLast
  <2>1. OfWindow /\ status[lastRun] \notin Working
    <3>1. OfWindow
      BY <1>1 DEF OfWindow
    <3>2. CASE tabEnabled
      BY <1>2, <3>1, <3>2 DEF LastInv, EnabledIsAnswered, OfWindow
    <3>3. CASE Recorder'
      BY <1>1, <1>3, <3>1, <3>3 DEF Recorder, OfWindow
    <3> QED
      BY <1>1, <3>1, <3>2, <3>3
  <2>2. status'[lastRun] = status[lastRun] /\ status[lastRun] # "running"
    BY <1>4, <2>1 DEF OfWindow, Working
  <2> QED
    BY <1>1, <2>1, <2>2 DEF LastInv, FilesAreOfLast, Recorder, Progress
<1> QED
  BY <1>5, <1>6, <1>7, <1>8 DEF LastRules

\* A run is started in a directory that has been emptied, with the configuration saved.
LEMMA ExecuteLast ==
  ASSUME LastInv, NEW p \in Runs, NEW starts \in BOOLEAN, NEW r \in Recordings,
         UserTurn, status[p] = "unused", RunStarted(p, starts, r)
  PROVE  LastRules'
<1>1. /\ dialogs' = <<>> /\ tabEnabled' = FALSE /\ buttons' = FALSE /\ cancelButton' = TRUE
      /\ cpuStates' = NoFiles /\ memories' = NoFiles
      /\ lastRun' = p /\ currConfig' = inputs /\ written' = written
      /\ usedConfig' = [usedConfig EXCEPT ![p] = currConfig']
      /\ recording' = [recording EXCEPT ![p] = r]
      /\ status' = [status EXCEPT ![p] = IF starts THEN "running" ELSE "absent"]
      /\ status[p] = "unused"
  BY DEF RunStarted, StartProcess, SetAllButtonsEnabled, CleanUpSimulationDir, UserTurn
<1>2. /\ status \in [Runs -> Statuses] /\ usedConfig \in [Runs -> Configs]
      /\ recording \in [Runs -> Recordings]
  BY DEF LastInv, Inv, SessionTypes, SessionTyped, ProcessTypes
<1>3. EnabledIsAnswered' /\ DialogsAreOfLast'
  BY <1>1 DEF EnabledIsAnswered, DialogsAreOfLast
<1>4. LastIsAwaited'
  BY <1>1, <1>2 DEF LastIsAwaited
<1>5. FilesAreOfLast'
  <2> SUFFICES ASSUME Recorder' PROVE FilesAreOfLast'
    BY <1>1 DEF FilesAreOfLast
  <2>1. status'[p] = "running" /\ written'[p] = 0
    BY <1>1, <1>2 DEF Recorder, LastInv, WrittenAtWork
  <2>2. LeftBy(p, usedConfig'[p], r, 0, NoFiles, NoFiles)
    BY LeftByNone
  <2>3. recording'[p] = r
    BY <1>1, <1>2
  <2> QED
    BY <1>1, <2>1, <2>2, <2>3 DEF FilesAreOfLast, Progress
<1> QED
  BY <1>3, <1>4, <1>5 DEF LastRules

\* An answer is the last run's, unless it comes after an early start.
LEMMA AnswerIsOfLast ==
  ASSUME LastInv, NEW p \in Runs, Answers(p)
  PROVE  /\ ~late => p = lastRun /\ OfWindow
         /\ ~late => ~tabEnabled /\ \A i \in DOMAIN dialogs : dialogs[i] = "file"
         /\ status'[p] = "done"
<1>1. ~late => p = lastRun /\ OfWindow
  BY DEF LastInv, Inv, OnlyLast, Pending, Answers, OfWindow
<1>2. status[p] # "done" /\ app = "open"
  BY DEF Answers, Over
<1>3. ~late => ~tabEnabled
  BY <1>1, <1>2 DEF LastInv, EnabledIsAnswered
<1>4. ~late => \A i \in DOMAIN dialogs : dialogs[i] = "file"
  <2>1. \A i \in DOMAIN dialogs : dialogs[i] \in DialogKinds
    BY DEF LastInv, Inv, SessionTypes
  <2> QED
    BY <1>1, <1>2, <2>1 DEF LastInv, DialogsAreOfLast, DialogKinds
<1>5. status'[p] = "done"
  BY DEF Answers, LastInv, Inv, SessionTypes
<1> QED
  BY <1>1, <1>3, <1>4, <1>5

\* With a failure or a cancelled run answered there is nothing to show.
LEMMA AnswerLast ==
  ASSUME LastInv, NEW p \in Runs, FailureReported(p) \/ CancelledAnswered(p),
         ~Abort("text")
  PROVE  LastRules'
<1>1. /\ Answers(p)
      /\ UNCHANGED <<app, tabEnabled, connected, lastRun, late>>
      /\ dialogs' = dialogs \/ dialogs' = Append(dialogs, "failed")
  BY DEF FailureReported, CancelledAnswered, historyVars
<1>2. CASE ~late
  <2>1. /\ p = lastRun /\ ~tabEnabled /\ status'[p] = "done"
        /\ \A i \in DOMAIN dialogs : dialogs[i] = "file"
    BY <1>1, <1>2, AnswerIsOfLast
  <2>2. EnabledIsAnswered' /\ LastIsAwaited' /\ FilesAreOfLast'
    BY <1>1, <2>1 DEF EnabledIsAnswered, LastIsAwaited, FilesAreOfLast, Recorder
  <2>3. \A i \in DOMAIN dialogs' : dialogs'[i] \in {"file", "failed"}
    <3>1. dialogs \in Seq(DialogKinds)
      BY DEF LastInv, Inv, SessionTypes
    <3> HIDE DEF DialogKinds
    <3> QED
      BY <1>1, <2>1, <3>1
  <2>4. DialogsAreOfLast'
    BY <1>1, <2>1, <2>3 DEF DialogsAreOfLast
  <2> QED
    BY <2>2, <2>4 DEF LastRules
<1>3. CASE late
  BY <1>1, <1>3, LateLast
<1> QED
  BY <1>2, <1>3

\* The last run has succeeded: what is in the directory is what it recorded, all of it,
\* and the configuration is the one it used unless another was saved.
LEMMA SuccessIsOfLast ==
  ASSUME LastInv, NEW p \in Runs, SuccessAnswered(p), ~late
  PROVE  /\ p = lastRun /\ OfWindow
         /\ LeftBy(p, usedConfig[p], recording[p], recording[p].last, cpuStates, memories)
         /\ ~edited => currConfig = usedConfig[p]
         /\ dialogs = <<>> /\ ~tabEnabled /\ status'[p] = "done"
<1>1. Answers(p) /\ status[p] = "exited" /\ ~simulationCancelled
  BY DEF SuccessAnswered, ExitCode
<1>2. p = lastRun /\ OfWindow /\ ~tabEnabled /\ status'[p] = "done"
  BY <1>1, AnswerIsOfLast
<1>3. Recorder
  BY <1>1, <1>2 DEF Recorder
<1> QED
  BY <1>1, <1>2, <1>3 DEF LastInv, LastIsAwaited, FilesAreOfLast, Progress

\* The results are loaded.
LEMMA LoadedLast ==
  ASSUME LastInv, NEW p \in Runs, SuccessAnswered(p), ResultsLoaded
  PROVE  LastRules'
<1>1. /\ UNCHANGED <<app, dialogs, connected, lastRun, late, usedConfig, recording,
                     cpuStates, memories>>
  BY DEF SuccessAnswered, Answers, ResultsLoaded, historyVars, fileVars
<1>2. CASE ~late
  <2>1. /\ p = lastRun /\ lastRun \in connected /\ status'[p] = "done" /\ dialogs = <<>>
        /\ LeftBy(p, usedConfig[p], recording[p], recording[p].last, cpuStates, memories)
    BY <1>2, SuccessIsOfLast DEF OfWindow
  <2>2. EnabledIsAnswered' /\ DialogsAreOfLast' /\ LastIsAwaited'
    BY <1>1, <2>1 DEF EnabledIsAnswered, DialogsAreOfLast, LastIsAwaited, Recorder
  <2>3. FilesAreOfLast'
    BY <1>1, <2>1 DEF FilesAreOfLast, Progress
  <2> QED
    BY <2>2, <2>3 DEF LastRules
<1>3. CASE late
  BY <1>1, <1>3, LateLast
<1> QED
  BY <1>2, <1>3
-----------------------------------------------------------------------------
(* Greatest elements.                                                      *)

\* A set of numbers that is not empty has a least element: the order on numbers is
\* well-founded.
LEMMA LeastNatural ==
  ASSUME NEW T, T \subseteq Nat, T # {}
  PROVE  \E x \in T : \A y \in T : x <= y
<1> DEFINE R == {ss \in Nat \X Nat : ss[1] < ss[2]}
<1>1. R = OpToRel(<, Nat)
  BY DEF OpToRel
<1>2. IsWellFoundedOn(R, Nat)
  BY <1>1, NatLessThanWellFounded
<1>3. \E x \in T : \A y \in T : <<y, x>> \notin R
  <2> HIDE DEF R
  <2> QED
    BY <1>2, WFMin
<1>4. ASSUME NEW x \in T, NEW y \in T, <<y, x>> \notin R PROVE x <= y
  <2>1. x \in Nat /\ y \in Nat
    OBVIOUS
  <2>2. ~(y < x)
    BY <1>4, <2>1
  <2> QED
    BY <2>1, <2>2
<1> QED
  <2> HIDE DEF R
  <2> QED
    BY <1>3, <1>4

\* One that is bounded has a greatest, which Max gives.
LEMMA MaxIsGreatest ==
  ASSUME NEW n \in Nat, NEW S, S \subseteq 0 .. n, S # {}
  PROVE  Max(S) \in S /\ \A y \in S : Max(S) >= y
<1> DEFINE T == {n - x : x \in S}
           Greatest(x) == \A y \in S : x >= y
<1>1. \A x \in S : x \in Int /\ n - x \in Nat
  OBVIOUS
<1>2. (\A t \in T : \E x \in S : t = n - x) /\ \A x \in S : n - x \in T
  OBVIOUS
<1>3. PICK x \in S : \A u \in T : n - x <= u
  <2> HIDE DEF T
  <2>1. T \subseteq Nat /\ T # {}
    BY <1>1, <1>2
  <2>2. PICK t \in T : \A u \in T : t <= u
    BY <2>1, LeastNatural
  <2>3. PICK x \in S : t = n - x
    BY <1>2
  <2> QED
    BY <2>2, <2>3
<1>4. \A y \in S : x >= y
  <2> SUFFICES ASSUME NEW y \in S PROVE x >= y
    OBVIOUS
  <2>1. n - x <= n - y
    BY <1>2, <1>3
  <2>2. x \in Int /\ y \in Int
    OBVIOUS
  <2> QED
    BY <2>1, <2>2
<1>5. \E z \in S : Greatest(z)
  BY <1>4
<1>6. Max(S) = CHOOSE z \in S : Greatest(z)
  BY DEF Max
<1>7. Max(S) \in S /\ Greatest(Max(S))
  <2> HIDE DEF Greatest
  <2> QED
    BY <1>5, <1>6, Zenon
<1> QED
  BY <1>7

\* An element that is not less than any other is the greatest.
LEMMA MaxIs ==
  ASSUME NEW S, S \subseteq Int, NEW m \in S, \A y \in S : m >= y
  PROVE  Max(S) = m
<1> DEFINE Greatest(x) == \A y \in S : x >= y
<1>1. Max(S) = CHOOSE z \in S : Greatest(z)
  BY DEF Max
<1>2. Max(S) \in S /\ Greatest(Max(S))
  <2>1. Greatest(m)
    OBVIOUS
  <2> HIDE DEF Greatest
  <2> QED
    BY <1>1, <2>1, Zenon
<1>3. Max(S) >= m /\ m >= Max(S)
  BY <1>2
<1>4. Max(S) \in Int /\ m \in Int
  BY <1>2
<1> QED
  BY <1>3, <1>4

-----------------------------------------------------------------------------
(* What is loaded.                                                         *)

\* The last cycle with a file is a cycle, if there is a file.
LEMMA MaxCycleTyped ==
  ASSUME FileTypes PROVE GetMaxCycleNumber \in Cycles \union {0}
<1> DEFINE S == {0} \union {c \in Cycles : cpuStates[c] # NoRun}
<1>1. S \subseteq 0 .. MaxCycle /\ S # {} /\ S \subseteq Cycles \union {0} /\ MaxCycle \in Nat
  BY RecordingsAssumption DEF Cycles
<1>2. GetMaxCycleNumber = Max(S)
  BY DEF GetMaxCycleNumber
<1> HIDE DEF S
<1> QED
  BY <1>1, <1>2, MaxIsGreatest

\* All that a run recorded is there, and nothing else.
Complete(p) ==
  /\ p \in Runs /\ recording[p] \in Recordings
  /\ LeftBy(p, usedConfig[p], recording[p], recording[p].last, cpuStates, memories)

\* The files there are of a run, and which they are.
LEMMA FilesOfRun ==
  ASSUME NEW p, Complete(p)
  PROVE  /\ \A c \in Cycles : LoadStateFile(c) = IF c \in Recorded(p) THEN <<p, c>> ELSE NoFile
         /\ \A c \in Cycles : LoadMemoryFile(c) = IF c \in MemoryWritten(p) THEN <<p, c>> ELSE NoFile
         /\ \A c \in Cycles : memories[c] # NoRun <=> c \in MemoryWritten(p)
         /\ GetMaxCycleNumber = recording[p].last
<1> DEFINE r == recording[p]
           rec == CyclesOf(usedConfig[p], r)
           mem == MemoryOf(usedConfig[p], r)
<1>1. Recorded(p) = rec /\ MemoryWritten(p) = mem
  BY RecordedIs
<1>2. /\ r.last \in Cycles /\ rec \subseteq 1 .. r.last /\ r.last \in rec
      /\ mem \subseteq rec
  BY CyclesAreCycles DEF Complete
<1>3. p # NoRun
  BY RunsAssumption DEF Complete, Runs, NoRun
<1>4. \A c \in Cycles : c \in Int /\ c > 0
  BY DEF Cycles
<1>5. /\ cpuStates = [c \in Cycles |-> IF c \in rec /\ c <= r.last THEN p ELSE NoRun]
      /\ memories = [c \in Cycles |-> IF c \in mem /\ c <= r.last THEN p ELSE NoRun]
  BY DEF Complete, LeftBy
<1> HIDE DEF r, rec, mem
<1>6. \A c \in rec : c <= r.last
  BY <1>2, <1>4
<1>7. /\ cpuStates = [c \in Cycles |-> IF c \in rec THEN p ELSE NoRun]
      /\ memories = [c \in Cycles |-> IF c \in mem THEN p ELSE NoRun]
  BY <1>2, <1>5, <1>6
<1>8. \A c \in Cycles : /\ cpuStates[c] # NoRun <=> c \in rec
                        /\ memories[c] # NoRun <=> c \in mem
  BY <1>3, <1>7
<1>9. \A c \in Cycles : LoadStateFile(c) = IF c \in Recorded(p) THEN <<p, c>> ELSE NoFile
  BY <1>1, <1>7, <1>8 DEF LoadStateFile, FileOf
<1>10. \A c \in Cycles : LoadMemoryFile(c) = IF c \in MemoryWritten(p) THEN <<p, c>> ELSE NoFile
  BY <1>1, <1>7, <1>8 DEF LoadMemoryFile, FileOf
<1>11. GetMaxCycleNumber = r.last
  <2> DEFINE S == {0} \union {c \in Cycles : cpuStates[c] # NoRun}
  <2>1. S \subseteq Int
    <3>1. \A c \in S : c = 0 \/ c \in Cycles
      OBVIOUS
    <3> HIDE DEF S
    <3> QED
      BY <1>4, <3>1
  <2>2. r.last \in S
    BY <1>2, <1>8
  <2>3. \A c \in S : r.last >= c
    <3>1. \A c \in S : c = 0 \/ (c \in Cycles /\ c \in rec)
      BY <1>8
    <3> HIDE DEF S
    <3> QED
      BY <1>2, <1>4, <1>6, <3>1
  <2>4. GetMaxCycleNumber = Max(S)
    BY DEF GetMaxCycleNumber
  <2> HIDE DEF S
  <2> QED
    BY <2>1, <2>2, <2>3, <2>4, MaxIs
<1> QED
  BY <1>1, <1>8, <1>9, <1>10, <1>11 DEF r
-----------------------------------------------------------------------------
(* The slider and the view.                                                *)

IsSlider(s) == DOMAIN s = DOMAIN FreshSlider
IsPicture(p) == DOMAIN p = DOMAIN FreshPicture

SliderTyped(s) ==
  /\ IsSlider(s)
  /\ s.totalCycles \in Cycles \union {0} /\ s.maximum \in Cycles
  /\ s.value \in 1 .. s.maximum /\ s.currentCycleIndex \in Cycles \union {0}

PictureTyped(p) ==
  /\ IsPicture(p)
  /\ p.spec \in Configs
  /\ p.state \in Files /\ p.previous \in Files
  /\ p.memory \in Files /\ p.previousMemory \in Files

LEMMA CycleNumbers == /\ \A c \in Cycles : c \in Nat /\ c >= 1
                      /\ \A c \in Cycles : \A v \in 1 .. c : v \in Cycles
                      /\ 1 \in Cycles /\ MaxCycle \in Nat
<1>1. /\ MaxCycle \in Nat /\ MaxCycle >= 2
  <2>1. PICK r \in Recordings : r.last \in 2 .. MaxCycle
    BY RecordingsAssumption
  <2> QED
    BY <2>1, RecordingsAssumption
<1> QED
  BY <1>1 DEF Cycles

LEMMA FreshIsTyped == SliderTyped(FreshSlider) /\ PictureTyped(FreshPicture)
<1>1. 1 \in Cycles
  BY CycleNumbers
<1>2. SliderTyped(FreshSlider)
  BY <1>1 DEF SliderTyped, IsSlider, FreshSlider
<1>3. PictureTyped(FreshPicture)
  BY ConfigsAssumption DEF PictureTyped, IsPicture, FreshPicture, Files, NoFile
<1> QED
  BY <1>2, <1>3

\* Setting the value changes nothing else, and keeps it in its limits.
LEMMA SetValueIs ==
  ASSUME NEW s, IsSlider(s), s.maximum \in Cycles, NEW v \in Int
  PROVE  /\ IsSlider(SetValue(s, v))
         /\ SetValue(s, v).maximum = s.maximum
         /\ SetValue(s, v).totalCycles = s.totalCycles
         /\ SetValue(s, v).currentCycleIndex = s.currentCycleIndex
         /\ SetValue(s, v).singleStateMode = s.singleStateMode
         /\ SetValue(s, v).memoryMapping = s.memoryMapping
         /\ SetValue(s, v).value \in 1 .. s.maximum
         /\ v \in 1 .. s.maximum => SetValue(s, v).value = v
         /\ v > s.maximum => SetValue(s, v).value = s.maximum
<1>1. s.maximum \in Nat /\ s.maximum >= 1
  BY CycleNumbers
<1>2. IsSlider(SetValue(s, v))
  BY DEF IsSlider, SetValue
<1>3. /\ SetValue(s, v).maximum = s.maximum
      /\ SetValue(s, v).totalCycles = s.totalCycles
      /\ SetValue(s, v).currentCycleIndex = s.currentCycleIndex
      /\ SetValue(s, v).singleStateMode = s.singleStateMode
      /\ SetValue(s, v).memoryMapping = s.memoryMapping
  BY DEF SetValue, IsSlider, FreshSlider
<1>4. SetValue(s, v).value = IF v < 1 THEN 1 ELSE IF v > s.maximum THEN s.maximum ELSE v
  BY DEF SetValue, IsSlider, FreshSlider
<1> QED
  BY <1>1, <1>2, <1>3, <1>4

\* What the slider is when the results have been loaded.
LEMMA LoadedIs ==
  ASSUME SliderTyped(slider), FileTypes, GetMaxCycleNumber # 0
  PROVE  LET total == GetMaxCycleNumber
             short == Shortened(slider)
             loaded == LoadSimulationData(slider)
         IN /\ total \in Cycles
            /\ IsSlider(short) /\ short.maximum = total /\ short.totalCycles = total
            /\ short.value \in 1 .. total
            /\ short.value # slider.value => short.value = total
            /\ SliderTyped(loaded) /\ loaded.maximum = total
            /\ loaded.currentCycleIndex = 1
            /\ loaded.singleStateMode = currConfig.single_state_mode
            /\ loaded.memoryMapping = BuildMemoryMapping(total, loaded.singleStateMode)
<1> DEFINE total == GetMaxCycleNumber
           short == Shortened(slider)
           loaded == LoadSimulationData(slider)
           s == [slider EXCEPT !.maximum = total, !.totalCycles = total]
<1>1. total \in Cycles
  BY MaxCycleTyped
<1>2. IsSlider(s) /\ s.maximum = total /\ s.totalCycles = total
  BY DEF SliderTyped, IsSlider, FreshSlider
<1>3. slider.value \in Int /\ slider.value >= 1 /\ total \in Int
  BY <1>1, CycleNumbers DEF SliderTyped
<1>4. short = SetValue(s, slider.value)
  BY DEF Shortened
<1> HIDE DEF s
<1>5. /\ IsSlider(short) /\ short.maximum = total /\ short.totalCycles = total
      /\ short.value \in 1 .. total
      /\ short.value # slider.value => short.value = total
  <2> HIDE DEF total, short
  <2>1. /\ IsSlider(short) /\ short.maximum = total /\ short.totalCycles = total
        /\ short.value \in 1 .. total
    BY <1>1, <1>2, <1>3, <1>4, SetValueIs
  <2>2. slider.value \in 1 .. total => short.value = slider.value
    BY <1>1, <1>2, <1>3, <1>4, SetValueIs
  <2>3. slider.value > total => short.value = total
    BY <1>1, <1>2, <1>3, <1>4, SetValueIs
  <2> QED
    BY <1>3, <2>1, <2>2, <2>3
<1>6. loaded = [short EXCEPT !.currentCycleIndex = 1,
                             !.singleStateMode = currConfig.single_state_mode,
                             !.memoryMapping =
                               BuildMemoryMapping(total, currConfig.single_state_mode)]
  BY DEF LoadSimulationData
<1>7. /\ IsSlider(loaded) /\ loaded.maximum = short.maximum /\ loaded.value = short.value
      /\ loaded.totalCycles = short.totalCycles /\ loaded.currentCycleIndex = 1
      /\ loaded.singleStateMode = currConfig.single_state_mode
      /\ loaded.memoryMapping = BuildMemoryMapping(total, currConfig.single_state_mode)
  <2> HIDE DEF total, short, loaded
  <2> QED
    BY <1>5, <1>6 DEF IsSlider, FreshSlider
<1>8. SliderTyped(loaded)
  <2> HIDE DEF total, short, loaded
  <2> QED
    BY <1>1, <1>5, <1>7, CycleNumbers DEF SliderTyped
<1> HIDE DEF total, short, loaded
<1>9. loaded.memoryMapping = BuildMemoryMapping(total, loaded.singleStateMode)
  BY <1>7
<1> QED
  BY <1>1, <1>5, <1>7, <1>8, <1>9 DEF total, short, loaded

\* What drawing the view reads, and what it leaves alone.
LEMMA ViewIs ==
  ASSUME NEW s, NEW p, IsPicture(p)
  PROVE  /\ IsPicture(UpdateSimulationView(s, p))
         /\ UpdateSimulationView(s, p).state = LoadStateFile(s.value)
         /\ UpdateSimulationView(s, p).previous = PreviousState(s)
         /\ UpdateSimulationView(s, p).memory = GetMemoryForCycle(s, s.value)
         /\ UpdateSimulationView(s, p).previousMemory = PreviousMemory(s)
         /\ UpdateSimulationView(s, p).spec = p.spec
         /\ \A n \in Components : UpdateSimulationView(s, p).hasChanged[n] = HasChanged(s, n)
<1> DEFINE q == UpdateComponentStates(s, p)
           v == UpdateSimulationView(s, p)
<1>1. /\ IsPicture(q) /\ q.spec = p.spec
      /\ q.state = LoadStateFile(s.value) /\ q.previous = PreviousState(s)
      /\ q.memory = GetMemoryForCycle(s, s.value) /\ q.previousMemory = PreviousMemory(s)
      /\ q.hasChanged = [n \in Components |-> HasChanged(s, n)]
  BY DEF UpdateComponentStates, IsPicture, FreshPicture
<1>2. v = q \/ v = UpdateDetailsDisplay(q)
  BY DEF UpdateSimulationView
<1> HIDE DEF q, v
<1>3. /\ IsPicture(v) /\ v.spec = q.spec /\ v.state = q.state /\ v.previous = q.previous
      /\ v.memory = q.memory /\ v.previousMemory = q.previousMemory
      /\ v.hasChanged = q.hasChanged
  BY <1>1, <1>2 DEF UpdateDetailsDisplay, IsPicture, FreshPicture
<1>4. \A n \in Components : v.hasChanged[n] = HasChanged(s, n)
  BY <1>1, <1>3, Zenon
<1> QED
  BY <1>1, <1>3, <1>4 DEF v

\* A file that is read is one that is there, or none.
LEMMA FileTyped ==
  ASSUME NEW dir \in [Cycles -> Owners], NEW c PROVE FileOf(dir, c) \in Files
BY DEF FileOf, Files, Owners

LEMMA ViewIsTyped ==
  ASSUME FileTypes, NEW s, NEW p, PictureTyped(p)
  PROVE  PictureTyped(UpdateSimulationView(s, p))
<1>1. /\ LoadStateFile(s.value) \in Files /\ PreviousState(s) \in Files
      /\ GetMemoryForCycle(s, s.value) \in Files /\ PreviousMemory(s) \in Files
  <2>1. NoFile \in Files
    BY DEF Files
  <2>2. \A c : LoadStateFile(c) \in Files /\ LoadMemoryFile(c) \in Files
    BY FileTyped DEF FileTypes, LoadStateFile, LoadMemoryFile
  <2>3. \A c : GetMemoryForCycle(s, c) \in Files
    BY <2>1, <2>2 DEF GetMemoryForCycle
  <2> QED
    BY <2>1, <2>2, <2>3 DEF PreviousState, PreviousMemory
<1> QED
  BY <1>1, ViewIs DEF PictureTyped

LEMMA MovedIsTyped ==
  ASSUME FileTypes, NEW s, NEW t, NEW p, PictureTyped(p)
  PROVE  PictureTyped(Moved(s, t, p))
BY ViewIsTyped DEF Moved
-----------------------------------------------------------------------------
(* Types of the tab.                                                       *)

TabTyped == SliderTyped(slider) /\ PictureTyped(picture)

\* The slider when it has moved, with the index set or not.
LEMMA SetValueTyped ==
  ASSUME NEW s, SliderTyped(s), NEW v \in Int PROVE SliderTyped(SetValue(s, v))
BY SetValueIs DEF SliderTyped

LEMMA IndexIs ==
  ASSUME NEW s, SliderTyped(s), NEW i \in Cycles \union {0}
  PROVE  LET u == [s EXCEPT !.currentCycleIndex = i] IN
         /\ SliderTyped(u) /\ u.value = s.value /\ u.maximum = s.maximum
         /\ u.singleStateMode = s.singleStateMode /\ u.memoryMapping = s.memoryMapping
BY DEF SliderTyped, IsSlider, FreshSlider

LEMMA TotalTyped ==
  ASSUME SliderTyped(slider) PROVE SliderTyped([slider EXCEPT !.totalCycles = 0])
BY DEF SliderTyped, IsSlider, FreshSlider

LEMMA ToggleIs ==
  ASSUME SliderTyped(slider)
  PROVE  LET u == [slider EXCEPT !.isPlaying = ~@] IN
         /\ SliderTyped(u) /\ u.value = slider.value /\ u.maximum = slider.maximum
         /\ u.singleStateMode = slider.singleStateMode
         /\ u.memoryMapping = slider.memoryMapping
BY DEF SliderTyped, IsSlider, FreshSlider

\* A step of the slider, by a button or by the timer.
LEMMA StepIs ==
  ASSUME TabTyped, NEW v \in Cycles \union {0}, StepTo(v)
  PROVE  LET t == SetValue(slider, v) IN
         \E i \in Cycles \union {0} :
            /\ MoveTo(t, [t EXCEPT !.currentCycleIndex = i])
            /\ SliderTyped(t)
<1>1. v \in Int
  BY CycleNumbers
<1>2. SliderTyped(SetValue(slider, v))
  BY <1>1, SetValueTyped DEF TabTyped
<1> QED
  BY <1>2 DEF StepTo

\* Where the buttons and the timer step to.
LEMMA DecreaseIs ==
  ASSUME TabTyped, DecreaseCycle
  PROVE  \E v \in Cycles \union {0} : StepTo(v)
<1>1. slider.value \in Cycles /\ slider.value \in Nat /\ slider.value > 1
      /\ 1 \in Cycles
  BY CycleNumbers DEF DecreaseCycle, TabTyped, SliderTyped
<1>2. slider.value - 1 \in Cycles
  BY <1>1, CycleNumbers DEF Cycles
<1> QED
  BY <1>1, <1>2 DEF DecreaseCycle

LEMMA IncreaseIs ==
  ASSUME TabTyped, IncreaseCycle
  PROVE  TogglePlayPause \/ \E v \in Cycles \union {0} : StepTo(v)
<1>1. CASE slider.value < slider.maximum
  <2>1. slider.value \in Nat /\ slider.maximum \in Nat /\ slider.value >= 1
    BY CycleNumbers DEF TabTyped, SliderTyped
  <2>2. slider.value + 1 \in 1 .. slider.maximum
    BY <1>1, <2>1
  <2>3. slider.value + 1 \in Cycles /\ slider.totalCycles \in Cycles \union {0}
    BY <2>2, CycleNumbers DEF TabTyped, SliderTyped
  <2> QED
    BY <1>1, <2>3 DEF IncreaseCycle
<1>2. CASE ~(slider.value < slider.maximum)
  BY <1>2 DEF IncreaseCycle
<1> QED
  BY <1>1, <1>2

\* What moves the slider is a step to a cycle, or turns autoplay on or off; and what
\* the mouse does leaves the slider where it is.
Moves ==
  \E v \in Cycles \union {0} :
     \/ MoveTo(SetValue(slider, v), SetValue(slider, v))
     \/ \E i \in Cycles \union {0} :
          MoveTo(SetValue(slider, v), [SetValue(slider, v) EXCEPT !.currentCycleIndex = i])

MovesOrToggles == Moves \/ TogglePlayPause

LEMMA StepMoves ==
  ASSUME NEW v \in Cycles \union {0}, TabTyped, StepTo(v) PROVE Moves
BY StepIs DEF Moves

LEMMA ClickMoves ==
  ASSUME TabTyped, ClickAtTab
  PROVE  /\ TabTurn
         /\ \/ MovesOrToggles
            \/ \E n \in Components \union {NoComponent} : Hover(n)
            \/ \E n \in Components : Press(n)
<1>1. CASE \E v \in Cycles : MoveSlider(v)
  BY <1>1 DEF MoveSlider, MovesOrToggles, Moves
<1>2. CASE DecreaseCycle
  <2>1. TabTurn
    BY <1>2 DEF DecreaseCycle
  <2> QED
    BY <1>2, <2>1, DecreaseIs, StepMoves DEF MovesOrToggles
<1>3. CASE TabTurn /\ IncreaseCycle
  BY <1>3, IncreaseIs, StepMoves DEF MovesOrToggles
<1>4. CASE TabTurn /\ TogglePlayPause
  BY <1>4 DEF MovesOrToggles
<1>5. CASE \E n \in Components \union {NoComponent} : Hover(n)
  BY <1>5 DEF Hover
<1>6. CASE \E n \in Components : Press(n)
  BY <1>6 DEF Press
<1> QED
  BY <1>1, <1>2, <1>3, <1>4, <1>5, <1>6 DEF ClickAtTab

LEMMA TickMoves == ASSUME TabTyped, Tick PROVE MovesOrToggles
BY IncreaseIs, StepMoves DEF Tick, MovesOrToggles

\* The mouse changes what is selected and the details made of it, nothing that is read.
LEMMA MouseIs ==
  ASSUME TabTyped, NEW n, Hover(n) \/ (Press(n) /\ ~(ViewAborts /\ FreshView))
  PROVE  /\ UNCHANGED <<slider, sessionVars>> /\ IsPicture(picture')
         /\ picture'.spec = picture.spec /\ picture'.state = picture.state
         /\ picture'.previous = picture.previous /\ picture'.memory = picture.memory
         /\ picture'.previousMemory = picture.previousMemory
         /\ picture'.hasChanged = picture.hasChanged
<1>1. IsPicture(picture)
  BY DEF TabTyped, PictureTyped
<1>2. CASE Hover(n)
  BY <1>1, <1>2 DEF Hover, IsPicture, FreshPicture
<1>3. CASE Press(n) /\ ~(ViewAborts /\ FreshView)
  <2> DEFINE q == [picture EXCEPT
                    !.selected = n,
                    !.isSelected = [c \in Components |->
                                      c = n \/ (c # picture.selected /\ @[c])]]
  <2>1. picture' = UpdateDetailsDisplay(q) /\ UNCHANGED <<slider, sessionVars>>
    BY <1>3 DEF Press
  <2>2. /\ IsPicture(q) /\ q.spec = picture.spec /\ q.state = picture.state
        /\ q.previous = picture.previous /\ q.memory = picture.memory
        /\ q.previousMemory = picture.previousMemory /\ q.hasChanged = picture.hasChanged
    BY <1>1 DEF IsPicture, FreshPicture
  <2> HIDE DEF q
  <2>3. /\ IsPicture(picture') /\ picture'.spec = q.spec /\ picture'.state = q.state
        /\ picture'.previous = q.previous /\ picture'.memory = q.memory
        /\ picture'.previousMemory = q.previousMemory /\ picture'.hasChanged = q.hasChanged
    BY <2>1, <2>2 DEF UpdateDetailsDisplay, IsPicture, FreshPicture
  <2> QED
    BY <2>1, <2>2, <2>3
<1> QED
  BY <1>2, <1>3

\* Every step keeps the types.
LEMMA MovesTyped == TabTyped /\ FileTypes /\ MovesOrToggles => TabTyped'
<1> SUFFICES ASSUME TabTyped, FileTypes, MovesOrToggles PROVE TabTyped'
  OBVIOUS
<1>1. CASE TogglePlayPause
  BY <1>1, ToggleIs DEF TogglePlayPause, TabTyped
<1>2. ASSUME NEW v \in Cycles \union {0}, NEW u, SliderTyped(u),
             MoveTo(SetValue(slider, v), u)
      PROVE  TabTyped'
  BY <1>2, FreshIsTyped, MovedIsTyped DEF MoveTo, FreshView, TabTyped
<1>3. ASSUME NEW v \in Cycles \union {0} PROVE SliderTyped(SetValue(slider, v))
  BY SetValueTyped, CycleNumbers DEF TabTyped
<1> QED
  BY <1>1, <1>2, <1>3, IndexIs DEF MovesOrToggles, Moves

LEMMA FreshTyped == FreshView => TabTyped'
BY FreshIsTyped DEF FreshView, TabTyped

LEMMA LoadTyped ==
  ASSUME TabTyped, FileTypes, currConfig \in Configs, NEW p \in Runs, LoadResults(p)
  PROVE  TabTyped'
<1>1. CASE GetMaxCycleNumber = 0
  BY <1>1, TotalTyped DEF LoadResults, TabTyped
<1>2. CASE GetMaxCycleNumber # 0 /\ LoadAborts
  BY <1>2, FreshTyped DEF LoadResults
<1>3. CASE GetMaxCycleNumber # 0 /\ ~LoadAborts
  <2>1. ShowResults
    BY <1>3 DEF LoadResults
  <2> DEFINE loaded == LoadSimulationData(slider)
  <2>2. SliderTyped(loaded)
    BY <1>3, LoadedIs DEF TabTyped
  <2>3. SliderTyped(slider')
    <3>1. slider' = SetValue(loaded, 1)
      BY <2>1 DEF ShowResults, GoToFirstCycle
    <3> QED
      BY <2>2, <3>1, SetValueTyped
  <2>4. PictureTyped(WithSpec(picture))
    BY DEF TabTyped, PictureTyped, WithSpec, IsPicture, FreshPicture
  <2>5. PictureTyped(picture')
    <3>1. picture' = Moved(loaded, slider', UpdateSimulationView(loaded, WithSpec(picture)))
      BY <2>1 DEF ShowResults
    <3> HIDE DEF loaded
    <3> QED
      BY <2>4, <3>1, ViewIsTyped, MovedIsTyped
  <2> QED
    BY <2>3, <2>5 DEF TabTyped
<1> QED
  BY <1>1, <1>2, <1>3

LEMMA NextTabTyped == SessionTyped /\ TabTyped /\ [Next]_vars => TabTyped'
<1> SUFFICES ASSUME SessionTyped, TabTyped, [Next]_vars PROVE TabTyped'
  OBVIOUS
<1>1. FileTypes /\ currConfig \in Configs
  BY DEF SessionTyped, WindowTypes
<1>2. CASE UNCHANGED vars
  BY <1>2 DEF vars, viewVars, TabTyped
<1>3. CASE TabKept
  BY <1>3, FreshTyped DEF TabKept, viewVars, TabTyped
<1>4. CASE SwitchAnyway
  <2>1. SliderTyped(SetValue(slider, 1))
    BY SetValueTyped DEF TabTyped
  <2> QED
    BY <1>1, <1>4, <2>1, FreshTyped, MovedIsTyped DEF SwitchAnyway, GoToFirstCycle, TabTyped
<1>5. CASE MovesOrToggles
  BY <1>1, <1>5, MovesTyped
<1>6. ASSUME NEW n, Hover(n) \/ Press(n) PROVE TabTyped'
  BY <1>6, MouseIs, FreshTyped DEF Hover, TabTyped, PictureTyped
<1>7. ASSUME NEW p \in Runs, LoadResults(p) PROVE TabTyped'
  BY <1>1, <1>7, LoadTyped
<1> QED
  BY <1>2, <1>3, <1>4, <1>5, <1>6, <1>7, ClickMoves, TickMoves
  DEF Next, Elsewhere, ClickElsewhere
-----------------------------------------------------------------------------
(* What the last run leaves is not touched until another is started.       *)

LEMMA WrittenKept ==
  ASSUME Inv, SessionTyped, WrittenAtWork, [SessionNext]_sessionVars
  PROVE  WrittenAtWork'
<1>1. status \in [Runs -> Statuses] /\ written \in [Runs -> Cycles \union {0}]
  BY DEF Inv, SessionTypes, SessionTyped, ProcessTypes
<1>2. CASE UNCHANGED <<status, written>>
  BY <1>2 DEF WrittenAtWork
<1>3. ASSUME NEW p \in Runs, ProcessStep(p) PROVE WrittenAtWork'
  <2>1. status[p] = "running"
    BY <1>3 DEF ProcessStep, WriteCycle, Exits, Fails, Sticks, ProcessIs
  <2>2. CASE WriteCycle(p)
    <3>1. PICK c : written' = [written EXCEPT ![p] = c] /\ status' = status
      BY <2>2 DEF WriteCycle
    <3> QED
      BY <1>1, <2>1, <3>1 DEF WrittenAtWork
  <2>3. CASE Exits(p) \/ Fails(p) \/ Sticks(p)
    <3>1. PICK s : /\ s # "running" /\ status' = [status EXCEPT ![p] = s]
                   /\ written' = [written EXCEPT ![p] = 0]
      BY <2>3 DEF Exits, Fails, Sticks, ProcessIs
    <3> QED
      BY <1>1, <3>1 DEF WrittenAtWork
  <2> QED
    BY <1>3, <2>2, <2>3 DEF ProcessStep
<1>4. ASSUME NEW ps, Kill(ps) PROVE WrittenAtWork'
  BY <1>1, <1>4 DEF WrittenAtWork, Kill
<1>5. ASSUME NEW p \in Runs, NEW starts \in BOOLEAN, NEW r \in Recordings,
             ExecuteSimulation(p, starts, r)
      PROVE  WrittenAtWork'
  <2>1. CASE TextAborts \/ CleanUpAborts
    BY <1>2, <2>1 DEF TextAborts, CleanUpAborts, processVars
  <2>2. CASE RunStarted(p, starts, r)
    <3>1. /\ written' = written /\ status[p] = "unused"
          /\ \A q \in Runs : q # p => status'[q] = status[q]
      BY <1>1, <1>5, <2>2 DEF ExecuteSimulation, RunStarted, StartProcess
    <3> QED
      BY <3>1 DEF WrittenAtWork
  <2> QED
    BY <1>5, <2>1, <2>2 DEF ExecuteSimulation
<1>6. ASSUME NEW p \in Runs, Answers(p) PROVE WrittenAtWork'
  <2>1. /\ written' = written /\ status[p] # "running"
        /\ \A q \in Runs : q # p => status'[q] = status[q]
    BY <1>1, <1>6 DEF Answers, Over
  <2> QED
    BY <2>1 DEF WrittenAtWork
<1>7. CASE UNCHANGED sessionVars
  BY <1>2, <1>7 DEF sessionVars
<1>8. CASE Start \/ Save \/ SetConfig \/ (\E c \in Configs : Edit(c))
  BY <1>2, <1>8 DEF Start, Save, SetConfig, Edit, ConfigStep, processVars
<1>9. CASE \/ OpenDialog \/ CloseFileDialog \/ ConvertAsmToHex \/ CloseFailure
           \/ CloseNoResults \/ ViewAborts
  BY <1>2, <1>9 DEF OpenDialog, CloseFileDialog, ConvertAsmToHex, CloseFailure,
                    CloseNoResults, ViewAborts, TextAborts, CleanUpAborts, processVars
<1>10. CASE Close \/ CancelSimulation
  BY <1>2, <1>4, <1>10 DEF Close, CancelSimulation, processVars
<1>11. ASSUME NEW p \in Runs,
              \/ FailureReported(p) \/ CancelledAnswered(p)
              \/ SuccessAnswered(p) /\ (ResultsLoaded \/ NoResults \/ Abort("view"))
       PROVE  WrittenAtWork'
  BY <1>6, <1>11 DEF FailureReported, CancelledAnswered, SuccessAnswered
<1> QED
  BY <1>3, <1>5, <1>7, <1>8, <1>9, <1>10, <1>11 DEF SessionNext

\* A run that succeeded has left its last cycle at least.
LEMMA SuccessHasFiles ==
  ASSUME LastInv, NEW p \in Runs, SuccessAnswered(p), ~late
  PROVE  Complete(p) /\ GetMaxCycleNumber = recording[p].last /\ GetMaxCycleNumber # 0
<1>1. Complete(p)
  BY SuccessIsOfLast DEF Complete, LastInv, SessionTyped, ProcessTypes
<1>2. GetMaxCycleNumber = recording[p].last
  BY <1>1, FilesOfRun
<1>3. recording[p].last > 1 /\ recording[p].last \in Nat
  BY <1>1, CyclesAreCycles, CycleNumbers DEF Complete
<1> QED
  BY <1>1, <1>2, <1>3

LEMMA LoadLast ==
  ASSUME LastInv, NEW p \in Runs, LoadResults(p) PROVE LastRules'
<1>1. SuccessAnswered(p)
  BY DEF LoadResults
<1>2. CASE late
  <2>1. late' = late
    BY <1>1 DEF SuccessAnswered, historyVars
  <2> QED
    BY <1>2, <2>1, LateLast
<1>3. CASE ~late
  <2>1. GetMaxCycleNumber # 0
    BY <1>1, <1>3, SuccessHasFiles
  <2>2. CASE LoadAborts
    BY <2>1, <2>2, NewWindowLast DEF LoadResults, Abort
  <2>3. CASE ~LoadAborts
    BY <1>1, <2>1, <2>3, LoadedLast DEF LoadResults
  <2> QED
    BY <2>2, <2>3
<1> QED
  BY <1>2, <1>3

LEMMA LastKept == LastInv /\ UNCHANGED sessionVars => LastRules'
BY DEF sessionVars, LastInv, LastRules, EnabledIsAnswered, DialogsAreOfLast, LastIsAwaited,
       FilesAreOfLast, OfWindow, Recorder, Progress

LEMMA NextLastRules == LastInv /\ [Next]_vars => LastRules'
<1> SUFFICES ASSUME LastInv, [Next]_vars PROVE LastRules'
  OBVIOUS
<1>1. CASE UNCHANGED vars
  BY <1>1, LastKept DEF vars
<1>2. CASE Elsewhere
  <2>1. CASE Start
    BY <2>1, NewWindowLast DEF Start
  <2>2. CASE Save
    BY <2>2, ConfigLast
  <2>3. CASE CloseFileDialog \/ ConvertAsmToHex
    BY <2>3, FileDialogLast
  <2>4. CASE CancelSimulation
    BY <2>4, CancelLast
  <2>5. CASE CloseFailure
    BY <2>5, FailureLast
  <2>6. ASSUME NEW p \in Runs,
               \/ ProcessStep(p)
               \/ \E starts \in BOOLEAN, r \in Recordings : ExecuteSimulation(p, starts, r)
               \/ FailureReported(p) \/ CancelledAnswered(p)
        PROVE  LastRules'
    BY <2>6, ProcessStepLast, ExecuteLast, AnswerLast, AbortLast
    DEF ExecuteSimulation, Exceptions
  <2> QED
    BY <1>2, <2>1, <2>2, <2>3, <2>4, <2>5, <2>6 DEF Elsewhere
<1>3. CASE ClickElsewhere
  <2>1. CASE Close
    BY <2>1, NewWindowLast DEF Close
  <2> QED
    BY <1>3, <2>1, ConfigLast, FileDialogLast DEF ClickElsewhere
<1>4. CASE SwitchAnyway
  <2>1. Top("noStates") /\ (ViewAborts \/ late' = late)
    BY <1>4 DEF SwitchAnyway, CloseNoResults, historyVars
  <2>2. late
    BY <2>1, NoStatesIsLate
  <2>3. CASE late' = late
    BY <2>2, <2>3, LateLast
  <2> QED
    BY <2>1, <2>3, AbortLast
<1>5. CASE ClickAtTab
  BY <1>5, TabIsSession, AbortLast, LastKept
<1>6. CASE Tick
  BY <1>6, IncreaseIsSession, AbortLast, LastKept DEF Tick
<1>7. CASE \E p \in Runs : LoadResults(p)
  BY <1>7, LoadLast
<1> QED
  BY <1>1, <1>2, <1>3, <1>4, <1>5, <1>6, <1>7 DEF Next

LEMMA InitLast == Init => LastInv
<1> SUFFICES ASSUME Init PROVE LastInv
  OBVIOUS
<1>1. SessionInit
  BY DEF Init
<1>2. /\ tabEnabled = FALSE /\ dialogs = <<>> /\ connected = {}
      /\ written = [p \in Runs |-> 0]
  BY <1>1 DEF SessionInit, FreshWindow
<1> QED
  BY <1>1, <1>2, SessionInitInv, SessionInitTyped
  DEF LastInv, WrittenAtWork, EnabledIsAnswered, DialogsAreOfLast, LastIsAwaited,
      FilesAreOfLast, OfWindow

LEMMA NextLast == LastInv /\ [Next]_vars => LastInv'
<1> SUFFICES ASSUME LastInv, [Next]_vars PROVE LastInv'
  OBVIOUS
<1>1. [SessionNext]_sessionVars
  BY NextIsSession
<1>2. Inv' /\ SessionTyped' /\ WrittenAtWork'
  BY <1>1, SessionNextInv, SessionNextTyped, WrittenKept DEF LastInv
<1>3. LastRules'
  BY NextLastRules
<1> QED
  BY <1>2, <1>3 DEF LastInv, LastRules

\* The types of the session and of the tab, however runs, dialogs, the mouse, the slider
\* and the timer alternate, whatever is found in the directory.
THEOREM InterfaceTypeCorrect == Spec => []TypeOK
<1> DEFINE I == LastInv /\ TabTyped
<1>1. Init => I
  BY InitLast, FreshIsTyped DEF Init, TabTyped
<1>2. I /\ [Next]_vars => I'
  BY NextLast, NextTabTyped DEF LastInv
<1>3. I => TypeOK
  <2> SUFFICES ASSUME I PROVE TypeOK
    OBVIOUS
  <2>1. /\ app \in Apps
        /\ {buttons, cancelButton, tabEnabled, simulationCancelled, late, edited} \subseteq BOOLEAN
    BY DEF LastInv, Inv, SessionTypes, SessionTyped, WindowTypes
  <2>2. \A i \in DOMAIN dialogs : dialogs[i] \in DialogKinds
    BY DEF LastInv, Inv, SessionTypes
  <2>3. {runningProcess, lastRun} \subseteq Runs \union {NoRun}
    BY DEF LastInv, SessionTyped, WindowTypes, Owners
  <2>4. {currConfig, inputs} \subseteq Configs
    BY DEF LastInv, SessionTyped, WindowTypes
  <2>5. status \in [Runs -> Statuses] /\ connected \subseteq Runs
    BY DEF LastInv, Inv, SessionTypes
  <2>6. /\ usedConfig \in [Runs -> Configs] /\ recording \in [Runs -> Recordings]
        /\ written \in [Runs -> Cycles \union {0}]
        /\ {cpuStates, memories} \subseteq [Cycles -> Runs \union {NoRun}]
    BY DEF LastInv, SessionTyped, ProcessTypes, FileTypes, Owners
  <2>7. /\ slider.totalCycles \in Cycles \union {0} /\ slider.maximum \in Cycles
        /\ slider.value \in 1 .. slider.maximum
        /\ slider.currentCycleIndex \in Cycles \union {0}
        /\ picture.spec \in Configs
        /\ {picture.state, picture.previous, picture.memory, picture.previousMemory}
             \subseteq Files
    BY DEF TabTyped, SliderTyped, PictureTyped
  <2> QED
    BY <2>1, <2>2, <2>3, <2>4, <2>5, <2>6, <2>7 DEF TypeOK, Apps
<1> HIDE DEF I
<1> QED
  BY <1>1, <1>2, <1>3, PTL DEF Spec
-----------------------------------------------------------------------------
(* The tab and the last run.                                               *)

\* The mapping has, for every cycle that is recorded, the last one up to it that memory
\* was written for.
MapsMemory(s, config, r) ==
  \A c \in CyclesOf(config, r) :
    /\ c \in DOMAIN s.memoryMapping
    /\ s.memoryMapping[c] = Max({m \in MemoryOf(config, r) : m <= c})

\* What is drawn of a slider was read from these files.
Reads(s, p, states, memory) ==
  /\ p.state = FileOf(states, s.value)
  /\ p.previous = IF s.value = 1 THEN NoFile ELSE FileOf(states, Previous(s))
  /\ p.memory = IF s.value \in DOMAIN s.memoryMapping
                THEN FileOf(memory, s.memoryMapping[s.value]) ELSE NoFile

MarksChanges(s, p, r) ==
  \A n \in Components \ {"IC", "Memory"} : p.hasChanged[n] => s.value \in r.changes[n]

\* The configuration and the mode are those of the run.
Agrees(s, p, config, r) ==
  /\ s.singleStateMode = config.single_state_mode
  /\ MapsMemory(s, config, r)
  /\ p.spec = config

\* A slider and a picture that are of a run with this configuration and recording;
\* "changed" says that another configuration was saved while it ran.
ShowsRun(s, p, config, r, states, memory, changed) ==
  /\ s.maximum = r.last
  /\ Reads(s, p, states, memory) /\ MarksChanges(s, p, r)
  /\ ~changed => Agrees(s, p, config, r)

TabRules ==
  Trusted => ShowsRun(slider, picture, usedConfig[lastRun], recording[lastRun],
                      cpuStates, memories, edited)

-----------------------------------------------------------------------------
\* The files of the last run are complete once the tab is enabled.
LEMMA TrustedIsComplete ==
  LastInv /\ Trusted => Complete(lastRun) /\ status[lastRun] = "done" /\ OfWindow
<1> SUFFICES ASSUME LastInv, Trusted
             PROVE  Complete(lastRun) /\ status[lastRun] = "done" /\ OfWindow
  OBVIOUS
<1>1. OfWindow /\ tabEnabled /\ status[lastRun] = "done"
  BY DEF LastInv, EnabledIsAnswered, Trusted, OfWindow
<1>2. lastRun \in Runs
  BY <1>1 DEF OfWindow, LastInv, Inv, SessionTypes
<1>3. LeftBy(lastRun, usedConfig[lastRun], recording[lastRun], recording[lastRun].last,
             cpuStates, memories)
  BY <1>1 DEF LastInv, FilesAreOfLast, Progress
<1> QED
  BY <1>1, <1>2, <1>3 DEF Complete, LastInv, SessionTyped, ProcessTypes

\* A component is marked in a cycle only if the run changed it in that cycle: the two
\* states that are compared are of this cycle and of the one before.
LEMMA MarkIsChange ==
  ASSUME NEW p, Complete(p), NEW s, s.value \in 1 .. recording[p].last,
         NEW n \in Components \ {"IC", "Memory"}, HasChanged(s, n), ~CompareAborts(s)
  PROVE  s.value \in recording[p].changes[n]
<1> DEFINE r == recording[p]
           v == s.value
<1>1. r \in Recordings /\ r.last \in Cycles /\ v \in Cycles /\ v \in Nat
  BY CyclesAreCycles, CycleNumbers DEF Complete
<1>2. /\ n # "Spec" /\ ~s.singleStateMode /\ s.currentCycleIndex # 1
      /\ PreviousState(s) # NoFile
      /\ CompareStates(n, LoadStateFile(v), PreviousState(s))
  BY DEF HasChanged
<1>3. v # 1 /\ PreviousState(s) = LoadStateFile(v - 1)
  BY <1>2 DEF PreviousState, Previous
<1>4. v - 1 \in Cycles
  BY <1>1, <1>3, CycleNumbers DEF Cycles
<1>5. LoadStateFile(v - 1) = <<p, v - 1>>
  BY <1>2, <1>3, <1>4, FilesOfRun
<1>6. LoadStateFile(v) = <<p, v>>
  <2>1. LoadStateFile(v) # NoFile
    BY <1>2 DEF CompareAborts
  <2> QED
    BY <1>1, <2>1, FilesOfRun
<1>7. Data(n, <<p, v>>) # Data(n, <<p, v - 1>>)
  BY <1>2, <1>3, <1>5, <1>6 DEF CompareStates
<1>8. /\ Data(n, <<p, v>>) = {c \in r.changes[n] : c <= v}
      /\ Data(n, <<p, v - 1>>) = {c \in r.changes[n] : c <= v - 1}
  BY DEF Data
<1>9. \A c \in r.changes[n] : c \in Int
  BY <1>1, ChangesAssumption, CycleNumbers
<1>10. ASSUME v \notin r.changes[n] PROVE FALSE
  <2>1. \A c \in r.changes[n] : c <= v <=> c <= v - 1
    <3>1. \A c \in r.changes[n] : c \in Int /\ c # v
      BY <1>9, <1>10
    <3> HIDE DEF r, v
    <3> QED
      BY <1>1, <3>1
  <2>2. {c \in r.changes[n] : c <= v} = {c \in r.changes[n] : c <= v - 1}
    BY <2>1
  <2> QED
    BY <1>7, <1>8, <2>2
<1> QED
  BY <1>10

\* Drawing the view reads the files of the cycle the slider is at, and marks what the
\* run changed.
LEMMA ViewShows ==
  ASSUME NEW s, NEW p, IsPicture(p), NEW run, Complete(run),
         s.value \in 1 .. recording[run].last, ~CompareAborts(s)
  PROVE  /\ Reads(s, UpdateSimulationView(s, p), cpuStates, memories)
         /\ MarksChanges(s, UpdateSimulationView(s, p), recording[run])
<1>1. Reads(s, UpdateSimulationView(s, p), cpuStates, memories)
  BY ViewIs DEF Reads, LoadStateFile, PreviousState, GetMemoryForCycle, LoadMemoryFile
<1>2. ASSUME NEW n \in Components \ {"IC", "Memory"},
             UpdateSimulationView(s, p).hasChanged[n]
      PROVE  s.value \in recording[run].changes[n]
  BY <1>2, ViewIs, MarkIsChange
<1> QED
  BY <1>1, <1>2 DEF MarksChanges

\* The mapping that is built of the files of a run in its own mode.
LEMMA MappingIs ==
  ASSUME NEW p, Complete(p), NEW s,
         s.memoryMapping = BuildMemoryMapping(recording[p].last, Single(p))
  PROVE  MapsMemory(s, usedConfig[p], recording[p])
<1> DEFINE r == recording[p]
           rec == CyclesOf(usedConfig[p], r)
           mem == MemoryOf(usedConfig[p], r)
           map == [c \in rec |-> Max({1} \union {m \in rec : m <= c /\ memories[m] # NoRun})]
<1>1. /\ rec \subseteq Cycles /\ mem \subseteq rec /\ 1 \in mem
  BY CyclesAreCycles DEF Complete
<1>2. MappedCycles(r.last, Single(p)) = rec
  BY DEF MappedCycles, CyclesOf, Single
<1>3. s.memoryMapping = map
  BY <1>2 DEF BuildMemoryMapping
<1>4. \A c \in Cycles : memories[c] # NoRun <=> c \in mem
  BY FilesOfRun, RecordedIs
<1>5. ASSUME NEW c \in rec
      PROVE  {1} \union {m \in rec : m <= c /\ memories[m] # NoRun} = {m \in mem : m <= c}
  <2>1. 1 <= c
    BY <1>1, CycleNumbers
  <2> HIDE DEF rec, mem
  <2> QED
    BY <1>1, <1>4, <2>1
<1> HIDE DEF rec, mem
<1>6. \A c \in rec : c \in DOMAIN map /\ map[c] = Max({m \in mem : m <= c})
  BY <1>5
<1> QED
  BY <1>3, <1>6 DEF MapsMemory, rec, mem
-----------------------------------------------------------------------------
(* Every step keeps what the tab shows.                                    *)

\* Sliders that differ in nothing the view reads, but for the index.
Alike(s, t) ==
  /\ s.value = t.value /\ s.maximum = t.maximum
  /\ s.singleStateMode = t.singleStateMode /\ s.memoryMapping = t.memoryMapping

LEMMA AlikeShow ==
  ASSUME NEW s, NEW t, Alike(s, t), NEW p, NEW config, NEW r, NEW states, NEW memory,
         NEW changed, ShowsRun(s, p, config, r, states, memory, changed)
  PROVE  ShowsRun(t, p, config, r, states, memory, changed)
<1>1. Reads(t, p, states, memory)
  BY DEF ShowsRun, Reads, Alike, Previous
<1>2. MarksChanges(t, p, r)
  BY DEF ShowsRun, MarksChanges, Alike
<1>3. ~changed => Agrees(t, p, config, r)
  BY DEF ShowsRun, Agrees, MapsMemory, Alike
<1> QED
  BY <1>1, <1>2, <1>3 DEF ShowsRun, Alike

\* With an exception the tab is gone.
LEMMA NotTrusted == TextAborts \/ CleanUpAborts \/ ViewAborts => ~Trusted'
BY DEF TextAborts, CleanUpAborts, ViewAborts, Abort, NewWindow, Trusted

\* A tab that can be trusted could be before, and its files are the same, unless the
\* results were loaded in this step.
LEMMA TrustKept ==
  ASSUME LastInv, Elsewhere \/ ClickElsewhere, Trusted'
  PROVE  /\ Trusted /\ (edited => edited')
         /\ UNCHANGED <<lastRun, usedConfig, recording, cpuStates, memories, viewVars>>
<1>1. app' = "open" /\ tabEnabled' /\ ~late'
  BY DEF Trusted
<1>2. UNCHANGED viewVars
  BY <1>1 DEF Elsewhere, ClickElsewhere, TabKept
<1>3. CASE UNCHANGED <<app, tabEnabled, late, edited, lastRun, usedConfig, recording, cpuStates, memories>>
  BY <1>1, <1>2, <1>3 DEF Trusted
<1>4. CASE Save \/ SetConfig \/ \E c \in Configs : Edit(c)
  <2>1. UNCHANGED <<app, tabEnabled, late, lastRun, usedConfig, recording, cpuStates, memories>>
    BY <1>4 DEF Save, SetConfig, Edit, ConfigStep, processVars, fileVars
  <2>2. edited => edited'
    <3>1. CASE Save
      BY <3>1, Zenon DEF Save
    <3>2. CASE SetConfig
      BY <3>2, Zenon DEF SetConfig
    <3>3. CASE \E c \in Configs : Edit(c)
      BY <3>3 DEF Edit
    <3> QED
      BY <1>4, <3>1, <3>2, <3>3
  <2> QED
    BY <1>1, <1>2, <2>1, <2>2 DEF Trusted
<1>5. CASE Start \/ CloseFailure \/ Close
  BY <1>1, <1>5, NotTrusted DEF Start, CloseFailure, Close, NewWindow
<1>6. CASE OpenDialog \/ CloseFileDialog \/ ConvertAsmToHex \/ CancelSimulation
  BY <1>1, <1>3, <1>6, NotTrusted
  DEF OpenDialog, CloseFileDialog, ConvertAsmToHex, CancelSimulation, Abort, NewWindow, Kill,
      processVars, fileVars, historyVars
<1>7. ASSUME NEW p \in Runs, ProcessStep(p) PROVE FALSE
  <2>1. /\ status[p] = "running" /\ UNCHANGED <<app, tabEnabled, late>>
    BY <1>7 DEF ProcessStep, WriteCycle, Exits, Fails, Sticks, ProcessIs, windowVars,
                historyVars
  <2>2. Trusted
    BY <1>1, <2>1 DEF Trusted
  <2>3. p = lastRun
    BY <2>1, <2>2 DEF Trusted, LastInv, Inv, OnlyLast, AtWork, Working
  <2> QED
    BY <2>1, <2>2, <2>3, TrustedIsComplete
<1>8. ASSUME NEW p \in Runs, NEW starts \in BOOLEAN, NEW r \in Recordings,
             ExecuteSimulation(p, starts, r)
      PROVE  FALSE
  BY <1>1, <1>8, NotTrusted DEF ExecuteSimulation, RunStarted
<1>9. ASSUME NEW p \in Runs, FailureReported(p) \/ CancelledAnswered(p)
      PROVE  UNCHANGED <<app, tabEnabled, late, edited, lastRun, usedConfig, recording,
                         cpuStates, memories>>
  BY <1>1, <1>9
  DEF FailureReported, CancelledAnswered, Answers, Abort, NewWindow, fileVars, historyVars
<1> QED
  BY <1>3, <1>4, <1>5, <1>6, <1>7, <1>8, <1>9 DEF Elsewhere, ClickElsewhere

LEMMA ElsewhereShows ==
  LastInv /\ TabRules /\ (Elsewhere \/ ClickElsewhere) => TabRules'
<1> SUFFICES ASSUME LastInv, TabRules, Elsewhere \/ ClickElsewhere, Trusted'
             PROVE  TabRules'
  BY DEF TabRules
<1>1. /\ Trusted /\ (edited => edited')
      /\ UNCHANGED <<lastRun, usedConfig, recording, cpuStates, memories, slider, picture>>
  BY TrustKept DEF viewVars
<1>2. ShowsRun(slider, picture, usedConfig[lastRun], recording[lastRun],
               cpuStates, memories, edited)
  BY <1>1 DEF TabRules
<1>3. ShowsRun(slider, picture, usedConfig[lastRun], recording[lastRun],
               cpuStates, memories, edited')
  BY <1>1, <1>2 DEF ShowsRun
<1> QED
  BY <1>1, <1>3 DEF TabRules

\* The slider moves, and the view is drawn if its value changes.
LEMMA MoveShows ==
  ASSUME LastInv, TabTyped, TabRules, NEW v \in Int, NEW u,
         Alike(SetValue(slider, v), u), MoveTo(SetValue(slider, v), u)
  PROVE  TabRules'
<1> DEFINE t == SetValue(slider, v)
           r == recording[lastRun]
           config == usedConfig[lastRun]
<1> SUFFICES ASSUME Trusted'
             PROVE  ShowsRun(u, picture', config, r, cpuStates, memories, edited)
                    /\ UNCHANGED sessionVars /\ slider' = u
  BY DEF TabRules, sessionVars
<1>1. /\ ~MovingAborts(slider, t, picture)
      /\ slider' = u /\ picture' = Moved(slider, t, picture)
      /\ UNCHANGED sessionVars
  BY DEF MoveTo, Trusted, ViewAborts, Abort
<1>2. Trusted
  BY <1>1 DEF Trusted, sessionVars
<1>3. ShowsRun(slider, picture, config, r, cpuStates, memories, edited)
  BY <1>2 DEF TabRules
<1>4. IsSlider(slider) /\ slider.maximum \in Cycles /\ IsPicture(picture)
  BY DEF TabTyped, SliderTyped, PictureTyped
<1>5. /\ t.maximum = slider.maximum /\ t.singleStateMode = slider.singleStateMode
      /\ t.memoryMapping = slider.memoryMapping /\ t.value \in 1 .. slider.maximum
  BY <1>4, SetValueIs
<1> HIDE DEF t
<1>6. ShowsRun(t, picture', config, r, cpuStates, memories, edited)
  <2>1. CASE t.value = slider.value
    <3>1. Alike(slider, t) /\ picture' = picture
      BY <1>1, <1>5, <2>1 DEF Alike, Moved
    <3> QED
      BY <1>3, <3>1, AlikeShow
  <2>2. CASE t.value # slider.value
    <3>1. picture' = UpdateSimulationView(t, picture) /\ ~CompareAborts(t)
      BY <1>1, <2>2 DEF Moved, MovingAborts, DrawingAborts
    <3>2. Complete(lastRun) /\ t.value \in 1 .. r.last /\ t.maximum = r.last
      BY <1>2, <1>3, <1>5, TrustedIsComplete DEF ShowsRun
    <3>3. Reads(t, picture', cpuStates, memories) /\ MarksChanges(t, picture', r)
      BY <1>4, <3>1, <3>2, ViewShows
    <3>4. picture'.spec = picture.spec
      BY <1>4, <3>1, ViewIs
    <3>5. ~edited => Agrees(t, picture', config, r)
      BY <1>3, <1>5, <3>4 DEF ShowsRun, Agrees, MapsMemory
    <3> QED
      BY <3>2, <3>3, <3>5 DEF ShowsRun
  <2> QED
    BY <2>1, <2>2
<1>7. Alike(t, u)
  BY DEF t
<1> QED
  BY <1>1, <1>6, <1>7, AlikeShow

\* The slider and the timer.
LEMMA MovesShow == LastInv /\ TabTyped /\ TabRules /\ MovesOrToggles => TabRules'
<1> SUFFICES ASSUME LastInv, TabTyped, TabRules, MovesOrToggles PROVE TabRules'
  OBVIOUS
<1>1. CASE TogglePlayPause
  <2>1. Alike(slider, slider') /\ UNCHANGED <<picture, sessionVars>>
    BY <1>1, ToggleIs DEF TogglePlayPause, TabTyped, Alike
  <2>2. SUFFICES ASSUME Trusted'
                 PROVE  ShowsRun(slider', picture, usedConfig[lastRun], recording[lastRun],
                                 cpuStates, memories, edited)
    BY <2>1 DEF TabRules, sessionVars
  <2>3. Trusted
    BY <2>1, <2>2 DEF Trusted, sessionVars
  <2> QED
    BY <2>1, <2>3, AlikeShow DEF TabRules
<1>2. ASSUME NEW v \in Cycles \union {0}
      PROVE  /\ v \in Int /\ Alike(SetValue(slider, v), SetValue(slider, v))
             /\ \A i \in Cycles \union {0} :
                  Alike(SetValue(slider, v), [SetValue(slider, v) EXCEPT !.currentCycleIndex = i])
  <2>1. v \in Int /\ SliderTyped(SetValue(slider, v))
    BY SetValueTyped, CycleNumbers DEF TabTyped
  <2> QED
    BY <2>1, IndexIs DEF Alike
<1> QED
  BY <1>1, <1>2, MoveShows DEF MovesOrToggles, Moves

\* The mouse.
LEMMA MouseShows ==
  ASSUME LastInv, TabTyped, TabRules, NEW n, Hover(n) \/ Press(n) PROVE TabRules'
<1> SUFFICES ASSUME Trusted' PROVE TabRules'
  BY DEF TabRules
<1>1. ~(ViewAborts /\ FreshView)
  BY DEF Trusted, ViewAborts, Abort
<1>2. /\ UNCHANGED <<slider, sessionVars>>
      /\ picture'.spec = picture.spec /\ picture'.state = picture.state
      /\ picture'.previous = picture.previous /\ picture'.memory = picture.memory
      /\ picture'.hasChanged = picture.hasChanged
  BY <1>1, MouseIs
<1>3. Trusted
  BY <1>2 DEF Trusted, sessionVars
<1>4. ShowsRun(slider, picture, usedConfig[lastRun], recording[lastRun],
               cpuStates, memories, edited)
  BY <1>3 DEF TabRules
<1>5. ShowsRun(slider, picture', usedConfig[lastRun], recording[lastRun],
               cpuStates, memories, edited)
  BY <1>2, <1>4 DEF ShowsRun, Reads, MarksChanges, Agrees
<1> QED
  BY <1>2, <1>5 DEF TabRules, sessionVars

\* The results are loaded: the view is drawn for the cycle the slider happens to be at
\* and, if that is not the first, for the first.
LEMMA LoadShows ==
  ASSUME LastInv, TabTyped, TabRules, NEW p \in Runs, LoadResults(p) PROVE TabRules'
<1> SUFFICES ASSUME Trusted' PROVE TabRules'
  BY DEF TabRules
<1>1. /\ SuccessAnswered(p) /\ ~late
      /\ UNCHANGED <<lastRun, edited, usedConfig, recording, cpuStates, memories>>
  BY DEF LoadResults, SuccessAnswered, Answers, fileVars, historyVars, Trusted
<1>2. /\ Complete(p) /\ GetMaxCycleNumber = recording[p].last /\ GetMaxCycleNumber # 0
  BY <1>1, SuccessHasFiles
<1>3. ~LoadAborts /\ ShowResults
  BY <1>2 DEF LoadResults, Trusted, Abort
<1> DEFINE loaded == LoadSimulationData(slider)
           r == recording[p]
           config == usedConfig[p]
           first == SetValue(loaded, 1)
           drawn == UpdateSimulationView(loaded, WithSpec(picture))
<1>4. p = lastRun /\ (~edited => currConfig = config)
  BY <1>1, SuccessIsOfLast
<1>5. /\ SliderTyped(loaded) /\ loaded.maximum = r.last
      /\ loaded.singleStateMode = currConfig.single_state_mode
      /\ loaded.memoryMapping = BuildMemoryMapping(r.last, loaded.singleStateMode)
  BY <1>2, LoadedIs DEF TabTyped, SessionTyped, LastInv
<1>6. /\ ~CompareAborts(loaded) /\ ~CompareAborts(first)
      /\ slider' = first /\ picture' = Moved(loaded, first, drawn)
  BY <1>3 DEF LoadAborts, DrawingAborts, ShowResults, GoToFirstCycle
<1> HIDE DEF loaded
<1>7. /\ first.maximum = r.last /\ first.singleStateMode = loaded.singleStateMode
      /\ first.memoryMapping = loaded.memoryMapping
      /\ first.value \in 1 .. r.last /\ loaded.value \in 1 .. r.last
  BY <1>5, SetValueIs DEF SliderTyped
<1> HIDE DEF first
<1>8. IsPicture(WithSpec(picture)) /\ WithSpec(picture).spec = currConfig
  BY DEF TabTyped, PictureTyped, WithSpec, IsPicture, FreshPicture
<1>9. /\ IsPicture(drawn) /\ drawn.spec = currConfig
      /\ Reads(loaded, drawn, cpuStates, memories) /\ MarksChanges(loaded, drawn, r)
  BY <1>2, <1>6, <1>7, <1>8, ViewIs, ViewShows
<1> HIDE DEF drawn
<1>10. /\ Reads(first, picture', cpuStates, memories) /\ MarksChanges(first, picture', r)
       /\ picture'.spec = currConfig
  <2>1. CASE first.value = loaded.value
    <3>1. picture' = drawn
      BY <1>6, <2>1 DEF Moved
    <3> QED
      BY <1>7, <1>9, <2>1, <3>1 DEF Reads, MarksChanges, Previous
  <2>2. CASE first.value # loaded.value
    <3>1. picture' = UpdateSimulationView(first, drawn)
      BY <1>6, <2>2 DEF Moved
    <3> QED
      BY <1>2, <1>6, <1>7, <1>9, <3>1, ViewIs, ViewShows
  <2> QED
    BY <2>1, <2>2
<1>11. ~edited => Agrees(first, picture', config, r)
  <2> SUFFICES ASSUME ~edited PROVE Agrees(first, picture', config, r)
    OBVIOUS
  <2>1. first.singleStateMode = config.single_state_mode /\ picture'.spec = config
    BY <1>4, <1>5, <1>7, <1>10
  <2>2. first.memoryMapping = BuildMemoryMapping(r.last, Single(p))
    BY <1>5, <1>7, <2>1 DEF Single
  <2>3. MapsMemory(first, config, r)
    BY <1>2, <2>2, MappingIs
  <2> QED
    BY <2>1, <2>3 DEF Agrees
<1>12. ShowsRun(slider', picture', config, r, cpuStates, memories, edited)
  BY <1>6, <1>7, <1>10, <1>11 DEF ShowsRun
<1> QED
  BY <1>1, <1>4, <1>12 DEF TabRules

LEMMA NextShows == LastInv /\ TabTyped /\ TabRules /\ [Next]_vars => TabRules'
<1> SUFFICES ASSUME LastInv, TabTyped, TabRules, [Next]_vars PROVE TabRules'
  OBVIOUS
<1>1. CASE UNCHANGED vars
  BY <1>1 DEF vars, viewVars, sessionVars, TabRules, Trusted
<1>2. CASE Elsewhere \/ ClickElsewhere
  BY <1>2, ElsewhereShows
<1>3. CASE SwitchAnyway
  <2>1. Top("noStates") /\ (ViewAborts \/ late' = late)
    BY <1>3 DEF SwitchAnyway, CloseNoResults, historyVars
  <2>2. late
    BY <2>1, NoStatesIsLate
  <2>3. CASE late' = late
    BY <2>2, <2>3 DEF TabRules, Trusted
  <2>4. CASE ViewAborts
    BY <2>4 DEF TabRules, Trusted, ViewAborts, Abort
  <2> QED
    BY <2>1, <2>3, <2>4
<1>4. CASE MovesOrToggles
  BY <1>4, MovesShow
<1>5. ASSUME NEW n, Hover(n) \/ Press(n) PROVE TabRules'
  BY <1>5, MouseShows
<1>6. ASSUME NEW p \in Runs, LoadResults(p) PROVE TabRules'
  BY <1>6, LoadShows
<1> QED
  BY <1>1, <1>2, <1>3, <1>4, <1>5, <1>6, ClickMoves, TickMoves DEF Next

InterfaceInv == LastInv /\ TabTyped /\ TabRules

LEMMA AlwaysInterfaceInv == Spec => []InterfaceInv
<1>1. Init => InterfaceInv
  <2> SUFFICES ASSUME Init PROVE InterfaceInv
    OBVIOUS
  <2>1. ~Trusted
    BY DEF Init, SessionInit, FreshWindow, Trusted
  <2> QED
    BY <2>1, InitLast, FreshIsTyped DEF Init, InterfaceInv, TabTyped, TabRules
<1>2. InterfaceInv /\ [Next]_vars => InterfaceInv'
  BY NextLast, NextTabTyped, NextShows DEF InterfaceInv, LastInv
<1> QED
  BY <1>1, <1>2, PTL DEF Spec

\* The cycle the slider is at, of the last run and of no other, with memory as it was
\* then (SimulationTab.LoadSimulationData, BuildMemoryMapping).
THEOREM ShownIsRecordedHolds == Spec => []ShownIsRecorded
<1>1. InterfaceInv => ShownIsRecorded
  <2> SUFFICES ASSUME InterfaceInv, Trusted
               PROVE  LET c == slider.value IN
                      /\ slider.maximum = recording[lastRun].last
                      /\ picture.state = IF c \in Recorded(lastRun) THEN <<lastRun, c>> ELSE NoFile
                      /\ ~edited /\ c \in Recorded(lastRun) =>
                           picture.memory =
                             <<lastRun, Max({m \in MemoryWritten(lastRun) : m <= c})>>
    BY DEF ShownIsRecorded
  <2> DEFINE c == slider.value
             r == recording[lastRun]
             config == usedConfig[lastRun]
             S == {m \in MemoryWritten(lastRun) : m <= c}
  <2>1. ShowsRun(slider, picture, config, r, cpuStates, memories, edited)
    BY DEF InterfaceInv, TabRules
  <2>2. Complete(lastRun)
    BY TrustedIsComplete DEF InterfaceInv
  <2>3. r \in Recordings
    BY <2>2 DEF Complete
  <2>4. c \in Cycles
    BY CycleNumbers DEF InterfaceInv, TabTyped, SliderTyped
  <2>5. picture.state = IF c \in Recorded(lastRun) THEN <<lastRun, c>> ELSE NoFile
    BY <2>1, <2>2, <2>4, FilesOfRun DEF ShowsRun, Reads, LoadStateFile
  <2>6. ASSUME ~edited, c \in Recorded(lastRun) PROVE picture.memory = <<lastRun, Max(S)>>
    <3>1. /\ c \in DOMAIN slider.memoryMapping /\ slider.memoryMapping[c] = Max(S)
      BY <2>1, <2>6, RecordedIs DEF ShowsRun, Agrees, MapsMemory
    <3>2. picture.memory = LoadMemoryFile(Max(S))
      BY <2>1, <3>1 DEF ShowsRun, Reads, LoadMemoryFile
    <3>3. Max(S) \in S
      <4>1. MemoryWritten(lastRun) \subseteq Cycles /\ 1 \in MemoryWritten(lastRun)
        BY <2>3, RecordedIs, CyclesAreCycles
      <4>2. S \subseteq 0 .. MaxCycle /\ 1 \in S /\ MaxCycle \in Nat
        BY <2>4, <4>1, CycleNumbers DEF Cycles
      <4> HIDE DEF S
      <4> QED
        BY <4>2, MaxIsGreatest
    <3>4. Max(S) \in MemoryWritten(lastRun) /\ MemoryWritten(lastRun) \subseteq Cycles
      BY <2>3, <3>3, RecordedIs, CyclesAreCycles
    <3> HIDE DEF S
    <3> QED
      BY <2>2, <3>2, <3>4, FilesOfRun
  <2> QED
    BY <2>1, <2>5, <2>6 DEF ShowsRun
<1> QED
  BY <1>1, AlwaysInterfaceInv, PTL

\* The configuration shown with the results (SimulationTab.LoadSimulationData).
THEOREM SpecIsOfRunHolds == Spec => []SpecIsOfRun
<1>1. InterfaceInv => SpecIsOfRun
  BY DEF InterfaceInv, TabRules, ShowsRun, Agrees, SpecIsOfRun
<1> QED
  BY <1>1, AlwaysInterfaceInv, PTL

\* A component is marked in the cycles the run changed it in
\* (DiagramComponents.HasChanged, SimulationTab.UpdateComponentStates).
THEOREM NoFalseMarksHolds == Spec => []NoFalseMarks
<1>1. InterfaceInv => NoFalseMarks
  BY DEF InterfaceInv, TabRules, ShowsRun, MarksChanges, NoFalseMarks
<1> QED
  BY <1>1, AlwaysInterfaceInv, PTL
-----------------------------------------------------------------------------
(* What ends the program.                                                  *)

\* The configuration in force has larger sets than the one the run was given.
LargerSets(p) ==
  currConfig.ls_cache_set_entries_count > usedConfig[p].ls_cache_set_entries_count

\* The two states that are read are of the run whose files are there.
LEMMA StatesAreOfRun ==
  ASSUME NEW p, Complete(p), NEW s, s.value \in 1 .. recording[p].last
  PROVE  {LoadStateFile(s.value), PreviousState(s)} \subseteq {NoFile} \union ({p} \X Cycles)
<1>1. recording[p].last \in Cycles /\ s.value \in Cycles /\ s.value \in Nat
  BY CyclesAreCycles, CycleNumbers DEF Complete
<1>2. \A c \in Cycles : LoadStateFile(c) \in {NoFile} \union ({p} \X Cycles)
  BY FilesOfRun
<1>3. s.value # 1 => Previous(s) \in Cycles
  BY <1>1, CycleNumbers DEF Previous, Cycles
<1> QED
  BY <1>1, <1>2, <1>3 DEF PreviousState

LEMMA MissingIsLarger ==
  ASSUME NEW p, NEW n, NEW files, files \subseteq {NoFile} \union ({p} \X Cycles),
         LinesMissing(n, files)
  PROVE  LargerSets(p)
<1>1. PICK file \in files \ {NoFile} :
        currConfig.ls_cache_set_entries_count
          > usedConfig[file[1]].ls_cache_set_entries_count
  BY DEF LinesMissing
<1>2. file[1] = p
  BY <1>1
<1> QED
  BY <1>1, <1>2 DEF LargerSets

\* With all a run recorded there, the view can be drawn for a cycle that is recorded, and
\* where nothing is compared.
LEMMA DrawingAbortIsLarger ==
  ASSUME NEW p, Complete(p), NEW s, s.value \in 1 .. recording[p].last, NEW q,
         s.singleStateMode \/ s.currentCycleIndex = 1 \/ s.value \in Recorded(p),
         DrawingAborts(s, q)
  PROVE  LargerSets(p)
<1>1. ~CompareAborts(s)
  <2>1. CASE s.singleStateMode \/ s.currentCycleIndex = 1
    BY <2>1 DEF CompareAborts
  <2>2. CASE s.value \in Recorded(p)
    <3>1. s.value \in Cycles
      BY CyclesAreCycles, CycleNumbers DEF Complete
    <3>2. LoadStateFile(s.value) = <<p, s.value>>
      BY <2>2, <3>1, FilesOfRun
    <3>3. LoadStateFile(s.value) # NoFile
      BY <3>2 DEF NoFile
    <3> QED
      BY <3>3 DEF CompareAborts
  <2> QED
    BY <2>1, <2>2
<1> QED
  BY <1>1, StatesAreOfRun, MissingIsLarger DEF DrawingAborts

\* The slider moves in what the last run recorded.
LEMMA MoveAbortIsLarger ==
  ASSUME InterfaceInv, Trusted, ~edited, app' # "open", NEW v \in Int, NEW u,
         MoveTo(SetValue(slider, v), u)
  PROVE  LargerSets(lastRun)
<1> DEFINE t == SetValue(slider, v)
           r == recording[lastRun]
<1>1. DrawingAborts(t, picture)
  BY DEF MoveTo, MovingAborts, Trusted, sessionVars
<1>2. Complete(lastRun)
  BY TrustedIsComplete DEF InterfaceInv
<1>3. /\ slider.maximum = r.last
      /\ slider.singleStateMode = usedConfig[lastRun].single_state_mode
  BY DEF InterfaceInv, TabRules, ShowsRun, Agrees
<1>4. t.value \in 1 .. r.last /\ t.singleStateMode = slider.singleStateMode
  BY <1>3, SetValueIs DEF InterfaceInv, TabTyped, SliderTyped
<1> HIDE DEF t
<1>5. t.singleStateMode \/ t.value \in Recorded(lastRun)
  BY <1>3, <1>4, RecordedIs DEF CyclesOf
<1> QED
  BY <1>1, <1>2, <1>4, <1>5, DrawingAbortIsLarger

LEMMA MovesAbort ==
  ASSUME InterfaceInv, Trusted, ~edited, app' # "open", MovesOrToggles
  PROVE  LargerSets(lastRun)
<1>1. ~TogglePlayPause
  BY DEF TogglePlayPause, Trusted, sessionVars
<1>2. \A v \in Cycles \union {0} : v \in Int
  BY CycleNumbers
<1> QED
  BY <1>1, <1>2, MoveAbortIsLarger DEF MovesOrToggles, Moves

\* A component is pressed, and its details are made of the states that were read.
LEMMA PressAborts ==
  ASSUME InterfaceInv, Trusted, app' # "open", NEW n, Press(n)
  PROVE  LargerSets(lastRun)
<1>1. LinesMissing(n, {picture.state, picture.previous})
  BY DEF Press, Trusted, sessionVars
<1>2. Complete(lastRun) /\ slider.maximum = recording[lastRun].last
  BY TrustedIsComplete DEF InterfaceInv, TabRules, ShowsRun
<1>3. slider.value \in 1 .. recording[lastRun].last
  BY <1>2 DEF InterfaceInv, TabTyped, SliderTyped
<1>4. picture.state = LoadStateFile(slider.value) /\ picture.previous = PreviousState(slider)
  BY DEF InterfaceInv, TabRules, ShowsRun, Reads, LoadStateFile, PreviousState
<1> QED
  BY <1>1, <1>2, <1>3, <1>4, StatesAreOfRun, MissingIsLarger

\* The results of the last run are loaded, with the slider where an earlier run left it:
\* shortened, it is at a cycle that is recorded.
LEMMA LoadAbortIsLarger ==
  ASSUME InterfaceInv, ~late, app' # "open", NEW p \in Runs, LoadResults(p)
  PROVE  p = lastRun /\ LargerSets(p)
<1> DEFINE short == Shortened(slider)
           loaded == LoadSimulationData(slider)
           first == SetValue(loaded, 1)
           r == recording[p]
<1>1. SuccessAnswered(p) /\ app = "open" /\ p = lastRun
  BY SuccessIsOfLast DEF LoadResults, SuccessAnswered, Answers, InterfaceInv
<1>2. Complete(p) /\ GetMaxCycleNumber = r.last /\ GetMaxCycleNumber # 0
  BY <1>1, SuccessHasFiles DEF InterfaceInv
<1>3. r.last > 1 /\ r.last \in Recorded(p) /\ r.last \in Nat
  BY <1>2, RecordedIs, CyclesAreCycles, CycleNumbers DEF Complete
<1>4. LoadAborts
  BY <1>1, <1>2 DEF LoadResults, ResultsLoaded
<1>5. /\ short.value \in 1 .. r.last
      /\ short.value # slider.value => short.value = r.last
      /\ SliderTyped(loaded) /\ loaded.maximum = r.last /\ loaded.currentCycleIndex = 1
  BY <1>2, LoadedIs DEF InterfaceInv, TabTyped, LastInv, SessionTyped
<1>6. /\ first.value \in 1 .. r.last /\ loaded.value \in 1 .. r.last
      /\ first.currentCycleIndex = 1
  <2> HIDE DEF loaded
  <2> QED
    BY <1>5, SetValueIs DEF SliderTyped
<1>7. ~StepOfMappingIsZero
  BY <1>2, <1>3 DEF StepOfMappingIsZero
<1>8. \/ short.value # slider.value /\ DrawingAborts(short, picture)
      \/ DrawingAborts(loaded, picture) \/ DrawingAborts(first, picture)
  BY <1>4, <1>7 DEF LoadAborts, MovingAborts, GoToFirstCycle
<1> HIDE DEF short, loaded, first
<1> QED
  BY <1>1, <1>2, <1>3, <1>5, <1>6, <1>8, DrawingAbortIsLarger

\* When a run can be started or the report of a failure is open, a process that may have
\* a file open was not answered, or works on without a window.
LEMMA RemovalIsOfUnanswered ==
  ASSUME Inv, app = "open", buttons \/ dialogs # <<>>, CleanUpAborts
  PROVE  late \/ Unanswered
<1> SUFFICES ASSUME ~late PROVE Unanswered
  OBVIOUS
<1>1. PICK p \in Runs : MayHoldFile(p)
  BY DEF CleanUpAborts
<1>2. CASE p \in connected /\ status[p] = "killed"
  BY <1>2 DEF Unanswered, Over
<1>3. CASE status[p] \in Working
  BY <1>3 DEF Inv, IdleInBetween, AtWork, Unanswered
<1> QED
  BY <1>1, <1>2, <1>3 DEF MayHoldFile

\* Outside the tab a text or a file to be removed may end the program, but not Cancel,
\* which always has a process to kill.
LEMMA ElsewhereAborts ==
  ASSUME Inv, Elsewhere \/ ClickElsewhere, app = "open"
  PROVE  app' \notin {"kill", "view"} /\ (app' = "removal" => late \/ Unanswered)
<1> DEFINE Goal == app' \notin {"kill", "view"} /\ (app' = "removal" => late \/ Unanswered)
<1>1. CASE Start \/ Close
  BY <1>1 DEF Start, Close
<1>2. CASE Save \/ SetConfig \/ \E c \in Configs : Edit(c)
  BY <1>2 DEF Save, SetConfig, Edit, ConfigStep
<1>3. TextAborts => Goal
  BY DEF TextAborts, Abort
<1>4. CleanUpAborts /\ (buttons \/ dialogs # <<>>) => Goal
  BY RemovalIsOfUnanswered DEF CleanUpAborts, Abort
<1>5. CASE CloseFileDialog \/ ConvertAsmToHex \/ OpenDialog
  BY <1>3, <1>5 DEF CloseFileDialog, ConvertAsmToHex, OpenDialog
<1>6. CASE CancelSimulation
  BY <1>6 DEF CancelSimulation, Inv, CancelHasProcess
<1>7. CASE CloseFailure
  BY <1>4, <1>7 DEF CloseFailure, Top
<1>8. ASSUME NEW p \in Runs, NEW starts \in BOOLEAN, NEW r \in Recordings,
             ExecuteSimulation(p, starts, r)
      PROVE  Goal
  BY <1>3, <1>4, <1>8 DEF ExecuteSimulation, RunStarted
<1>9. ASSUME NEW p \in Runs, ProcessStep(p) \/ FailureReported(p) \/ CancelledAnswered(p)
      PROVE  Goal
  BY <1>9 DEF ProcessStep, FailureReported, CancelledAnswered, Abort, windowVars
<1> QED
  BY <1>1, <1>2, <1>5, <1>6, <1>7, <1>8, <1>9 DEF Elsewhere, ClickElsewhere

\* The simulation tab, and loading the results into it, end the program in one way.
LEMMA TabAborts ==
  ASSUME [Next]_vars, ~Elsewhere, ~ClickElsewhere, app = "open"
  PROVE  app' \in {"open", "view"}
<1>1. ViewAborts \/ UNCHANGED sessionVars => app' \in {"open", "view"}
  BY DEF ViewAborts, Abort, sessionVars
<1>2. CASE UNCHANGED vars
  BY <1>2 DEF vars, sessionVars
<1>3. CASE SwitchAnyway
  BY <1>1, <1>3 DEF SwitchAnyway, CloseNoResults
<1>4. CASE ClickAtTab
  BY <1>1, <1>4, TabIsSession
<1>5. CASE Tick
  BY <1>1, <1>5, IncreaseIsSession DEF Tick
<1>6. CASE \E p \in Runs : LoadResults(p)
  BY <1>6, LoadingIsSession DEF ResultsLoaded, NoResults, Abort
<1> QED
  BY <1>2, <1>3, <1>4, <1>5, <1>6 DEF Next

\* What the tab ends the program by: overlapping runs, a configuration saved while the run
\* was at work or with larger sets of the LS cache, the timer.
ViewWays == \/ late \/ edited
            \/ \E p \in Runs : /\ p = lastRun
                               /\ currConfig.ls_cache_set_entries_count
                                    > usedConfig[p].ls_cache_set_entries_count
            \/ slider.isPlaying /\ ~tabEnabled

LEMMA ViewAbortsAreKnown ==
  ASSUME InterfaceInv, [Next]_vars, app = "open", app' = "view" PROVE ViewWays
<1> SUFFICES ASSUME ~late, ~edited PROVE ViewWays
  BY DEF ViewWays
<1>1. app' # "open" /\ app' # app
  OBVIOUS
<1>2. Next
  BY <1>1 DEF vars, sessionVars
<1>3. ASSUME tabEnabled, LargerSets(lastRun) PROVE ViewWays
  <2>1. lastRun \in Runs
    BY <1>3, TrustedIsComplete DEF InterfaceInv, Trusted, Complete
  <2> QED
    BY <1>3, <2>1 DEF LargerSets, ViewWays
<1>4. CASE Elsewhere \/ ClickElsewhere
  BY <1>4, ElsewhereAborts DEF InterfaceInv, LastInv
<1>5. CASE SwitchAnyway
  <2>1. Top("noStates")
    BY <1>5 DEF SwitchAnyway, CloseNoResults
  <2> QED
    BY <2>1, NoStatesIsLate DEF InterfaceInv
<1>6. CASE ClickAtTab
  <2>1. Trusted /\ ~\E n : Hover(n)
    BY <1>6, ClickMoves DEF InterfaceInv, Trusted, TabTurn, Hover, sessionVars
  <2>2. MovesOrToggles \/ \E n \in Components : Press(n)
    BY <1>6, <2>1, ClickMoves DEF InterfaceInv
  <2>3. LargerSets(lastRun)
    BY <1>1, <2>1, <2>2, MovesAbort, PressAborts
  <2> QED
    BY <1>3, <2>1, <2>3 DEF Trusted
<1>7. CASE Tick
  <2>1. slider.isPlaying /\ MovesOrToggles
    BY <1>7, TickMoves DEF InterfaceInv, Tick
  <2>2. CASE tabEnabled
    <3>1. LargerSets(lastRun)
      BY <1>1, <2>1, <2>2, MovesAbort DEF Trusted
    <3> QED
      BY <1>3, <2>2, <3>1
  <2> QED
    BY <2>1, <2>2 DEF ViewWays
<1>8. ASSUME NEW p \in Runs, LoadResults(p) PROVE ViewWays
  BY <1>1, <1>8, LoadAbortIsLarger DEF LargerSets, ViewWays
<1> QED
  BY <1>2, <1>4, <1>5, <1>6, <1>7, <1>8 DEF Next

\* Cancel never ends the program; a file that cannot be removed does only with an earlier
\* run not answered or at work without its window; and the simulation tab only in the ways
\* named (InputTab.CleanUpSimulationDir, CancelSimulation, SimulationTab.CompareStates).
\* That a text can be written or read is not claimed.
THEOREM AbortsAreKnownHolds == Spec => AbortsAreKnown
<1>1. InterfaceInv /\ [Next]_vars =>
        [app = "open" =>
           /\ app' # "kill"
           /\ app' = "removal" => late \/ Unanswered
           /\ app' = "view" => ViewWays]_vars
  <2> SUFFICES ASSUME InterfaceInv, [Next]_vars, app = "open"
               PROVE  /\ app' # "kill"
                      /\ app' = "removal" => late \/ Unanswered
                      /\ app' = "view" => ViewWays
    OBVIOUS
  <2>1. CASE Elsewhere \/ ClickElsewhere
    BY <2>1, ElsewhereAborts DEF InterfaceInv, LastInv
  <2>2. CASE ~Elsewhere /\ ~ClickElsewhere
    BY <2>2, TabAborts, ViewAbortsAreKnown
  <2> QED
    BY <2>1, <2>2
<1>2. InterfaceInv /\ [Next]_vars =>
        [app = "open" =>
           /\ app' # "kill"
           /\ app' = "removal" => late \/ Unanswered
           /\ app' = "view" =>
                \/ late \/ edited
                \/ \E p \in Runs : /\ p = lastRun
                                   /\ currConfig.ls_cache_set_entries_count
                                        > usedConfig[p].ls_cache_set_entries_count
                \/ slider.isPlaying /\ ~tabEnabled]_vars
  BY <1>1 DEF ViewWays
<1> QED
  BY <1>2, AlwaysInterfaceInv, PTL DEF Spec, AbortsAreKnown
=============================================================================
