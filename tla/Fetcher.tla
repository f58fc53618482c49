------------------------------ MODULE Fetcher -------------------------------
(***************************************************************************)
(* What the Instruction Cache promises to Decode: it sends the windows of  *)
(* memory one after the other from its internal IP on, and starts over at  *)
(* the window of a signalled address as soon as an operation has ended     *)
(* (InstructionCache.cpp 69-107).  Contents and caching are left out.      *)
(***************************************************************************)
EXTENDS Addresses, Sequences

CONSTANTS
  StartAddr,    \* SIM_START_ADDR
  Targets,      \* bound: addresses Decode may signal
  MaxFetched,   \* bound: windows waiting for Decode
  MaxSignals    \* bound: signals waiting for the Instruction Cache

VARIABLES
  internalIP,  \* window to fetch next
  icOp,        \* operation of the IC thread, with the window it is about
  toDE,        \* IC -> DE: windows
  fromDE       \* DE -> IC: addresses to start over from

fetchVars == <<internalIP, icOp, toDE, fromDE>>

Idle == [stage |-> "idle"]
-----------------------------------------------------------------------------
NextWindow(w) == (w + WindowWords) % NumAddr

\* An operation starts (there is no limit on waiting windows in the code).
BeginFetch ==
  /\ icOp.stage = "idle"
  /\ Len(toDE) < MaxFetched
  /\ icOp' = [stage |-> "fetch", at |-> internalIP]
  /\ UNCHANGED <<internalIP, toDE, fromDE>>

EndFetch ==
  /\ icOp.stage = "fetch"
  /\ icOp' = [icOp EXCEPT !.stage = "check"]
  /\ internalIP' = NextWindow(internalIP)
  /\ UNCHANGED <<toDE, fromDE>>

\* checkIPChangeSignal: the window fetched is dropped.
ObeySignal ==
  /\ icOp.stage = "check"
  /\ fromDE # <<>>
  /\ internalIP' = WindowOf(Head(fromDE))
  /\ fromDE' = Tail(fromDE)
  /\ icOp' = Idle
  /\ UNCHANGED toDE

NoSignal ==
  /\ icOp.stage = "check"
  /\ fromDE = <<>>
  /\ icOp' = [icOp EXCEPT !.stage = "push"]
  /\ UNCHANGED <<internalIP, toDE, fromDE>>

\* A signal that comes now is too late for this window.
PushWindow ==
  /\ icOp.stage = "push"
  /\ toDE' = Append(toDE, icOp.at)
  /\ icOp' = Idle
  /\ UNCHANGED <<internalIP, fromDE>>

FetchStep == BeginFetch \/ EndFetch \/ ObeySignal \/ NoSignal \/ PushWindow

-----------------------------------------------------------------------------
(* Decode *)

Signal(t) ==
  /\ Len(fromDE) < MaxSignals
  /\ fromDE' = Append(fromDE, t)
  /\ UNCHANGED <<internalIP, icOp, toDE>>

TakeWindow ==
  /\ toDE # <<>>
  /\ toDE' = Tail(toDE)
  /\ UNCHANGED <<internalIP, icOp, fromDE>>

-----------------------------------------------------------------------------
Init ==
  /\ internalIP = StartAddr
  /\ icOp = Idle
  /\ toDE = <<>>
  /\ fromDE = <<>>

Next ==
  \/ FetchStep
  \/ \E t \in Targets : Signal(t)
  \/ TakeWindow

Spec == Init /\ [][Next]_fetchVars /\ WF_fetchVars(FetchStep)
=============================================================================
