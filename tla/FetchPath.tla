----------------------------- MODULE FetchPath ------------------------------
(***************************************************************************)
(* The Instruction Cache thread (InstructionCache.cpp) with its direct     *)
(* mapped cache of fetch windows (DMCache.h), between the Load/Store       *)
(* thread, which is FlatMemory here, and Decode, which takes windows and   *)
(* signals changes of the IP at any time.                                  *)
(***************************************************************************)
EXTENDS MemoryPipes

CONSTANTS
  NumLines,    \* lines of the cache
  TagSpan,     \* tags a line tells apart: currReqTag is a byte
  StartAddr,   \* SIM_START_ADDR
  Targets,     \* bound: addresses Decode may signal
  MaxFetched,  \* bound: windows waiting for Decode
  MaxSignals,  \* bound: signals waiting for the Instruction Cache
  MaxRequests  \* bound: requests of EX

ASSUME FetchAssumption ==
  /\ NumLines \in Nat \ {0}
  /\ TagSpan \in Nat \ {0}
  /\ StartAddr \in Window
  /\ Targets \subseteq Addr
  /\ MaxFetched \in Nat \ {0}
  /\ MaxSignals \in Nat
  /\ MaxRequests \in Nat

VARIABLES
  flat,        \* the memory behind the Load/Store thread
  exLeft,      \* requests EX may still send
  lines,       \* the cache: lines[i] is line i
  internalIP,  \* window to fetch next
  icOp,        \* operation of the IC thread
  toDE,        \* IC -> DE: windows
  fromDE       \* DE -> IC: addresses to start over from

icVars == <<lines, internalIP, icOp, toDE, fromDE>>
vars == <<flat, exLeft, exReq, exResp, icReq, toIC, ls,
          lines, internalIP, icOp, toDE, fromDE>>

Memory == INSTANCE FlatMemory

Contents == [1 .. WindowWords -> Word]

\* What memory holds of a window.
Current(w) == [i \in 1 .. WindowWords |-> flat[WordAt(w, i)]]
-----------------------------------------------------------------------------
(* DMCache *)

LineIndex == 0 .. NumLines - 1

\* prepareForOps
LineOf(w) == (w \div WindowWords) % NumLines
WindowTag(w) == ((w \div WindowWords) \div NumLines) % TagSpan

\* Mutant: the tag is not compared.
IsValidLine(c, w) == c[LineOf(w)].valid

\* isAHit
IsAHit(c, w) == c[LineOf(w)].valid /\ c[LineOf(w)].tag = WindowTag(w)

\* invalidate
Invalidated(c, w) ==
  IF c[LineOf(w)].tag = WindowTag(w) THEN [c EXCEPT ![LineOf(w)].valid = FALSE] ELSE c

\* store, under the window the cache was last prepared for.
Stored(c, w, d) ==
  [c EXCEPT ![LineOf(w)] = [tag |-> WindowTag(w), data |-> d, valid |-> TRUE]]

-----------------------------------------------------------------------------
(* executeModuleLogic *)

Resting == [stage |-> "idle"]

\* Mutant: the internal IP does not wrap.
NextWindowUnwrapped(w) == w + WindowWords

\* internalIP += FETCH_WINDOW_BYTES
NextWindow(w) == (w + WindowWords) % NumAddr

\* An operation first takes one message of LS for an invalidation, whatever
\* its kind: of a fetch window it would take the last word for the address.
TakenAddrs(m) == IF m.inv THEN {m.addr} ELSE Addr

TakeOldMessage ==
  /\ icOp = Resting
  /\ Len(toDE) < MaxFetched
  /\ toIC # <<>>
  /\ \E a \in TakenAddrs(Head(toIC)) : lines' = Invalidated(lines, WindowOf(a))
  /\ toIC' = Tail(toIC)
  /\ icOp' = [stage |-> "look"]
  /\ UNCHANGED <<flat, exLeft, exReq, exResp, icReq, ls, internalIP, toDE, fromDE>>

LooksUp ==
  \/ icOp = Resting /\ toIC = <<>> /\ Len(toDE) < MaxFetched
  \/ icOp.stage = "look"

BeginHit ==
  /\ LooksUp
  /\ IsAHit(lines, internalIP)
  /\ icOp' = [stage |-> "hit", at |-> internalIP, data |-> lines[LineOf(internalIP)].data]
  /\ UNCHANGED <<flat, exLeft, pipeVars, lines, internalIP, toDE, fromDE>>

BeginMiss ==
  /\ LooksUp
  /\ ~IsAHit(lines, internalIP)
  /\ icReq' = Append(icReq, internalIP)
  /\ icOp' = [stage |-> "wait", at |-> internalIP, prepared |-> internalIP]
  /\ UNCHANGED <<flat, exLeft, exReq, exResp, toIC, ls, lines, internalIP, toDE, fromDE>>

\* Mutant: the first message that comes ends the wait.
TakeInvalidationAndStop ==
  /\ icOp.stage = "wait"
  /\ toIC # <<>> /\ Head(toIC).inv
  /\ lines' = Invalidated(lines, WindowOf(Head(toIC).addr))
  /\ icOp' = Resting
  /\ toIC' = Tail(toIC)
  /\ UNCHANGED <<flat, exLeft, exReq, exResp, icReq, ls, internalIP, toDE, fromDE>>

\* getFetchWindowFromLS: an invalidation that comes before the window.
TakeInvalidation ==
  /\ icOp.stage = "wait"
  /\ toIC # <<>> /\ Head(toIC).inv
  /\ lines' = Invalidated(lines, WindowOf(Head(toIC).addr))
  /\ icOp' = [icOp EXCEPT !.prepared = WindowOf(Head(toIC).addr)]
  /\ toIC' = Tail(toIC)
  /\ UNCHANGED <<flat, exLeft, exReq, exResp, icReq, ls, internalIP, toDE, fromDE>>

\* The window comes, and is stored under the last address prepared for.
TakeResponse ==
  /\ icOp.stage = "wait"
  /\ toIC # <<>> /\ ~Head(toIC).inv
  /\ lines' = Stored(lines, icOp.prepared, Head(toIC).data)
  /\ icOp' = [stage |-> "check", at |-> icOp.at, data |-> Head(toIC).data]
  /\ internalIP' = NextWindow(internalIP)
  /\ toIC' = Tail(toIC)
  /\ UNCHANGED <<flat, exLeft, exReq, exResp, icReq, ls, toDE, fromDE>>

EndHit ==
  /\ icOp.stage = "hit"
  /\ icOp' = [icOp EXCEPT !.stage = "check"]
  /\ internalIP' = NextWindow(internalIP)
  /\ UNCHANGED <<flat, exLeft, pipeVars, lines, toDE, fromDE>>

\* Mutant: the window fetched before the signal is sent all the same.
ObeySignalLate ==
  /\ icOp.stage = "check"
  /\ fromDE # <<>>
  /\ internalIP' = WindowOf(Head(fromDE))
  /\ fromDE' = Tail(fromDE)
  /\ icOp' = [icOp EXCEPT !.stage = "push"]
  /\ UNCHANGED <<flat, exLeft, pipeVars, lines, toDE>>

\* checkIPChangeSignal: the window fetched is dropped.
ObeySignal ==
  /\ icOp.stage = "check"
  /\ fromDE # <<>>
  /\ internalIP' = WindowOf(Head(fromDE))
  /\ fromDE' = Tail(fromDE)
  /\ icOp' = Resting
  /\ UNCHANGED <<flat, exLeft, pipeVars, lines, toDE>>

NoSignal ==
  /\ icOp.stage = "check"
  /\ fromDE = <<>>
  /\ icOp' = [icOp EXCEPT !.stage = "push"]
  /\ UNCHANGED <<flat, exLeft, pipeVars, lines, internalIP, toDE, fromDE>>

\* Decode may signal between the check and this.
PushWindow ==
  /\ icOp.stage = "push"
  /\ toDE' = Append(toDE, [at |-> icOp.at, data |-> icOp.data])
  /\ icOp' = Resting
  /\ UNCHANGED <<flat, exLeft, pipeVars, lines, internalIP, fromDE>>

ICStep ==
  \/ TakeOldMessage \/ BeginHit \/ BeginMiss \/ TakeInvalidation \/ TakeResponse \/ EndHit
  \/ ObeySignal \/ NoSignal \/ PushWindow

-----------------------------------------------------------------------------
(* The threads around it. *)

LSStep == Memory!LSStep /\ UNCHANGED <<exLeft, icVars>>

EXStep ==
  /\ \/ exLeft > 0 /\ exLeft' = exLeft - 1 /\ EXSend
     \/ EXReceive /\ UNCHANGED exLeft
  /\ UNCHANGED <<flat, icVars>>

DEStep ==
  /\ \/ /\ Len(fromDE) < MaxSignals
        /\ \E t \in Targets : fromDE' = Append(fromDE, t)
        /\ UNCHANGED toDE
     \/ /\ toDE # <<>>
        /\ toDE' = Tail(toDE)
        /\ UNCHANGED fromDE
  /\ UNCHANGED <<flat, exLeft, pipeVars, lines, internalIP, icOp>>

\* New lines are not valid, so that what else they hold is never seen.
Init ==
  /\ Memory!Init
  /\ exLeft = MaxRequests
  /\ lines = [i \in LineIndex |->
       [tag |-> 0, data |-> [j \in 1 .. WindowWords |-> Zero], valid |-> FALSE]]
  /\ internalIP = StartAddr
  /\ icOp = Resting
  /\ toDE = <<>>
  /\ fromDE = <<>>

Next == ICStep \/ LSStep \/ EXStep \/ DEStep

\* The IC and LS threads keep running; LS serves everyone, for EX makes only
\* so many requests without new windows.
Spec == Init /\ [][Next]_vars /\ WF_vars(ICStep) /\ WF_vars(LSStep)
-----------------------------------------------------------------------------
(* What the thread promises. *)

Line == [tag : 0 .. TagSpan - 1, data : Contents, valid : BOOLEAN]

OpStates ==
  {Resting, [stage |-> "look"]}
    \cup [stage : {"wait"}, at : Window, prepared : Window]
    \cup [stage : {"hit", "check", "push"}, at : Window, data : Contents]

\* The variables of the IC thread hold what they are declared to hold, and
\* so do the pipes it shares (InstructionCache.h).
TypeOK ==
  /\ Memory!TypeOK
  /\ exLeft \in 0 .. MaxRequests
  /\ lines \in [LineIndex -> Line]
  /\ internalIP \in Window
  /\ icOp \in OpStates
  /\ toDE \in Seq([at : Window, data : Contents])
  /\ fromDE \in Seq(Targets)

\* The IC thread is the client LoadStore is checked with: it has one request
\* under way at most, and never takes a window for an invalidation
\* (InstructionCache.cpp 71-78, 90).
ActsAsClient == Memory!Spec

\* Windows no store of EX touches.
Unwritten ==
  {w \in Window : \A r \in EXRequests : r.store =>
     \A i \in DOMAIN r.data : WindowOf(WordAt(r.addr, i)) # w}

\* The windows isAHit takes w for: with a tag cut to a byte they are not w alone
\* (DMCache.h 51, 61).
Aliases(w) == {v \in Window : LineOf(v) = LineOf(w) /\ WindowTag(v) = WindowTag(w)}

\* What memory holds of them.
AnyOf(w) == {Current(v) : v \in Aliases(w)}

\* Where no store goes, a hit and Decode get what memory holds of the window asked
\* for, or of one the tag does not tell from it, and nothing else, although windows
\* are stored under the address of an invalidation that came while they were awaited
\* (InstructionCache.cpp 43, 91; DMCache.h 51).
UnwrittenUpToTag ==
  \A w \in Window : Aliases(w) \subseteq Unwritten =>
    /\ IsAHit(lines, w) => lines[LineOf(w)].data \in AnyOf(w)
    /\ \A i \in DOMAIN toDE : toDE[i].at = w => toDE[i].data \in AnyOf(w)
    /\ icOp.stage \in {"hit", "check", "push"} /\ icOp.at = w => icOp.data \in AnyOf(w)

\* A window that was overtaken by a store in the pipe from LS has the
\* invalidation behind it (LoadStore.cpp 70-75, 191).
OvertakenIsInvalidated ==
  \A i \in DOMAIN toIC : ~toIC[i].inv =>
    \A k \in 1 .. WindowWords :
      toIC[i].data[k] # flat[WordAt(toIC[i].addr, k)] =>
        \E j \in i + 1 .. Len(toIC) : toIC[j].inv /\ toIC[j].addr = WordAt(toIC[i].addr, k)

\* A write to a location within a cached window invalidates that window
\* (ConfigTab.py:213-214): a cached window is up to date, or its invalidation
\* is on its way.
WritesInvalidate ==
  \A w \in Window :
    IsAHit(lines, w) /\ lines[LineOf(w)].data # Current(w) =>
      \E i \in DOMAIN toIC : toIC[i].inv /\ WindowOf(toIC[i].addr) = w

\* What Fetcher sees of an operation.
FetchedOp ==
  CASE icOp.stage \in {"idle", "look"} -> Resting
    [] icOp.stage \in {"hit", "wait"} -> [stage |-> "fetch", at |-> icOp.at]
    [] OTHER -> [stage |-> icOp.stage, at |-> icOp.at]

Fetch == INSTANCE Fetcher
  WITH icOp <- FetchedOp, toDE <- [i \in DOMAIN toDE |-> toDE[i].at]

\* Whatever is cached, Decode is sent the windows in the order of Fetcher, and
\* a signal is obeyed at the end of an operation that always ends.
ImplementsFetcher == Fetch!Spec
=============================================================================
