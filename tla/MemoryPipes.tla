---------------------------- MODULE MemoryPipes -----------------------------
(***************************************************************************)
(* The pipes of the Load/Store thread (InterThreadCommPipe.h) and what its *)
(* loop does with them (LoadStore.cpp): the messages, the two clients, and *)
(* the control of the thread, without the memory behind it.  FlatMemory    *)
(* adds a flat memory, LoadStore the write-back cache; FetchPath puts the  *)
(* Instruction Cache in the place of the IC client.                        *)
(*                                                                         *)
(* The `odd' flag of a request stands for the lowest bit of its address.   *)
(* Pushing a message is one step, popping it another, under the queue's    *)
(* mutex in the code.                                                      *)
(***************************************************************************)
EXTENDS Addresses, Sequences

CONSTANTS
  Word,           \* the values of a word
  Zero,           \* the word 0x0000
  Unset,          \* a memory cell neither loaded nor written
  Image,          \* memory as loaded from the .hex file
  GarbageMemory,  \* GARBAGE_MEMORY: unset cells read as random values
  EXRequests,     \* bound: the requests EX may send
  ICWindows,      \* bound: the windows IC may ask for
  MaxQueue        \* bound: messages waiting in the pipe LS -> IC

VARIABLES
  exReq,   \* EX -> LS: memory access requests
  exResp,  \* LS -> EX: their responses
  icReq,   \* IC -> LS: addresses of fetch windows
  toIC,    \* LS -> IC: invalidations and fetch windows
  ls       \* what the LS thread is doing

pipeVars == <<exReq, exResp, icReq, toIC, ls>>
-----------------------------------------------------------------------------
(* Messages. *)

\* MemoryAccessRequest; of a load, only the length of `data' matters.
Request == [store : BOOLEAN, addr : Addr, odd : BOOLEAN, data : Seq(Word)]

ASSUME MemoryAssumption ==
  /\ MaxQueue \in Nat
  /\ Zero \in Word
  /\ Unset \notin Word
  /\ Image \in [Addr -> Word \cup {Unset}]
  /\ GarbageMemory \in BOOLEAN
  /\ EXRequests \subseteq Request
  /\ ICWindows \subseteq Window

Response == [fault : BOOLEAN, data : Seq(Word)]

\* exceptionTriggered marks an invalidation in the pipe to IC.
Invalidation(a) == [inv |-> TRUE, addr |-> a, data |-> <<>>]

FetchResponse(w, d) == [inv |-> FALSE, addr |-> w, data |-> d]

FetchResponses == [inv : {FALSE}, addr : Window, data : [1 .. WindowWords -> Word]]

ToIC == {Invalidation(a) : a \in Addr} \cup FetchResponses

\* What Memory::getMemoryCell can return for a cell holding c.
CellValues(c) ==
  IF c # Unset THEN {c} ELSE IF GarbageMemory THEN Word ELSE {Zero}

\* An unset cell is as good as a zero unless memory is garbage.
Visible(c) == IF c = Unset /\ ~GarbageMemory THEN Zero ELSE c

Idle == [pc |-> "idle"]

Serving == [pc : {"ex"}, req : Request, n : Nat, data : Seq(Word)]

Fetching == [pc : {"ic"}, resp : FetchResponses]

LSState == {Idle} \cup Serving \cup Fetching

PipesTypeOK ==
  /\ exReq \in Seq(Request)
  /\ exResp \in Seq(Response)
  /\ icReq \in Seq(Window)
  /\ toIC \in Seq(ToIC)
  /\ ls \in LSState

PipesInit ==
  /\ exReq = <<>> /\ exResp = <<>> /\ icReq = <<>> /\ toIC = <<>>
  /\ ls = Idle

-----------------------------------------------------------------------------
(* The two clients.  EX sends a request and waits for its response; IC     *)
(* sends a request and reads the pipe until the window comes.              *)

EXQuiet == exReq = <<>> /\ exResp = <<>> /\ ls.pc # "ex"

ICQuiet ==
  /\ icReq = <<>>
  /\ ls.pc # "ic"
  /\ \A i \in DOMAIN toIC : toIC[i].inv

EXSend ==
  /\ EXQuiet
  /\ \E r \in EXRequests :
       /\ r.store => Len(toIC) + Len(r.data) <= MaxQueue
       /\ exReq' = Append(exReq, r)
  /\ UNCHANGED <<exResp, icReq, toIC, ls>>

EXReceive ==
  /\ exResp # <<>>
  /\ exResp' = Tail(exResp)
  /\ UNCHANGED <<exReq, icReq, toIC, ls>>

ICSend(w) ==
  /\ ICQuiet
  /\ icReq' = Append(icReq, w)
  /\ UNCHANGED <<exReq, exResp, toIC, ls>>

ICReceive ==
  /\ toIC # <<>>
  /\ toIC' = Tail(toIC)
  /\ UNCHANGED <<exReq, exResp, icReq, ls>>

-----------------------------------------------------------------------------
(* The LS thread: take a request, do its words one after the other, answer.*)

TakeEX ==
  /\ ls.pc = "idle"
  /\ exReq # <<>>
  /\ ls' = [pc |-> "ex", req |-> Head(exReq), n |-> 0, data |-> <<>>]
  /\ exReq' = Tail(exReq)
  /\ UNCHANGED <<exResp, icReq, toIC>>

\* A request at an odd address is answered without touching memory.
MoreWords == ls.pc = "ex" /\ ~ls.req.odd /\ ls.n < Len(ls.req.data)

CurrAddr == WordAt(ls.req.addr, ls.n + 1)
CurrData == ls.req.data[ls.n + 1]

\* The next word of a load is v.
WordLoaded(v) ==
  /\ MoreWords /\ ~ls.req.store
  /\ ls' = [ls EXCEPT !.n = @ + 1, !.data = Append(@, v)]
  /\ UNCHANGED <<exReq, exResp, icReq, toIC>>

\* Mutant: the invalidation carries an address that has not wrapped.
WordStoredUnwrapped ==
  /\ MoreWords /\ ls.req.store
  /\ ls' = [ls EXCEPT !.n = @ + 1]
  /\ toIC' = Append(toIC, Invalidation(ls.req.addr + ls.n))
  /\ UNCHANGED <<exReq, exResp, icReq>>

\* Mutant: IC is not told.
WordStoredSilently ==
  /\ MoreWords /\ ls.req.store
  /\ ls' = [ls EXCEPT !.n = @ + 1]
  /\ UNCHANGED <<exReq, exResp, icReq, toIC>>

\* The next word of a store is stored: IC is told at once.
WordStored ==
  /\ MoreWords /\ ls.req.store
  /\ ls' = [ls EXCEPT !.n = @ + 1]
  /\ toIC' = Append(toIC, Invalidation(CurrAddr))
  /\ UNCHANGED <<exReq, exResp, icReq>>

AnswerEX ==
  /\ ls.pc = "ex"
  /\ ~MoreWords
  /\ exResp' = Append(exResp, [fault |-> ls.req.odd, data |-> ls.data])
  /\ ls' = Idle
  /\ UNCHANGED <<exReq, icReq, toIC>>

\* The window asked for holds the words d.
TakeIC(d) ==
  /\ ls.pc = "idle"
  /\ icReq # <<>>
  /\ ls' = [pc |-> "ic", resp |-> FetchResponse(Head(icReq), d)]
  /\ icReq' = Tail(icReq)
  /\ UNCHANGED <<exReq, exResp, toIC>>

AnswerIC ==
  /\ ls.pc = "ic"
  /\ toIC' = Append(toIC, ls.resp)
  /\ ls' = Idle
  /\ UNCHANGED <<exReq, exResp, icReq>>
=============================================================================
