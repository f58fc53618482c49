------------------------------ MODULE Pipeline ------------------------------
(***************************************************************************)
(* The threads of Decode (Decode.cpp, WorkTempStorage.cpp) and Execute     *)
(* (Execute.cpp), with the Instruction Cache as Fetcher describes it: how  *)
(* they run ahead of the program, and how they agree again on where it is  *)
(* after a jump or an exception.  Words are named by the address they were *)
(* fetched from, so that an instruction put together from the wrong words  *)
(* can be told from the right one.                                         *)
(***************************************************************************)
EXTENDS Programs, Sequences

CONSTANTS
  MaxFetched,  \* bound: windows waiting for Decode
  MaxSignals,  \* bound: signals waiting for the Instruction Cache
  MaxDecoded   \* bound: instructions waiting for Execute

Targets == Addr

ASSUME PipelineAssumption ==
  /\ MaxFetched \in Nat \ {0}
  /\ MaxSignals \in Nat \ {0}
  /\ MaxDecoded \in Nat \ {0}

VARIABLES
  internalIP, icOp, toDE, fromDE,    \* see Fetcher
  prog, regs, saved, stack, ended,   \* see Machine
  held,          \* fwTempStorage: addresses its words were fetched from
  heldAt,        \* cacheStartAddr, where Decode thinks they are from
  discardUntil,  \* discardUntilAddr
  deOp,          \* operation of the DE thread
  deToEX,        \* DE -> EX: instructions
  exToDE,        \* EX -> DE: changes of the IP
  redirecting    \* EX has changed the IP and is about to tell Decode

fetchVars == <<internalIP, icOp, toDE, fromDE>>
machineVars == <<prog, regs, saved, stack, ended>>
deVars == <<held, heldAt, discardUntil, deOp>>
vars == <<internalIP, icOp, toDE, fromDE, prog, regs, saved, stack, ended,
          held, heldAt, discardUntil, deOp, deToEX, exToDE, redirecting>>

IC == INSTANCE Fetcher
EX == INSTANCE Machine

None == 2 * NumAddr - 1  \* DUMMY_ADDRESS, an odd one

\* Addresses of the words of window w from its i-th on.
WordsFrom(w, i) == [j \in 1 .. WindowWords - i + 1 |-> WordAt(w, i + j - 1)]

MisalignedAt(p) == [at |-> p, kind |-> "misaligned", words |-> <<>>]

\* Every thread stops with the simulation.
Running == ended = "no"
-----------------------------------------------------------------------------
(* Decode *)

At(stage) == [stage |-> stage]

NoChange ==
  /\ deOp.stage = "top"
  /\ exToDE = <<>>
  /\ deOp' = At("sift")
  /\ UNCHANGED <<fetchVars, machineVars, held, heldAt, discardUntil, deToEX, exToDE, redirecting>>

\* Any change of the IP is passed on; what is held is dropped, but for an odd IP.
Acknowledge ==
  /\ deOp.stage = "top"
  /\ exToDE # <<>>
  /\ Len(fromDE) < MaxSignals
  /\ LET p == Head(exToDE) IN
     /\ fromDE' = Append(fromDE, WordOf(p))
     /\ IF IsOdd(p)
          THEN /\ deToEX' = Append(deToEX, MisalignedAt(p))
               /\ discardUntil' = None
               /\ UNCHANGED <<held, deOp>>
          ELSE /\ discardUntil' = p
               /\ held' = <<>>
               /\ deOp' = At("drain")
               /\ UNCHANGED deToEX
  /\ exToDE' = Tail(exToDE)
  /\ UNCHANGED <<internalIP, icOp, toDE, machineVars, heldAt, redirecting>>

\* The windows that wait are dropped, in no time of the clock.
Drain ==
  /\ deOp.stage = "drain"
  /\ toDE' = <<>>
  /\ deOp' = At("sift")
  /\ UNCHANGED <<internalIP, icOp, fromDE, machineVars, held, heldAt, discardUntil,
                 deToEX, exToDE, redirecting>>

\* Windows are dropped until one comes that holds the target.
Sift ==
  /\ deOp.stage = "sift"
  /\ discardUntil # None
  /\ toDE # <<>>
  /\ IF Head(toDE) = WindowOf(discardUntil)
       THEN /\ held' = WordsFrom(Head(toDE), (discardUntil % WindowWords) + 1)
            /\ heldAt' = discardUntil
            /\ discardUntil' = None
       ELSE UNCHANGED <<held, heldAt, discardUntil>>
  /\ toDE' = Tail(toDE)
  /\ UNCHANGED <<internalIP, icOp, fromDE, machineVars, deOp, deToEX, exToDE, redirecting>>

\* canProvideFullInstruction
IsFull(h) == h # <<>> /\ prog[h[1]].len <= Len(h)

Idles ==
  /\ deOp.stage = "sift"
  /\ toDE = <<>>
  /\ discardUntil # None \/ ~IsFull(held)
  /\ deOp' = At("top")
  /\ UNCHANGED <<fetchVars, machineVars, held, heldAt, discardUntil, deToEX, exToDE, redirecting>>

\* decodeInstructionHeader and processFetchWindow
Decoded(h, at) ==
  LET w == prog[h[1]]
      k == IF w.kind = "exit" /\ ~regs.excp THEN "undef" ELSE w.kind
  IN [at |-> at, kind |-> k, words |-> SubSeq(h, 1, Size(k, w))]

\* An instruction is decoded from words h held for address "at".
DecodeFrom(h, at) ==
  LET e == Decoded(h, at) IN
  /\ Len(deToEX) < MaxDecoded
  /\ deOp' = [stage |-> "emit", entry |-> e]
  /\ held' = SubSeq(h, Len(e.words) + 1, Len(h))
  /\ heldAt' = Past(at, Len(e.words))

DecodeHeld ==
  /\ deOp.stage = "sift"
  /\ discardUntil = None
  /\ IsFull(held)
  /\ DecodeFrom(held, heldAt)
  /\ UNCHANGED <<fetchVars, machineVars, discardUntil, deToEX, exToDE, redirecting>>

\* Mutant: the address of a window is never looked at.
DecodeNextInPlace ==
  /\ deOp.stage = "sift"
  /\ discardUntil = None
  /\ ~IsFull(held)
  /\ toDE # <<>>
  /\ DecodeFrom(held \o WordsFrom(Head(toDE), 1), heldAt)
  /\ toDE' = Tail(toDE)
  /\ UNCHANGED <<internalIP, icOp, fromDE, machineVars, discardUntil, deToEX, exToDE, redirecting>>

\* The next window is appended, whatever its address, unless nothing is held.
DecodeNext ==
  /\ deOp.stage = "sift"
  /\ discardUntil = None
  /\ ~IsFull(held)
  /\ toDE # <<>>
  /\ DecodeFrom(held \o WordsFrom(Head(toDE), 1),
                IF held = <<>> THEN Head(toDE) ELSE heldAt)
  /\ toDE' = Tail(toDE)
  /\ UNCHANGED <<internalIP, icOp, fromDE, machineVars, discardUntil, deToEX, exToDE, redirecting>>

\* The last tick of the operation.
Emit ==
  /\ deOp.stage = "emit"
  /\ deToEX' = Append(deToEX, deOp.entry)
  /\ deOp' = At("top")
  /\ UNCHANGED <<fetchVars, machineVars, held, heldAt, discardUntil, exToDE, redirecting>>

DEStep ==
  /\ Running
  /\ \/ NoChange \/ Acknowledge \/ Drain \/ Sift \/ Idles
     \/ DecodeHeld \/ DecodeNext \/ Emit

-----------------------------------------------------------------------------
(* Execute *)

Waiting == ~redirecting /\ deToEX # <<>>

\* Mutant: any instruction that nothing follows is taken for the current one.
IsLastOrOurs(e) == e.at = regs.ip \/ Len(deToEX) = 1

\* A misaligned IP that nothing follows is taken for the current one.
IsOurs(e) == e.at = regs.ip \/ (e.kind = "misaligned" /\ Len(deToEX) = 1)

Discard ==
  /\ Waiting
  /\ ~IsOurs(Head(deToEX))
  /\ deToEX' = Tail(deToEX)
  /\ UNCHANGED <<fetchVars, machineVars, deVars, exToDE, redirecting>>

Perform ==
  /\ Waiting
  /\ LET e == Head(deToEX)
         p == prog[e.words[Len(e.words)]].to
     IN /\ IsOurs(e)
        /\ \/ e.kind = "misaligned" /\ EX!Raise("misaligned_ip", e.at) /\ redirecting' = (ended' = "no")
           \/ /\ e.kind # "misaligned"
              /\ \E k \in IF e.kind = "branch" THEN {"plain", "jump"} ELSE {e.kind} :
                   \/ EX!Proceed(k, Len(e.words), p) /\ UNCHANGED redirecting
                   \/ EX!Redirect(k, p) /\ redirecting' = (ended' = "no")
  /\ deToEX' = Tail(deToEX)
  /\ UNCHANGED <<fetchVars, prog, deVars, exToDE>>

\* The last tick of the operation.
TellDecode ==
  /\ redirecting
  /\ exToDE' = Append(exToDE, regs.ip)
  /\ redirecting' = FALSE
  /\ UNCHANGED <<fetchVars, machineVars, deVars, deToEX>>

EXStep == Running /\ (Discard \/ Perform \/ TellDecode)

-----------------------------------------------------------------------------
ICStep ==
  /\ Running
  /\ IC!FetchStep
  /\ UNCHANGED <<machineVars, deVars, deToEX, exToDE, redirecting>>

Init ==
  /\ IC!Init
  /\ EX!Init
  /\ held = <<>>
  /\ heldAt = 0
  /\ discardUntil = None
  /\ deOp = At("top")
  /\ deToEX = <<>>
  /\ exToDE = <<>>
  /\ redirecting = FALSE

Next == ICStep \/ DEStep \/ EXStep

\* Every thread keeps running.
Spec ==
  /\ Init
  /\ [][Next]_vars
  /\ WF_vars(ICStep)
  /\ WF_vars(DEStep)
  /\ WF_vars(EXStep)
-----------------------------------------------------------------------------
(* What the threads promise. *)

InstructionAt == [at : Pointer, kind : Kinds \cup {"misaligned"}, words : Seq(Addr)]

DEStates ==
  [stage : {"top", "drain", "sift"}] \cup [stage : {"emit"}, entry : InstructionAt]

\* What the threads and the pipes between them hold.
TypeOK ==
  /\ EX!TypeOK
  /\ internalIP \in Window
  /\ toDE \in Seq(Window)
  /\ fromDE \in Seq(Addr)
  /\ held \in Seq(Addr)
  /\ heldAt \in Addr
  /\ discardUntil \in Addr \cup {None}
  /\ deOp \in DEStates
  /\ deToEX \in Seq(InstructionAt)
  /\ exToDE \in Seq(Pointer)
  /\ redirecting \in BOOLEAN

\* The words of a decoded instruction are those at its address, wherever the
\* windows they came in were sent from (Decode.cpp 95, 191-194, 221-224).
WordsAtAddress ==
  \A i \in DOMAIN deToEX : \A j \in DOMAIN deToEX[i].words :
    deToEX[i].words[j] = Past(deToEX[i].at, j - 1)

\* Whatever is prefetched, discarded and fetched again, instructions take effect
\* as if there was no pipeline, and Execute is never left without the next one
\* (Execute.cpp 132-201).
ImplementsMachine == EX!Spec

\* In a handler, excp_exit restores the state saved and clears the EXCEPTION
\* flag (HelpTab.py:437-442): it does not end the simulation.
ExitsHandler ==
  [][regs.excp /\ ~IsOdd(regs.ip) /\ prog[regs.ip].kind = "exit"
       => ended' # "double_exception"]_vars
=============================================================================
