----------------------------- MODULE FlatMemory -----------------------------
(***************************************************************************)
(* What the Load/Store thread promises: behind its pipes there is one flat *)
(* memory.  A store takes effect word by word, a fetch window is read in   *)
(* one piece, and a load returns what was stored last.                     *)
(***************************************************************************)
EXTENDS MemoryPipes

VARIABLE flat  \* contents of the memory

vars == <<flat, exReq, exResp, icReq, toIC, ls>>
-----------------------------------------------------------------------------
Init ==
  /\ PipesInit
  /\ flat = [a \in Addr |-> Visible(Image[a])]

ClientStep ==
  /\ \/ EXSend \/ EXReceive
     \/ \E w \in ICWindows : ICSend(w)
     \/ ICReceive
  /\ UNCHANGED flat

LoadWord ==
  /\ MoreWords
  /\ \E v \in CellValues(flat[CurrAddr]) : WordLoaded(v)
  /\ UNCHANGED flat

StoreWord ==
  /\ WordStored
  /\ flat' = [flat EXCEPT ![CurrAddr] = CurrData]

ReadWindow ==
  /\ icReq # <<>>
  /\ \E d \in [1 .. WindowWords -> Word] :
       /\ \A i \in 1 .. WindowWords : d[i] \in CellValues(flat[WordAt(Head(icReq), i)])
       /\ TakeIC(d)
  /\ UNCHANGED flat

LSStep ==
  \/ LoadWord \/ StoreWord \/ ReadWindow
  \/ (TakeEX \/ AnswerEX \/ AnswerIC) /\ UNCHANGED flat

Next == ClientStep \/ LSStep

Spec == Init /\ [][Next]_vars
-----------------------------------------------------------------------------
\* The pipes and the memory hold what they are declared to hold.
TypeOK ==
  /\ PipesTypeOK
  /\ flat \in [Addr -> Word \cup {Unset}]
=============================================================================
