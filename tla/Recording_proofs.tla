-------------------------- MODULE Recording_proofs --------------------------
(***************************************************************************)
(* What the recorder shows of the pipe, and which state it writes last,    *)
(* for every limit of cycles and any number of windows.                    *)
(*                                                                         *)
(* The pipe: the recorder is behind by what has been sent or taken and not *)
(* been reported, so that recorded pipe and pending push together are the  *)
(* windows taken and the pipe.  The end: the two modes record the same,    *)
(* and after Execute has cleared the flag no state is made any more.       *)
(***************************************************************************)
EXTENDS Recording, SequenceTheorems, TLAPS

AllPlaces == UNION {Places.IC, Places.DE, Places.EX, Places.clock, Places.main}

Making == at["clock"] \in {"copy", "append"}

Placed ==
  /\ at \in [Threads -> AllPlaces]
  /\ at["IC"] \in Places.IC /\ at["DE"] \in Places.DE /\ at["EX"] \in Places.EX
  /\ at["clock"] \in Places.clock /\ at["main"] \in Places.main

PipeTyped == pipe \in Seq(Nat) /\ taken \in Seq(Nat) /\ sent \in 0 .. MaxWindows

StatesTyped ==
  /\ copy \in States /\ final \in States
  /\ states \in Seq(States) /\ states # << >>
  /\ \A i \in 1 .. Len(states) : states[i].cycle = i
  /\ at["clock"] = "append" => copy.cycle = Len(states) + 1

\* There is a state for every cycle, and the one that is being made.
CyclesCounted ==
  /\ cycleCount \in 0 .. CyclesLimit + 1
  /\ Making => cycleCount <= CyclesLimit /\ Len(states) <= cycleCount
  /\ Len(states) <= cycleCount + 1 /\ Len(states) <= CyclesLimit + 1

FlagsTyped ==
  /\ running \in BOOLEAN /\ selfRunning \in BOOLEAN
  /\ overtaken \in BOOLEAN /\ raced \in BOOLEAN /\ miscounted \in BOOLEAN
  /\ endReason \in {"none", "normal", "double_exception", "cycle_limit_exceeded"}

Typed == Placed /\ PipeTyped /\ StatesTyped /\ CyclesCounted /\ FlagsTyped

\* What Decode holds and has not reported.
TakenHeld ==
  /\ at["DE"] \notin {"popped", "drain", "drained"} => taken = << >>
  /\ at["DE"] = "popped" => Len(taken) = 1

Pending == IF at["IC"] = "pushed" THEN <<sent>> ELSE << >>

InOrder == ~overtaken /\ ~raced /\ ~miscounted

PipeKept ==
  InOrder => /\ Back.pipe \o Pending = taken \o pipe
             /\ at["clock"] = "append" => copy.pipe = Back.pipe

\* The state being written to is the same in both modes.
ModesAgree == ~raced => IF at["clock"] = "append" THEN copy = final ELSE Back = final

\* Between the flag and the reason Execute has recorded the text, and no
\* state comes after the one that has it.
Told(text) == ~running /\ (~raced => ~Making /\ final.end = text)

Ending == {"Ended", "Forcefully", "normal", "double_exception"}

EndKept ==
  /\ at["EX"] \in {"Ended", "Forcefully"} => ~running
  /\ at["EX"] = "normal" => Told("Ended")
  /\ at["EX"] = "double_exception" => Told("Forcefully")
  /\ endReason \in {"normal", "double_exception"} =>
       Told(Texts[endReason]) /\ at["EX"] \in {"loop", "done"}
  /\ at["EX"] = "done" => ~running
  /\ endReason = "none" => running \/ at["EX"] \in Ending
  /\ at["main"] # "join" => \A m \in Modules : at[m] = "done"
  /\ at["main"] = "dumped" => at["clock"] = "stopped"

Inv == Typed /\ TakenHeld /\ PipeKept /\ ModesAgree /\ EndKept
-----------------------------------------------------------------------------
(* Sequences, and the recorder's calls.                                    *)

\* What a push adds to a sequence in two parts, it adds to the second.
LEMMA PushLast ==
  ASSUME NEW s \in Seq(Nat), NEW t \in Seq(Nat), NEW w \in Nat
  PROVE  (s \o t) \o <<w>> = s \o Append(t, w)
<1>1. <<w>> \in Seq(Nat) OBVIOUS
<1>2. (s \o t) \o <<w>> = s \o (t \o <<w>>) BY <1>1, ConcatAssociative
<1>3. t \o <<w>> = Append(t, w) BY AppendIsConcat
<1> QED BY <1>2, <1>3

\* What a pop takes of a sequence in two parts, it takes of the first.
LEMMA PopFirst ==
  ASSUME NEW s \in Seq(Nat), NEW t \in Seq(Nat), s # << >>
  PROVE  Tail(s \o t) = Tail(s) \o t
<1>1. /\ s \o t \in Seq(Nat) /\ Len(s \o t) = Len(s) + Len(t)
      /\ \A i \in 1 .. Len(s) + Len(t) :
           (s \o t)[i] = IF i <= Len(s) THEN s[i] ELSE t[i - Len(s)]
  BY ConcatProperties
<1>2. /\ Len(s) \in Nat \ {0} /\ Len(t) \in Nat
      /\ s \o t # << >>
  BY <1>1, EmptySeq, LenProperties
<1>3. /\ Tail(s) \in Seq(Nat) /\ Len(Tail(s)) = Len(s) - 1
      /\ \A i \in 1 .. Len(Tail(s)) : Tail(s)[i] = s[i + 1]
  BY HeadTailProperties
<1>4. /\ Tail(s \o t) \in Seq(Nat) /\ Len(Tail(s \o t)) = Len(s) + Len(t) - 1
      /\ \A i \in 1 .. Len(Tail(s \o t)) : Tail(s \o t)[i] = (s \o t)[i + 1]
  BY <1>1, <1>2, HeadTailProperties
<1>5. /\ Tail(s) \o t \in Seq(Nat) /\ Len(Tail(s) \o t) = Len(Tail(s)) + Len(t)
      /\ \A i \in 1 .. Len(Tail(s)) + Len(t) :
           (Tail(s) \o t)[i] = IF i <= Len(Tail(s)) THEN Tail(s)[i] ELSE t[i - Len(Tail(s))]
  BY <1>3, ConcatProperties
<1>6. ASSUME NEW i \in 1 .. Len(Tail(s \o t))
      PROVE  Tail(s \o t)[i] = (Tail(s) \o t)[i]
  <2>1. Tail(s \o t)[i] = IF i + 1 <= Len(s) THEN s[i + 1] ELSE t[(i + 1) - Len(s)]
    BY <1>1, <1>2, <1>4
  <2>2. (Tail(s) \o t)[i] = IF i <= Len(s) - 1 THEN s[i + 1] ELSE t[i - (Len(s) - 1)]
    BY <1>2, <1>3, <1>4, <1>5
  <2>3. i \in Int /\ Len(s) \in Int BY <1>2
  <2>4. i + 1 <= Len(s) <=> i <= Len(s) - 1 BY <2>3
  <2>5. (i + 1) - Len(s) = i - (Len(s) - 1) BY <2>3
  <2> QED BY <2>1, <2>2, <2>4, <2>5
<1> QED BY <1>2, <1>3, <1>4, <1>5, <1>6, SeqEqual

\* A window that is taken moves from the front of the pipe to the end of what
\* Decode holds.
LEMMA Moved ==
  ASSUME NEW s \in Seq(Nat), NEW p \in Seq(Nat), p # << >>
  PROVE  /\ Append(s, Head(p)) \o Tail(p) = s \o p
         /\ Head(p) \in Nat /\ Tail(p) \in Seq(Nat)
<1>1. Head(p) \in Nat /\ Tail(p) \in Seq(Nat) BY HeadTailProperties
<1>2. <<Head(p)>> \in Seq(Nat) BY <1>1
<1>3. Append(s, Head(p)) = s \o <<Head(p)>> BY <1>1, AppendIsConcat
<1>4. (s \o <<Head(p)>>) \o Tail(p) = s \o (<<Head(p)>> \o Tail(p))
  BY <1>1, <1>2, ConcatAssociative
<1>5. <<Head(p)>> \o Tail(p) = p
  <2>1. Len(p) \in Nat \ {0} BY EmptySeq
  <2>2. SubSeq(p, 1, Len(p)) = <<p[1]>> \o SubSeq(p, 2, Len(p))
    BY <2>1, SubSeqRecursiveFirst
  <2>3. SubSeq(p, 1, Len(p)) = p BY SubSeqFull
  <2>4. Tail(p) = SubSeq(p, 2, Len(p)) BY TailIsSubSeq
  <2>5. Head(p) = p[1] BY <2>1
  <2> QED BY <2>2, <2>3, <2>4, <2>5
<1> QED BY <1>1, <1>3, <1>4, <1>5

\* The call of a sender.
LEMMA PushChanges ==
  ASSUME NEW s \in States, NEW w \in Nat
  PROVE  /\ Changed(s, <<w>>, FALSE, "none") \in States
         /\ Changed(s, <<w>>, FALSE, "none").pipe = s.pipe \o <<w>>
         /\ Changed(s, <<w>>, FALSE, "none").end = s.end
         /\ Changed(s, <<w>>, FALSE, "none").cycle = s.cycle
<1>1. s.pipe \o <<w>> \in Seq(Nat) BY ConcatProperties DEF States
<1> QED BY <1>1 DEF Changed, States

\* The call of the receiver.
LEMMA PopChanges ==
  ASSUME NEW s \in States
  PROVE  /\ Changed(s, << >>, TRUE, "none") \in States
         /\ s.pipe # << >> => Changed(s, << >>, TRUE, "none").pipe = Tail(s.pipe)
         /\ s.pipe = << >> => Changed(s, << >>, TRUE, "none").pipe = << >>
         /\ Changed(s, << >>, TRUE, "none").end = s.end
         /\ Changed(s, << >>, TRUE, "none").cycle = s.cycle
<1>1. s.pipe \in Seq(Nat) BY DEF States
<1>2. s.pipe \o << >> = s.pipe BY <1>1, ConcatEmptySeq
<1>3. s.pipe # << >> => Tail(s.pipe) \in Seq(Nat) BY <1>1, HeadTailProperties
<1> QED BY <1>1, <1>2, <1>3 DEF Changed, States

\* The call of Execute at the end.
LEMMA EndChanges ==
  ASSUME NEW s \in States, NEW text \in {"Ended", "Forcefully"}
  PROVE  /\ Changed(s, << >>, FALSE, text) \in States
         /\ Changed(s, << >>, FALSE, text).pipe = s.pipe
         /\ Changed(s, << >>, FALSE, text).end = text
         /\ Changed(s, << >>, FALSE, text).cycle = s.cycle
<1>1. s.pipe \in Seq(Nat) BY DEF States
<1>2. s.pipe \o << >> = s.pipe BY <1>1, ConcatEmptySeq
<1> QED BY <1>1, <1>2 DEF Changed, States

\* The state a tick begins with.
LEMMA NextStateChanges ==
  ASSUME NEW s \in States
  PROVE  /\ NextState(s) \in States
         /\ NextState(s).pipe = s.pipe
         /\ NextState(s).cycle = s.cycle + 1
<1>1. /\ s.cycle \in Nat /\ s.pipe \in Seq(Nat)
      /\ s.end \in {"none", "Ended", "Forcefully"}
  BY DEF States
<1>2. DOMAIN s = {"cycle", "pipe", "end"} /\ s = [f \in DOMAIN s |-> s[f]] BY DEF States
<1>3. s.cycle + 1 \in Nat BY <1>1
<1> QED BY <1>1, <1>2, <1>3 DEF NextState, States
-----------------------------------------------------------------------------
(* Places, and steps that record nothing.                                  *)

\* A thread goes to a place of its own and the others stay.
LEMMA Going ==
  ASSUME Placed, NEW t \in Threads, NEW p \in AllPlaces, Go(t, p),
         t = "IC" => p \in Places.IC, t = "DE" => p \in Places.DE,
         t = "EX" => p \in Places.EX, t = "clock" => p \in Places.clock,
         t = "main" => p \in Places.main
  PROVE  Placed' /\ at'[t] = p /\ \A u \in Threads \ {t} : at'[u] = at[u]
<1> HIDE DEF AllPlaces
<1>1. at \in [Threads -> AllPlaces] /\ at' = [at EXCEPT ![t] = p] BY DEF Placed, Go
<1>2. at' \in [Threads -> AllPlaces] BY <1>1
<1>3. at'[t] = p /\ \A u \in Threads \ {t} : at'[u] = at[u] BY <1>1
<1>4. {"IC", "DE", "EX", "clock", "main"} \subseteq Threads BY DEF Threads, Modules
<1> QED BY <1>2, <1>3, <1>4 DEF Placed

recordVars == <<cycleCount, pipeVars, stateVars, historyVars, endReason>>

\* A step that records nothing keeps the invariant if what each thread has to
\* report stays the same.
LEMMA QuietKeepsInv ==
  ASSUME Inv, Placed', UNCHANGED recordVars, running' \in BOOLEAN, selfRunning' \in BOOLEAN,
         at["IC"] = "pushed" <=> at'["IC"] = "pushed",
         at'["clock"] = "append" <=> at["clock"] = "append",
         Making' <=> Making,
         TakenHeld', EndKept'
  PROVE  Inv'
<1>1. Typed'
  <2>1. PipeTyped' BY DEF Inv, Typed, PipeTyped, recordVars, pipeVars
  <2>2. StatesTyped' BY DEF Inv, Typed, StatesTyped, recordVars, stateVars
  <2>3. CyclesCounted' BY DEF Inv, Typed, CyclesCounted, recordVars, stateVars
  <2>4. FlagsTyped' BY DEF Inv, Typed, FlagsTyped, recordVars, historyVars
  <2> QED BY <2>1, <2>2, <2>3, <2>4 DEF Typed
<1>2. PipeKept'
  BY DEF Inv, PipeKept, InOrder, Pending, Back, recordVars, pipeVars, stateVars, historyVars
<1>3. ModesAgree' BY DEF Inv, ModesAgree, Back, recordVars, stateVars, historyVars
<1> QED BY <1>1, <1>2, <1>3 DEF Inv

\* The beginning.
LEMMA InvInit == Init => Inv
<1> SUFFICES ASSUME Init PROVE Inv OBVIOUS
<1>1. Placed
  <2>1. at \in [Threads -> AllPlaces]
    <3>1. {"join", "check", "timer"} \subseteq AllPlaces BY DEF AllPlaces, Places
    <3> QED BY <3>1 DEF Init
  <2>2. {"IC", "DE", "EX", "clock", "main"} \subseteq Threads BY DEF Threads, Modules
  <2>3. /\ at["IC"] = "timer" /\ at["DE"] = "timer" /\ at["EX"] = "timer"
        /\ at["clock"] = "check" /\ at["main"] = "join"
    BY <2>2 DEF Init
  <2> QED BY <2>1, <2>3 DEF Placed, Places
<1>2. /\ at["IC"] = "timer" /\ at["DE"] = "timer" /\ at["EX"] = "timer"
      /\ at["clock"] = "check" /\ at["main"] = "join"
  BY DEF Init, Threads, Modules
<1>3. FirstState \in States BY DEF FirstState, States
<1>4. /\ states \in Seq(States) /\ Len(states) = 1 /\ states[1] = FirstState
      /\ states # << >> /\ FirstState.cycle = 1
  BY <1>3 DEF Init, FirstState
<1>5. Typed
  <2>1. PipeTyped BY RecordingAssumption DEF Init, PipeTyped
  <2>2. StatesTyped BY <1>2, <1>3, <1>4 DEF Init, StatesTyped
  <2>3. CyclesCounted BY <1>2, <1>4, RecordingAssumption DEF Init, CyclesCounted, Making
  <2>4. FlagsTyped BY DEF Init, FlagsTyped
  <2> QED BY <1>1, <2>1, <2>2, <2>3, <2>4 DEF Typed
<1>6. PipeKept
  <2>1. << >> \in Seq(Nat) OBVIOUS
  <2>2. << >> \o << >> = << >> BY <2>1, ConcatEmptySeq
  <2>3. Back.pipe = << >> /\ Pending = << >> /\ taken = << >> /\ pipe = << >>
    BY <1>2, <1>4 DEF Init, Back, FirstState, Pending
  <2> QED BY <1>2, <2>2, <2>3 DEF PipeKept
<1>7. ModesAgree BY <1>2, <1>4 DEF Init, ModesAgree, Back
<1>8. TakenHeld /\ EndKept BY <1>2 DEF Init, TakenHeld, EndKept
<1> QED BY <1>5, <1>6, <1>7, <1>8 DEF Inv

\* The steps all modules have.
LEMMA ModuleKeepsInv ==
  ASSUME Inv, NEW m \in Modules, Loop(m) \/ StartTimer(m) \/ PassBy(m)
  PROVE  Inv'
<1>1. /\ m \in Threads /\ Placed
      /\ UNCHANGED recordVars /\ UNCHANGED clockVars
      /\ at[m] \in {"loop", "timer", "work"}
  BY DEF Inv, Typed, Threads, recordVars, clockVars, Loop, StartTimer, PassBy
<1>2. \E q \in {"timer", "done", "asleep", "work", "loop"} :
        /\ Go(m, q)
        /\ q = "done" => ~running
        /\ at[m] = "loop" => q = IF running THEN "timer" ELSE "done"
  BY DEF Loop, StartTimer, PassBy
<1>3. PICK q \in {"timer", "done", "asleep", "work", "loop"} :
        /\ Go(m, q)
        /\ q = "done" => ~running
        /\ at[m] = "loop" => q = IF running THEN "timer" ELSE "done"
  BY <1>2
<1>4. q \in AllPlaces /\ q \in Places.IC /\ q \in Places.DE /\ q \in Places.EX
  BY DEF AllPlaces, Places
<1>5. m # "clock" /\ m # "main" BY DEF Modules
<1>6. Placed' /\ at'[m] = q /\ \A u \in Threads \ {m} : at'[u] = at[u]
  BY <1>1, <1>3, <1>4, <1>5, Going
<1>7. /\ at'["clock"] = at["clock"] /\ at'["main"] = at["main"]
      /\ at'["IC"] = at["IC"] \/ (m = "IC" /\ at'["IC"] = q)
      /\ at'["DE"] = at["DE"] \/ (m = "DE" /\ at'["DE"] = q)
      /\ at'["EX"] = at["EX"] \/ (m = "EX" /\ at'["EX"] = q)
  BY <1>5, <1>6 DEF Threads, Modules
<1>8. TakenHeld' BY <1>1, <1>3, <1>7 DEF Inv, TakenHeld, recordVars, pipeVars
<1>9. EndKept'
  <2>1. at["main"] = "join" \/ at[m] = "done" BY DEF Inv, EndKept, Placed, Typed, Places
  <2>2. at["main"] = "join" BY <1>1, <2>1
  <2>3. UNCHANGED <<running, raced, final, endReason>> /\ at'["clock"] = at["clock"]
    BY <1>1, <1>7 DEF recordVars, clockVars, stateVars, historyVars
  <2>4. \A text : Told(text)' <=> Told(text) BY <2>3 DEF Told, Making
  <2>6. q \notin Ending BY DEF Ending
  <2>7. at'["EX"] \in Ending => at'["EX"] = at["EX"] BY <1>7, <2>6
  <2>8. at["EX"] \in Ending => at'["EX"] = at["EX"]
    <3>1. m = "EX" => at["EX"] \notin Ending BY <1>1 DEF Ending
    <3> QED BY <1>6, <3>1 DEF Threads, Modules
  <2>9. endReason \in {"normal", "double_exception"} =>
          Told(Texts[endReason]) /\ at'["EX"] \in {"loop", "done"}
    <3>1. m = "EX" /\ ~running /\ at["EX"] \in {"loop", "done"} => q = "done"
      BY <1>1, <1>3
    <3> QED BY <1>7, <3>1 DEF Inv, EndKept, Told
  <2>10. at'["EX"] = "done" => ~running BY <1>3, <1>7 DEF Inv, EndKept
  <2> QED
    BY <1>7, <2>2, <2>3, <2>4, <2>7, <2>8, <2>9, <2>10 DEF Inv, EndKept, Ending
<1> QED
  <2>1. running' \in BOOLEAN /\ selfRunning' \in BOOLEAN
    BY <1>1 DEF Inv, Typed, FlagsTyped, clockVars
  <2> QED BY <1>1, <1>3, <1>6, <1>7, <1>8, <1>9, <2>1, QuietKeepsInv DEF Making
-----------------------------------------------------------------------------
(* The Instruction Cache and Decode.                                       *)

\* There is a last state, of which the pipe is a sequence.
LEMMA BackTyped ==
  ASSUME StatesTyped
  PROVE  Back \in States /\ Back.pipe \in Seq(Nat)
<1>1. Len(states) \in Nat \ {0} BY EmptySeq DEF StatesTyped
<1>2. Back \in States BY <1>1 DEF Back, StatesTyped
<1> QED BY <1>2 DEF States

\* A call changes the last state, and the final one of single state mode alike.
LEMMA CallChanges ==
  ASSUME Inv, NEW c \in States, NEW f \in States,
         states' = [states EXCEPT ![Len(states)] = c], final' = f, copy' = copy,
         c.cycle = Back.cycle, Back = final => c = f,
         at'["clock"] = at["clock"], raced => raced', at["clock"] = "append" => raced'
  PROVE  StatesTyped' /\ ModesAgree' /\ Back' = c /\ Len(states') = Len(states)
<1> DEFINE n == Len(states)
<1>1. /\ states \in Seq(States) /\ states # << >>
      /\ copy \in States
      /\ \A i \in 1 .. n : states[i].cycle = i
      /\ at["clock"] = "append" => copy.cycle = n + 1
  BY DEF Inv, Typed, StatesTyped
<1>2. n \in Nat \ {0} BY <1>1, EmptySeq
<1>3. n \in 1 .. n BY <1>2
<1>4. c.cycle = n BY <1>1, <1>3 DEF Back
<1>5. /\ states' \in Seq(States) /\ Len(states') = n
      /\ \A i \in 1 .. n : states'[i] = IF i = n THEN c ELSE states[i]
  <2> HIDE DEF n
  <2> QED BY <1>1, <1>3, ExceptSeq DEF n
<1>6. StatesTyped'
  <2>1. states' # << >> BY <1>2, <1>5, EmptySeq
  <2>2. \A i \in 1 .. n : states'[i].cycle = i BY <1>1, <1>4, <1>5
  <2> HIDE DEF n
  <2> QED BY <1>1, <1>5, <2>1, <2>2 DEF StatesTyped, n
<1>7. Back' = c BY <1>3, <1>5 DEF Back
<1>8. ModesAgree' BY <1>7 DEF Inv, ModesAgree
<1> QED BY <1>5, <1>6, <1>7, <1>8

\* A call that says nothing of the end.
LEMMA EndStays ==
  ASSUME Inv, NEW m \in Modules, at[m] # "done", UNCHANGED <<running, endReason>>,
         \A t \in {"EX", "clock", "main"} : at'[t] = at[t],
         final'.end = final.end, raced => raced'
  PROVE  EndKept'
<1>1. at["main"] = "join" BY DEF Inv, EndKept, Typed, Placed, Places
<1>2. \A text : Told(text) => Told(text)' BY DEF Told, Making
<1>3. at'["main"] = "join" /\ at'["EX"] = at["EX"] BY <1>1
<1>4. at["EX"] = "normal" => Told("Ended")' BY <1>2 DEF Inv, EndKept
<1>5. at["EX"] = "double_exception" => Told("Forcefully")' BY <1>2 DEF Inv, EndKept
<1>6. endReason \in {"normal", "double_exception"} =>
        Told(Texts[endReason])' /\ at["EX"] \in {"loop", "done"}
  <2>1. Texts' = Texts BY DEF Texts
  <2>2. endReason \in {"normal", "double_exception"} => Told(Texts[endReason])
    BY DEF Inv, EndKept
  <2> QED BY <1>2, <2>1, <2>2 DEF Inv, EndKept, Told, Making
<1> QED BY <1>3, <1>4, <1>5, <1>6 DEF Inv, EndKept

\* The Instruction Cache.
LEMMA ICKeepsInv ==
  ASSUME Inv, ICStep
  PROVE  Inv'
<1> USE DEF Inv, Typed
<1>0. "IC" \in Threads /\ "IC" \in Modules BY DEF Threads, Modules
<1>1. CASE Send
  <2>1. "pushed" \in AllPlaces /\ "pushed" \in Places.IC BY DEF AllPlaces, Places
  <2>2. Placed' /\ at'["IC"] = "pushed" /\ \A u \in Threads \ {"IC"} : at'[u] = at[u]
    BY <1>0, <1>1, <2>1, Going DEF Send
  <2>3. \A u \in {"DE", "EX", "clock", "main"} : at'[u] = at[u]
    BY <2>2 DEF Threads, Modules
  <2>4. sent' \in Nat /\ PipeTyped'
    BY <1>1, RecordingAssumption DEF Send, PipeTyped
  <2>5. Typed'
    BY <1>1, <2>2, <2>3, <2>4
       DEF Send, StatesTyped, CyclesCounted, FlagsTyped, Making, stateVars, clockVars, historyVars
  <2>6. TakenHeld' BY <1>1, <2>3 DEF Send, TakenHeld
  <2>7. PipeKept'
    <3>1. Back' = Back /\ Pending = << >> /\ Pending' = <<sent'>>
      BY <1>1, <2>2 DEF Send, Back, Pending, stateVars
    <3>2. Back.pipe \in Seq(Nat) BY BackTyped
    <3>3. Back.pipe \o << >> = Back.pipe BY <3>2, ConcatEmptySeq
    <3>4. (taken \o pipe) \o <<sent'>> = taken \o Append(pipe, sent')
      BY <2>4, PushLast DEF PipeTyped
    <3> QED
      BY <1>1, <2>3, <3>1, <3>3, <3>4 DEF Send, PipeKept, InOrder, stateVars, historyVars
  <2>8. ModesAgree' BY <1>1, <2>3 DEF Send, ModesAgree, Back, stateVars, historyVars
  <2>9. EndKept'
    BY <1>0, <1>1, <2>3, EndStays DEF Send, stateVars, clockVars, historyVars
  <2> QED BY <2>5, <2>6, <2>7, <2>8, <2>9
<1>2. CASE ReportSend
  <2>1. "loop" \in AllPlaces /\ "loop" \in Places.IC BY DEF AllPlaces, Places
  <2>2. Placed' /\ at'["IC"] = "loop" /\ \A u \in Threads \ {"IC"} : at'[u] = at[u]
    BY <1>0, <1>2, <2>1, Going DEF ReportSend
  <2>3. \A u \in {"DE", "EX", "clock", "main"} : at'[u] = at[u]
    BY <2>2 DEF Threads, Modules
  <2>4. sent \in Nat BY RecordingAssumption DEF PipeTyped
  <2>5. (raced => raced') /\ (at["clock"] = "append" => raced')
    BY <1>2 DEF ReportSend, Raced
  <2> DEFINE c == Changed(Back, <<sent>>, FALSE, "none")
             f == Changed(final, <<sent>>, FALSE, "none")
  <2>6. /\ c \in States /\ c.pipe = Back.pipe \o <<sent>> /\ c.cycle = Back.cycle
        /\ f \in States /\ f.end = final.end
    BY <2>4, BackTyped, PushChanges DEF StatesTyped
  <2>7. StatesTyped' /\ ModesAgree' /\ Back' = c /\ Len(states') = Len(states) /\ final' = f
    <3>1. /\ states' = [states EXCEPT ![Len(states)] = c]
          /\ final' = f /\ copy' = copy
      BY <1>2, BackTyped DEF ReportSend, pushICtoDEData, Recorded, Back
    <3>2. at'["clock"] = at["clock"] /\ (Back = final => c = f) BY <2>3
    <3> HIDE DEF c, f, Inv, Typed
    <3> QED BY <2>5, <2>6, <3>1, <3>2, CallChanges
  <2>8. Typed'
    BY <1>2, <2>2, <2>3, <2>7
       DEF ReportSend, Raced, PipeTyped, CyclesCounted, FlagsTyped, Making, pipeVars, clockVars
  <2>9. TakenHeld' BY <1>2, <2>3 DEF ReportSend, TakenHeld, pipeVars
  <2>10. PipeKept'
    <3>1. Pending = <<sent>> /\ Pending' = << >> BY <1>2, <2>2 DEF ReportSend, Pending
    <3>2. Back'.pipe = Back.pipe \o <<sent>> /\ copy' = copy
      BY <1>2, <2>6, <2>7 DEF ReportSend, pushICtoDEData, Recorded
    <3>3. Back.pipe \in Seq(Nat) /\ <<sent>> \in Seq(Nat) BY <2>4, BackTyped
    <3>4. Back'.pipe \in Seq(Nat) BY <3>2, <3>3, ConcatProperties
    <3>5. Back'.pipe \o << >> = Back'.pipe BY <3>4, ConcatEmptySeq
    <3>6. InOrder' => InOrder /\ at["clock"] # "append"
      BY <1>2, <2>5 DEF ReportSend, InOrder
    <3> QED
      BY <1>2, <2>3, <3>1, <3>2, <3>5, <3>6 DEF ReportSend, PipeKept, pipeVars
  <2>11. EndKept'
    <3>1. final'.end = final.end BY <2>6, <2>7
    <3> QED BY <1>0, <1>2, <2>3, <2>5, <3>1, EndStays DEF ReportSend, clockVars
  <2> QED BY <2>7, <2>8, <2>9, <2>10, <2>11
<1> QED BY <1>1, <1>2 DEF ICStep

\* A pop that is reported for one window and finds one, or for none and finds none.
LEMMA PopReported ==
  ASSUME Inv, popPipeData, taken' = << >>, UNCHANGED <<pipe, sent>>,
         at'["IC"] = at["IC"], at'["clock"] = at["clock"],
         raced => raced', at["clock"] = "append" => raced',
         InOrder' => InOrder,
         InOrder' => \/ Len(taken) = 1 /\ Back.pipe # << >>
                     \/ taken = << >> /\ Back.pipe = << >>
  PROVE  /\ StatesTyped' /\ ModesAgree' /\ PipeKept'
         /\ final'.end = final.end /\ Len(states') = Len(states)
<1> DEFINE c == Changed(Back, << >>, TRUE, "none")
           f == Changed(final, << >>, TRUE, "none")
<1>1. StatesTyped /\ PipeTyped BY DEF Inv, Typed
<1>2. Back \in States /\ Back.pipe \in Seq(Nat) BY <1>1, BackTyped
<1>3. /\ c \in States /\ c.cycle = Back.cycle
      /\ Back.pipe # << >> => c.pipe = Tail(Back.pipe)
      /\ Back.pipe = << >> => c.pipe = << >>
      /\ f \in States /\ f.end = final.end
  BY <1>1, <1>2, PopChanges DEF StatesTyped
<1>4. /\ states' = [states EXCEPT ![Len(states)] = c]
      /\ final' = f /\ copy' = copy
  BY <1>1 DEF popPipeData, Recorded, Back, StatesTyped
<1>5. StatesTyped' /\ ModesAgree' /\ Back' = c /\ Len(states') = Len(states)
  <2>1. Back = final => c = f OBVIOUS
  <2> HIDE DEF c, f
  <2> QED BY <1>3, <1>4, <2>1, CallChanges
<1>6. Pending' = Pending /\ Pending \in Seq(Nat)
  BY <1>1, RecordingAssumption DEF Pending, PipeTyped
<1>7. ASSUME InOrder' PROVE c.pipe \o Pending = pipe /\ at["clock"] # "append"
  <2>1. InOrder /\ at["clock"] # "append" BY <1>7 DEF InOrder
  <2>2. Back.pipe \o Pending = taken \o pipe BY <2>1 DEF Inv, PipeKept
  <2>3. CASE Len(taken) = 1 /\ Back.pipe # << >>
    <3>1. taken \in Seq(Nat) /\ pipe \in Seq(Nat) BY <1>1 DEF PipeTyped
    <3>2. taken # << >>
      <4>1. taken = << >> => Len(taken) = 0 OBVIOUS
      <4>2. Len(taken) = 1 BY <2>3
      <4>3. 0 # 1 OBVIOUS
      <4> QED BY <4>1, <4>2, <4>3
    <3>3. Tail(taken) = << >>
      <4>1. Tail(taken) \in Seq(Nat) /\ Len(Tail(taken)) = 0
        BY <2>3, <3>1, <3>2, HeadTailProperties
      <4> QED BY <4>1, EmptySeq
    <3>4. Tail(taken \o pipe) = << >> \o pipe BY <3>1, <3>2, <3>3, PopFirst
    <3>5. << >> \o pipe = pipe BY <3>1, ConcatEmptySeq
    <3>6. Tail(Back.pipe \o Pending) = Tail(Back.pipe) \o Pending
      BY <1>2, <1>6, <2>3, PopFirst
    <3> QED BY <1>3, <2>1, <2>2, <2>3, <3>4, <3>5, <3>6
  <2>4. CASE taken = << >> /\ Back.pipe = << >>
    <3>1. << >> \o pipe = pipe BY <1>1, ConcatEmptySeq DEF PipeTyped
    <3> QED BY <1>3, <2>1, <2>2, <2>4, <3>1
  <2> QED BY <1>7, <2>3, <2>4
<1>8. PipeKept'
  <2>1. << >> \o pipe = pipe BY <1>1, ConcatEmptySeq DEF PipeTyped
  <2> QED BY <1>5, <1>6, <1>7, <2>1 DEF PipeKept
<1> QED BY <1>3, <1>4, <1>5, <1>8

\* Decode.
LEMMA DEKeepsInv ==
  ASSUME Inv, DEStep
  PROVE  Inv'
<1>0. /\ "DE" \in Threads /\ "DE" \in Modules
      /\ Placed /\ PipeTyped /\ StatesTyped /\ CyclesCounted /\ FlagsTyped
      /\ TakenHeld /\ PipeKept /\ ModesAgree /\ EndKept
  BY DEF Threads, Modules, Inv, Typed
<1>1. ASSUME NEW p \in {"popped", "work", "loop", "drain", "drained"}, Go("DE", p)
      PROVE  /\ Placed' /\ at'["DE"] = p
             /\ \A u \in {"IC", "EX", "clock", "main"} : at'[u] = at[u]
  <2>1. p \in AllPlaces /\ p \in Places.DE BY DEF AllPlaces, Places
  <2>2. Placed' /\ at'["DE"] = p /\ \A u \in Threads \ {"DE"} : at'[u] = at[u]
    BY <1>0, <1>1, <2>1, Going
  <2> QED BY <2>2 DEF Threads, Modules
<1>2. CASE Take
  <2>1. Placed' /\ at'["DE"] = "popped" /\ \A u \in {"IC", "EX", "clock", "main"} : at'[u] = at[u]
    BY <1>1, <1>2 DEF Take
  <2>2. taken = << >> BY <1>0, <1>2 DEF Take, TakenHeld
  <2>3. Append(taken, Head(pipe)) = taken' /\ Len(taken') = 1 BY <1>2, <2>2 DEF Take
  <2>4. Head(pipe) \in Nat /\ taken' \o pipe' = taken \o pipe /\ pipe' \in Seq(Nat)
    <3>1. taken \in Seq(Nat) /\ pipe \in Seq(Nat) BY <1>0 DEF PipeTyped
    <3> QED BY <1>2, <2>3, <3>1, Moved DEF Take
  <2>5. Typed'
    BY <1>0, <1>2, <2>1, <2>4
       DEF Take, Typed, PipeTyped, StatesTyped, CyclesCounted, FlagsTyped, Making,
           stateVars, clockVars, historyVars
  <2>6. TakenHeld' BY <2>1, <2>3 DEF TakenHeld
  <2>7. PipeKept'
    BY <1>0, <1>2, <2>1, <2>4
       DEF Take, PipeKept, InOrder, Pending, Back, stateVars, historyVars
  <2>8. ModesAgree' BY <1>0, <1>2, <2>1 DEF Take, ModesAgree, Back, stateVars, historyVars
  <2>9. EndKept'
    BY <1>0, <1>2, <2>1, EndStays DEF Take, stateVars, clockVars, historyVars
  <2> QED BY <2>5, <2>6, <2>7, <2>8, <2>9 DEF Inv
<1>3. CASE ReportTake
  <2>1. PICK p \in {"work", "loop"} : Go("DE", p) BY <1>3 DEF ReportTake
  <2>2. Placed' /\ at'["DE"] = p /\ \A u \in {"IC", "EX", "clock", "main"} : at'[u] = at[u]
    BY <1>1, <2>1
  <2>3. (raced => raced') /\ (at["clock"] = "append" => raced')
    BY <1>3 DEF ReportTake, Raced
  <2>4. Len(taken) = 1 BY <1>0, <1>3 DEF ReportTake, TakenHeld
  <2>5. InOrder' => InOrder /\ Back.pipe # << >>
    BY <1>3, <2>3 DEF ReportTake, InOrder
  <2>6. /\ StatesTyped' /\ ModesAgree' /\ PipeKept'
        /\ final'.end = final.end /\ Len(states') = Len(states)
    BY <1>3, <2>2, <2>3, <2>4, <2>5, PopReported DEF ReportTake
  <2>7. Typed'
    <3>1. PipeTyped' BY <1>0, <1>3 DEF ReportTake, PipeTyped
    <3>2. CyclesCounted' BY <1>0, <1>3, <2>2, <2>6 DEF ReportTake, CyclesCounted, Making, clockVars
    <3>3. FlagsTyped' BY <1>0, <1>3 DEF ReportTake, Raced, FlagsTyped, clockVars
    <3> QED BY <2>2, <2>6, <3>1, <3>2, <3>3 DEF Typed
  <2>8. TakenHeld' BY <1>3, <2>2 DEF ReportTake, TakenHeld
  <2>9. EndKept'
    BY <1>0, <1>3, <2>2, <2>3, <2>6, EndStays DEF ReportTake, clockVars
  <2> QED BY <2>6, <2>7, <2>8, <2>9 DEF Inv
<1>4. CASE BeginDrain \/ EndDrain
  <2>1. /\ UNCHANGED recordVars /\ UNCHANGED clockVars /\ at["DE"] \in {"work", "drain"}
        /\ at["DE"] = "work" => taken = << >>
    BY <1>0, <1>4 DEF BeginDrain, EndDrain, recordVars, clockVars, TakenHeld
  <2>2. PICK p \in {"drain", "drained"} : Go("DE", p) BY <1>4 DEF BeginDrain, EndDrain
  <2>3. Placed' /\ at'["DE"] = p /\ \A u \in {"IC", "EX", "clock", "main"} : at'[u] = at[u]
    BY <1>1, <2>2
  <2>4. TakenHeld' BY <2>1, <2>3 DEF TakenHeld, recordVars, pipeVars
  <2>5. EndKept'
    BY <1>0, <2>1, <2>3, EndStays DEF recordVars, clockVars, stateVars, historyVars
  <2>6. running' \in BOOLEAN /\ selfRunning' \in BOOLEAN
    BY <1>0, <2>1 DEF FlagsTyped, clockVars
  <2> QED BY <2>1, <2>3, <2>4, <2>5, <2>6, QuietKeepsInv DEF Making
<1>5. CASE DrainOne
  <2>1. taken' \o pipe' = taken \o pipe /\ PipeTyped'
    <3>1. taken \in Seq(Nat) /\ pipe \in Seq(Nat) BY <1>0 DEF PipeTyped
    <3>2. Append(taken, Head(pipe)) \o Tail(pipe) = taken \o pipe
          /\ Head(pipe) \in Nat /\ Tail(pipe) \in Seq(Nat)
      BY <1>5, <3>1, Moved DEF DrainOne
    <3>3. Append(taken, Head(pipe)) \in Seq(Nat) BY <3>1, <3>2, AppendProperties
    <3> QED BY <1>0, <1>5, <3>2, <3>3 DEF DrainOne, PipeTyped
  <2>2. Typed'
    BY <1>0, <1>5, <2>1
       DEF DrainOne, Typed, Placed, StatesTyped, CyclesCounted, FlagsTyped, Making,
           stateVars, clockVars, historyVars
  <2>3. TakenHeld' BY <1>5 DEF DrainOne, TakenHeld
  <2>4. PipeKept'
    BY <1>0, <1>5, <2>1
       DEF DrainOne, PipeKept, InOrder, Pending, Back, stateVars, historyVars
  <2>5. ModesAgree' BY <1>0, <1>5 DEF DrainOne, ModesAgree, Back, stateVars, historyVars
  <2>6. EndKept'
    BY <1>0, <1>5, EndStays DEF DrainOne, stateVars, clockVars, historyVars
  <2> QED BY <2>2, <2>3, <2>4, <2>5, <2>6 DEF Inv
<1>6. CASE ReportDrain
  <2>1. Placed' /\ at'["DE"] = "work" /\ \A u \in {"IC", "EX", "clock", "main"} : at'[u] = at[u]
    BY <1>1, <1>6 DEF ReportDrain
  <2>2. (raced => raced') /\ (at["clock"] = "append" => raced')
    BY <1>6 DEF ReportDrain, Raced
  <2>3. InOrder' => /\ InOrder
                    /\ \/ Len(taken) = 1 /\ Back.pipe # << >>
                       \/ taken = << >> /\ Back.pipe = << >>
    <3>1. taken \in Seq(Nat) BY <1>0 DEF PipeTyped
    <3>2. Len(taken) \in Nat /\ (taken # << >> => Len(taken) \in Nat \ {0})
      BY <3>1, EmptySeq, LenProperties
    <3>3. InOrder' => InOrder /\ ~(Len(taken) > 1)
      BY <1>6, <2>2 DEF ReportDrain, InOrder
    <3>4. InOrder' => ~(taken = << >> /\ Back.pipe # << >>) /\ ~(taken # << >> /\ Back.pipe = << >>)
      BY <1>6 DEF ReportDrain, InOrder
    <3>5. ~(Len(taken) > 1) /\ taken # << >> => Len(taken) = 1
      <4> DEFINE n == Len(taken)
      <4>1. taken # << >> => n \in Nat \ {0} BY <3>2
      <4> HIDE DEF n
      <4>2. ~(n > 1) /\ taken # << >> => n = 1 BY <4>1
      <4> QED BY <4>2 DEF n
    <3> QED BY <3>3, <3>4, <3>5
  <2>4. /\ StatesTyped' /\ ModesAgree' /\ PipeKept'
        /\ final'.end = final.end /\ Len(states') = Len(states)
    BY <1>6, <2>1, <2>2, <2>3, PopReported DEF ReportDrain
  <2>5. Typed'
    <3>1. PipeTyped' BY <1>0, <1>6 DEF ReportDrain, PipeTyped
    <3>2. CyclesCounted' BY <1>0, <1>6, <2>1, <2>4 DEF ReportDrain, CyclesCounted, Making, clockVars
    <3>3. FlagsTyped' BY <1>0, <1>6 DEF ReportDrain, Raced, FlagsTyped, clockVars
    <3> QED BY <2>1, <2>4, <3>1, <3>2, <3>3 DEF Typed
  <2>6. TakenHeld' BY <1>6, <2>1 DEF ReportDrain, TakenHeld
  <2>7. EndKept'
    BY <1>0, <1>6, <2>1, <2>2, <2>4, EndStays DEF ReportDrain, clockVars
  <2> QED BY <2>4, <2>5, <2>6, <2>7 DEF Inv
<1> QED BY <1>2, <1>3, <1>4, <1>5, <1>6 DEF DEStep
-----------------------------------------------------------------------------
(* Execute, the clock and the main thread.                                 *)

\* Execute: once it has cleared the flag and recorded the text, no state is made
\* unless the clock was about to make one.
LEMMA EXKeepsInv ==
  ASSUME Inv, EXStep
  PROVE  Inv'
<1>0. /\ "EX" \in Threads /\ "EX" \in Modules
      /\ Placed /\ PipeTyped /\ StatesTyped /\ CyclesCounted /\ FlagsTyped
      /\ TakenHeld /\ PipeKept /\ ModesAgree /\ EndKept
  BY DEF Threads, Modules, Inv, Typed
<1>1. ASSUME NEW p \in Ending \cup {"loop"}, Go("EX", p)
      PROVE  /\ Placed' /\ at'["EX"] = p
             /\ \A u \in {"IC", "DE", "clock", "main"} : at'[u] = at[u]
  <2>1. p \in AllPlaces /\ p \in Places.EX BY DEF AllPlaces, Places, Ending
  <2>2. Placed' /\ at'["EX"] = p /\ \A u \in Threads \ {"EX"} : at'[u] = at[u]
    BY <1>0, <1>1, <2>1, Going
  <2> QED BY <2>2 DEF Threads, Modules
<1>2. at["EX"] # "done" => at["main"] = "join"
  BY <1>0 DEF EndKept, Placed, Places
<1>3. CASE EndSimulation
  <2>1. PICK p \in {"Ended", "Forcefully"} : Go("EX", p) BY <1>3 DEF EndSimulation
  <2>2. Placed' /\ at'["EX"] = p /\ \A u \in {"IC", "DE", "clock", "main"} : at'[u] = at[u]
    BY <1>1, <2>1 DEF Ending
  <2>3. UNCHANGED recordVars /\ running' = FALSE /\ selfRunning' = selfRunning
    BY <1>3 DEF EndSimulation, recordVars
  <2>4. TakenHeld' BY <1>0, <2>2, <2>3 DEF TakenHeld, recordVars, pipeVars
  <2>5. endReason \notin {"normal", "double_exception"}
    BY <1>0, <1>3 DEF EndSimulation, EndKept
  <2>6. EndKept'
    BY <1>2, <1>3, <2>2, <2>3, <2>5 DEF EndSimulation, EndKept, Ending, recordVars
  <2> QED
    BY <1>0, <2>2, <2>3, <2>4, <2>6, QuietKeepsInv DEF FlagsTyped, Making
<1>4. CASE ReportEnd
  <2> DEFINE text == at["EX"]
             c == Changed(Back, << >>, FALSE, text)
             f == Changed(final, << >>, FALSE, text)
             p == IF text = "Ended" THEN "normal" ELSE "double_exception"
  <2>1. text \in {"Ended", "Forcefully"} BY <1>4 DEF ReportEnd
  <2>2. Placed' /\ at'["EX"] = p /\ \A u \in {"IC", "DE", "clock", "main"} : at'[u] = at[u]
    BY <1>1, <1>4, <2>1 DEF ReportEnd, Ending
  <2>3. (raced => raced') /\ (Making => raced') BY <1>4 DEF ReportEnd, Making
  <2>4. Back \in States /\ Back.pipe \in Seq(Nat) BY <1>0, BackTyped
  <2>5. /\ c \in States /\ c.pipe = Back.pipe /\ c.cycle = Back.cycle
        /\ f \in States /\ f.end = text
    BY <1>0, <2>1, <2>4, EndChanges DEF StatesTyped
  <2>6. StatesTyped' /\ ModesAgree' /\ Back' = c /\ Len(states') = Len(states) /\ final' = f
    <3>1. /\ states' = [states EXCEPT ![Len(states)] = c]
          /\ final' = f /\ copy' = copy
      BY <1>4, <1>0 DEF ReportEnd, recordEnd, Recorded, Back, StatesTyped
    <3>2. /\ at'["clock"] = at["clock"] /\ (Back = final => c = f)
          /\ (at["clock"] = "append" => raced')
      BY <2>2, <2>3 DEF Making
    <3> HIDE DEF c, f, text
    <3> QED BY <2>3, <2>5, <3>1, <3>2, CallChanges
  <2>7. Typed'
    <3>1. PipeTyped' BY <1>0, <1>4 DEF ReportEnd, PipeTyped, pipeVars
    <3>2. CyclesCounted' BY <1>0, <1>4, <2>2, <2>6 DEF ReportEnd, CyclesCounted, Making, clockVars
    <3>3. FlagsTyped' BY <1>0, <1>4 DEF ReportEnd, FlagsTyped, clockVars
    <3> QED BY <2>2, <2>6, <3>1, <3>2, <3>3 DEF Typed
  <2>8. TakenHeld' BY <1>0, <1>4, <2>2 DEF ReportEnd, TakenHeld, pipeVars
  <2>9. PipeKept'
    <3>1. Back'.pipe = Back.pipe BY <2>5, <2>6
    <3>2. InOrder' => InOrder /\ at["clock"] # "append"
      BY <1>4, <2>3 DEF ReportEnd, InOrder, Making
    <3>3. Pending' = Pending /\ taken' = taken /\ pipe' = pipe
      BY <1>4, <2>2 DEF ReportEnd, Pending, pipeVars
    <3> QED BY <1>0, <2>2, <3>1, <3>2, <3>3 DEF PipeKept
  <2>10. EndKept'
    <3>1. ~running' /\ endReason' = endReason BY <1>0, <1>4, <2>1 DEF ReportEnd, EndKept, clockVars
    <3>2. ~raced' => ~Making' /\ final'.end = text
      BY <2>2, <2>3, <2>5, <2>6 DEF Making
    <3>3. endReason \notin {"normal", "double_exception"} BY <1>0, <2>1 DEF EndKept
    <3>4. at'["main"] = "join" BY <1>2, <2>1, <2>2
    <3>5. at'["EX"] = "normal" => Told("Ended")'
      <4>1. at'["EX"] = "normal" => text = "Ended" BY <2>2
      <4> QED BY <3>1, <3>2, <4>1 DEF Told
    <3>6. at'["EX"] = "double_exception" => Told("Forcefully")'
      <4>1. at'["EX"] = "double_exception" => text = "Forcefully" BY <2>1, <2>2
      <4> QED BY <3>1, <3>2, <4>1 DEF Told
    <3>7. at'["EX"] \in {"normal", "double_exception"} BY <2>2
    <3> QED BY <3>1, <3>3, <3>4, <3>5, <3>6, <3>7 DEF EndKept, Ending
  <2> QED BY <2>6, <2>7, <2>8, <2>9, <2>10 DEF Inv
<1>5. CASE setSimEndReason
  <2>1. Placed' /\ at'["EX"] = "loop" /\ \A u \in {"IC", "DE", "clock", "main"} : at'[u] = at[u]
    BY <1>1, <1>5 DEF setSimEndReason
  <2>2. UNCHANGED <<clockVars, pipeVars, stateVars, historyVars>>
        /\ endReason' = at["EX"] /\ at["EX"] \in {"normal", "double_exception"}
    BY <1>5 DEF setSimEndReason
  <2>3. Typed'
    BY <1>0, <2>1, <2>2
       DEF Typed, PipeTyped, StatesTyped, CyclesCounted, FlagsTyped, Making,
           pipeVars, stateVars, clockVars, historyVars
  <2>4. TakenHeld' BY <1>0, <2>1, <2>2 DEF TakenHeld, pipeVars
  <2>5. PipeKept'
    BY <1>0, <2>1, <2>2
       DEF PipeKept, InOrder, Pending, Back, pipeVars, stateVars, historyVars
  <2>6. ModesAgree' BY <1>0, <2>1, <2>2 DEF ModesAgree, Back, stateVars, historyVars
  <2>7. EndKept'
    <3>1. \A text : Told(text) => Told(text)'
      BY <2>1, <2>2 DEF Told, Making, clockVars, stateVars, historyVars
    <3>2. Told(Texts[at["EX"]]) BY <1>0, <2>2 DEF EndKept, Texts
    <3>3. Told(Texts[endReason])'
      BY <2>1, <2>2, <3>2 DEF Told, Making, Texts, clockVars, stateVars, historyVars
    <3>4. at'["main"] = "join" BY <1>2, <2>1, <2>2
    <3>5. ~running' BY <3>3 DEF Told
    <3> QED BY <2>1, <2>2, <3>3, <3>4, <3>5 DEF EndKept
  <2> QED BY <2>3, <2>4, <2>5, <2>6, <2>7 DEF Inv
<1> QED BY <1>3, <1>4, <1>5 DEF EXStep

\* The clock: what it copies is the last state, and it makes none once the flag is
\* cleared.
LEMMA ClockKeepsInv ==
  ASSUME Inv, ClockStep
  PROVE  Inv'
<1>0. /\ "clock" \in Threads
      /\ Placed /\ PipeTyped /\ StatesTyped /\ CyclesCounted /\ FlagsTyped
      /\ TakenHeld /\ PipeKept /\ ModesAgree /\ EndKept
  BY DEF Threads, Inv, Typed
<1>1. ASSUME NEW p \in Places.clock, Go("clock", p)
      PROVE  /\ Placed' /\ at'["clock"] = p
             /\ \A u \in {"IC", "DE", "EX", "main"} : at'[u] = at[u]
  <2>1. p \in AllPlaces BY DEF AllPlaces
  <2>2. Placed' /\ at'["clock"] = p /\ \A u \in Threads \ {"clock"} : at'[u] = at[u]
    BY <1>0, <1>1, <2>1, Going
  <2> QED BY <2>2 DEF Threads, Modules
<1>2. at["clock"] # "stopped" => at["main"] # "dumped" BY <1>0 DEF EndKept
<1>3. ASSUME UNCHANGED <<pipeVars, historyVars>>, at'["DE"] = at["DE"]
      PROVE  PipeTyped' /\ TakenHeld'
  BY <1>0, <1>3 DEF PipeTyped, TakenHeld, pipeVars
<1>4. ASSUME \A u \in {"IC", "DE", "EX", "main"} : at'[u] = at[u], at["clock"] # "stopped",
             ~running => ~running', raced' = raced,
             ~raced /\ ~running /\ ~Making => ~Making' /\ final' = final,
             \/ endReason' = endReason /\ running' = running
             \/ endReason' = "cycle_limit_exceeded" /\ ~running'
      PROVE  EndKept'
  <2>1. \A text : Told(text) => Told(text)' BY <1>4 DEF Told
  <2>2. endReason' \in {"normal", "double_exception"} =>
          Told(Texts[endReason])' /\ at["EX"] \in {"loop", "done"}
    <3> SUFFICES ASSUME endReason' \in {"normal", "double_exception"}
                 PROVE  Told(Texts[endReason])' /\ at["EX"] \in {"loop", "done"}
      OBVIOUS
    <3>1. endReason' = endReason BY <1>4
    <3>2. Told(Texts[endReason]) /\ at["EX"] \in {"loop", "done"} BY <1>0, <3>1 DEF EndKept
    <3>3. ~running' /\ (~raced' => ~Making' /\ final'.end = Texts[endReason])
      BY <1>4, <3>2 DEF Told
    <3> QED BY <3>1, <3>2, <3>3 DEF Told, Texts
  <2>3. at["EX"] = "normal" => Told("Ended")' BY <1>0, <2>1 DEF EndKept
  <2>4. at["EX"] = "double_exception" => Told("Forcefully")' BY <1>0, <2>1 DEF EndKept
  <2>5. at["main"] # "join" => \A m \in Modules : at'[m] = "done"
    BY <1>0, <1>4 DEF EndKept, Modules
  <2> QED BY <1>0, <1>2, <1>4, <2>2, <2>3, <2>4, <2>5 DEF EndKept
<1>5. CASE CheckClock
  <2>1. PICK p \in {"tick", "stopped"} : Go("clock", p) BY <1>5 DEF CheckClock
  <2>2. Placed' /\ at'["clock"] = p /\ \A u \in {"IC", "DE", "EX", "main"} : at'[u] = at[u]
    BY <1>1, <2>1 DEF Places
  <2>3. UNCHANGED recordVars /\ UNCHANGED clockVars /\ at["clock"] = "check"
    BY <1>5 DEF CheckClock, recordVars, clockVars
  <2>4. UNCHANGED <<running, raced, final, endReason, pipeVars, historyVars>>
    BY <2>3 DEF recordVars, clockVars, stateVars, historyVars
  <2>5. ~Making' BY <2>2 DEF Making
  <2>6. EndKept' BY <1>4, <2>2, <2>3, <2>4, <2>5
  <2>7. TakenHeld' BY <1>3, <2>2, <2>4
  <2>8. running' \in BOOLEAN /\ selfRunning' \in BOOLEAN
    BY <1>0, <2>3 DEF FlagsTyped, clockVars
  <2> QED BY <2>2, <2>3, <2>5, <2>6, <2>7, <2>8, QuietKeepsInv DEF Making
<1>6. CASE Tick
  <2>1. PICK p \in {"copy", "notify"} : Go("clock", p) /\ (p = "copy" => running /\ cycleCount' <= CyclesLimit)
    BY <1>0, <1>6, RecordingAssumption DEF Tick, CyclesCounted
  <2>2. Placed' /\ at'["clock"] = p /\ \A u \in {"IC", "DE", "EX", "main"} : at'[u] = at[u]
    BY <1>1, <2>1 DEF Places
  <2>3. UNCHANGED <<selfRunning, pipeVars, stateVars, historyVars>> /\ at["clock"] = "tick"
    BY <1>6 DEF Tick
  <2>4. \/ endReason' = endReason /\ running' = running
        \/ endReason' = "cycle_limit_exceeded" /\ running' = FALSE
    BY <1>6 DEF Tick
  <2>5. StatesTyped' BY <1>0, <2>2, <2>3 DEF StatesTyped, stateVars
  <2>6. CyclesCounted'
    <3>1. cycleCount' = IF cycleCount > CyclesLimit THEN cycleCount ELSE cycleCount + 1
      BY <1>6 DEF Tick
    <3>2. /\ cycleCount \in 0 .. CyclesLimit + 1
          /\ Len(states) <= cycleCount + 1 /\ Len(states) <= CyclesLimit + 1
      BY <1>0 DEF CyclesCounted
    <3>3. Len(states) \in Nat BY <1>0, LenProperties DEF StatesTyped
    <3>4. Len(states') = Len(states) BY <2>3 DEF stateVars
    <3>5. Making' => p = "copy" BY <2>2 DEF Making
    <3> DEFINE n == Len(states)
               n2 == Len(states')
    <3> HIDE DEF n, n2
    <3>6. n \in Nat /\ n2 = n /\ n <= cycleCount + 1 /\ n <= CyclesLimit + 1
      BY <3>2, <3>3, <3>4 DEF n, n2
    <3>7. /\ cycleCount' \in 0 .. CyclesLimit + 1
          /\ n2 <= cycleCount' + 1 /\ n2 <= CyclesLimit + 1
      BY <3>1, <3>2, <3>6, RecordingAssumption
    <3>8. Making' => cycleCount' <= CyclesLimit /\ n2 <= cycleCount'
      BY <2>1, <3>1, <3>2, <3>5, <3>6, RecordingAssumption
    <3> QED BY <3>7, <3>8 DEF CyclesCounted, n2
  <2>7. FlagsTyped' BY <1>0, <2>3, <2>4 DEF FlagsTyped, historyVars
  <2>8. PipeTyped' /\ TakenHeld' BY <1>3, <2>2, <2>3
  <2>9. PipeKept'
    BY <1>0, <2>2, <2>3 DEF PipeKept, InOrder, Pending, Back, pipeVars, stateVars, historyVars
  <2>10. ModesAgree' BY <1>0, <2>2, <2>3 DEF ModesAgree, Back, stateVars, historyVars
  <2>11. EndKept'
    <3>1. ~running => ~Making' BY <2>1, <2>2 DEF Making
    <3>2. raced' = raced /\ final' = final BY <2>3 DEF stateVars, historyVars
    <3> QED BY <1>4, <2>2, <2>3, <2>4, <3>1, <3>2
  <2> QED BY <2>2, <2>5, <2>6, <2>7, <2>8, <2>9, <2>10, <2>11 DEF Inv, Typed
<1>7. CASE CopyState
  <2>1. Placed' /\ at'["clock"] = "append" /\ \A u \in {"IC", "DE", "EX", "main"} : at'[u] = at[u]
    BY <1>1, <1>7 DEF CopyState, Places
  <2>2. /\ UNCHANGED <<clockVars, pipeVars, states, endReason, historyVars>>
        /\ at["clock"] = "copy" /\ copy' = NextState(Back) /\ final' = NextState(final)
    BY <1>7 DEF CopyState
  <2>3. Back \in States /\ Back.cycle = Len(states)
    <3>1. Len(states) \in Nat \ {0} BY <1>0, EmptySeq DEF StatesTyped
    <3> QED BY <1>0, <3>1, BackTyped DEF Back, StatesTyped
  <2>4. /\ copy' \in States /\ copy'.pipe = Back.pipe /\ copy'.cycle = Len(states) + 1
        /\ final' \in States
    BY <1>0, <2>2, <2>3, NextStateChanges DEF StatesTyped
  <2>5. StatesTyped' BY <1>0, <2>2, <2>4 DEF StatesTyped
  <2>6. CyclesCounted' BY <1>0, <2>1, <2>2 DEF CyclesCounted, Making, clockVars
  <2>7. FlagsTyped' BY <1>0, <2>2 DEF FlagsTyped, clockVars, historyVars
  <2>8. PipeTyped' /\ TakenHeld' BY <1>3, <2>1, <2>2
  <2>9. PipeKept'
    BY <1>0, <2>1, <2>2, <2>4 DEF PipeKept, InOrder, Pending, Back, pipeVars, historyVars
  <2>10. ModesAgree' BY <1>0, <2>1, <2>2 DEF ModesAgree, historyVars
  <2>11. EndKept'
    <3>1. Making BY <2>2 DEF Making
    <3>2. raced' = raced /\ running' = running /\ endReason' = endReason
      BY <2>2 DEF clockVars, historyVars
    <3> QED BY <1>4, <2>1, <2>2, <3>1, <3>2
  <2> QED BY <2>1, <2>5, <2>6, <2>7, <2>8, <2>9, <2>10, <2>11 DEF Inv, Typed
<1>8. CASE AppendState
  <2>1. Placed' /\ at'["clock"] = "notify" /\ \A u \in {"IC", "DE", "EX", "main"} : at'[u] = at[u]
    BY <1>1, <1>8 DEF AppendState, Places
  <2>2. /\ UNCHANGED <<clockVars, pipeVars, copy, final, endReason, historyVars>>
        /\ at["clock"] = "append" /\ states' = Append(states, copy)
    BY <1>8 DEF AppendState
  <2>3. /\ states' \in Seq(States) /\ states' # << >> /\ Len(states') = Len(states) + 1
        /\ \A i \in 1 .. Len(states) : states'[i] = states[i]
        /\ states'[Len(states) + 1] = copy
        /\ Len(states) \in Nat
    BY <1>0, <2>2, AppendProperties, LenProperties DEF StatesTyped
  <2>4. Back' = copy BY <2>3 DEF Back
  <2>5. StatesTyped'
    <3> DEFINE n == Len(states)
    <3>1. copy.cycle = n + 1 /\ \A i \in 1 .. n : states[i].cycle = i
      BY <1>0, <2>2 DEF StatesTyped
    <3>2. n \in Nat /\ Len(states') = n + 1 BY <2>3
    <3>3. ASSUME NEW i \in 1 .. n + 1 PROVE states'[i].cycle = i
      <4>1. i \in 1 .. n \/ i = n + 1 BY <3>2
      <4> QED BY <2>3, <3>1, <4>1
    <3> QED BY <1>0, <2>1, <2>2, <2>3, <3>2, <3>3 DEF StatesTyped
  <2>6. CyclesCounted'
    <3>1. Making BY <2>2 DEF Making
    <3>2. cycleCount \in 0 .. CyclesLimit + 1 /\ cycleCount <= CyclesLimit /\ Len(states) <= cycleCount
      BY <1>0, <3>1 DEF CyclesCounted
    <3>3. cycleCount' = cycleCount /\ ~Making' BY <2>1, <2>2 DEF clockVars, Making
    <3> DEFINE n == Len(states)
               n2 == Len(states')
    <3> HIDE DEF n, n2
    <3>4. n \in Nat /\ n2 = n + 1 /\ n <= cycleCount BY <2>3, <3>2 DEF n, n2
    <3>5. n2 <= cycleCount + 1 /\ n2 <= CyclesLimit + 1 BY <3>2, <3>4, RecordingAssumption
    <3> QED BY <3>2, <3>3, <3>5 DEF CyclesCounted, n2
  <2>7. FlagsTyped' BY <1>0, <2>2 DEF FlagsTyped, clockVars, historyVars
  <2>8. PipeTyped' /\ TakenHeld' BY <1>3, <2>1, <2>2
  <2>9. PipeKept'
    BY <1>0, <2>1, <2>2, <2>4 DEF PipeKept, InOrder, Pending, pipeVars, historyVars
  <2>10. ModesAgree' BY <1>0, <2>1, <2>2, <2>4 DEF ModesAgree, historyVars
  <2>11. EndKept'
    <3>1. ~Making' BY <2>1 DEF Making
    <3>2. raced' = raced /\ running' = running /\ endReason' = endReason /\ final' = final
      BY <2>2 DEF clockVars, historyVars
    <3> QED BY <1>4, <2>1, <2>2, <3>1, <3>2
  <2> QED BY <2>1, <2>5, <2>6, <2>7, <2>8, <2>9, <2>10, <2>11 DEF Inv, Typed
<1>9. CASE Notify
  <2>1. /\ at' = [t \in Threads |-> IF t \in Modules /\ at[t] = "asleep" THEN "work"
                                   ELSE IF t = "clock" THEN "check" ELSE at[t]]
        /\ UNCHANGED recordVars /\ UNCHANGED clockVars /\ at["clock"] = "notify"
    BY <1>9 DEF Notify, recordVars, clockVars
  <2>2. /\ at'["IC"] = IF at["IC"] = "asleep" THEN "work" ELSE at["IC"]
        /\ at'["DE"] = IF at["DE"] = "asleep" THEN "work" ELSE at["DE"]
        /\ at'["EX"] = IF at["EX"] = "asleep" THEN "work" ELSE at["EX"]
        /\ at'["clock"] = "check" /\ at'["main"] = at["main"]
    BY <2>1 DEF Threads, Modules
  <2>3. Placed'
    <3>1. {"work", "check"} \subseteq AllPlaces BY DEF AllPlaces, Places
    <3>2. at' \in [Threads -> AllPlaces]
      <4> HIDE DEF AllPlaces
      <4> QED BY <1>0, <2>1, <3>1 DEF Placed
    <3> QED BY <1>0, <2>2, <3>2 DEF Placed, Places
  <2>4. UNCHANGED <<running, raced, final, endReason>> /\ ~Making'
    BY <2>1, <2>2 DEF recordVars, clockVars, stateVars, historyVars, Making
  <2>5. TakenHeld' BY <1>0, <2>1, <2>2 DEF TakenHeld, recordVars, pipeVars
  <2>6. EndKept'
    <3>1. \A text : Told(text) => Told(text)' BY <2>4 DEF Told
    <3>2. endReason \in {"normal", "double_exception"} =>
            Told(Texts[endReason])' /\ at["EX"] \in {"loop", "done"}
      <4>1. endReason \in {"normal", "double_exception"} => Told(Texts[endReason])
        BY <1>0 DEF EndKept
      <4> QED BY <1>0, <2>4, <4>1 DEF EndKept, Told, Texts
    <3>3. at["EX"] = "normal" => Told("Ended")' BY <1>0, <3>1 DEF EndKept
    <3>4. at["EX"] = "double_exception" => Told("Forcefully")' BY <1>0, <3>1 DEF EndKept
    <3>5. at["main"] # "join" => \A m \in Modules : at'[m] = "done"
      BY <1>0, <2>2 DEF EndKept, Modules
    <3> QED
      BY <1>0, <1>2, <2>1, <2>2, <2>4, <3>2, <3>3, <3>4, <3>5 DEF EndKept, Ending
  <2>7. running' \in BOOLEAN /\ selfRunning' \in BOOLEAN
    BY <1>0, <2>1 DEF FlagsTyped, clockVars
  <2> QED BY <2>1, <2>2, <2>3, <2>4, <2>5, <2>6, <2>7, QuietKeepsInv DEF Making
<1> QED BY <1>5, <1>6, <1>7, <1>8, <1>9 DEF ClockStep

\* The main thread: it waits for every module, then for the clock.
LEMMA MainKeepsInv ==
  ASSUME Inv, MainStep
  PROVE  Inv'
<1>0. "main" \in Threads /\ Placed /\ FlagsTyped /\ TakenHeld /\ EndKept
  BY DEF Threads, Inv, Typed
<1>1. PICK p \in {"joinClock", "dumped"} : Go("main", p)
  BY DEF MainStep, Join, Dump
<1>2. p \in AllPlaces /\ p \in Places.main BY DEF AllPlaces, Places
<1>3. Placed' /\ at'["main"] = p /\ \A u \in Threads \ {"main"} : at'[u] = at[u]
  BY <1>0, <1>1, <1>2, Going
<1>4. \A u \in {"IC", "DE", "EX", "clock"} : at'[u] = at[u] BY <1>3 DEF Threads, Modules
<1>5. /\ UNCHANGED recordVars /\ running' = running /\ selfRunning' \in BOOLEAN
      /\ \A m \in Modules : at[m] = "done"
      /\ p = "dumped" => at["clock"] = "stopped"
  <2>1. CASE Join
    <3>1. p = "joinClock"
      BY <1>0, <1>3, <2>1 DEF Join, Go, Placed
    <3> QED BY <2>1, <3>1 DEF Join, recordVars
  <2>2. CASE Dump
    BY <1>0, <2>2 DEF Dump, EndKept, recordVars, clockVars, FlagsTyped
  <2> QED BY <2>1, <2>2 DEF MainStep
<1>6. TakenHeld' BY <1>0, <1>4, <1>5 DEF TakenHeld, recordVars, pipeVars
<1>7. EndKept'
  <2>1. UNCHANGED <<running, raced, final, endReason>> /\ Making' = Making
    BY <1>4, <1>5 DEF recordVars, stateVars, historyVars, Making
  <2>2. at["EX"] = "done" BY <1>5 DEF Modules
  <2>3. endReason \in {"normal", "double_exception"} => Told(Texts[endReason])'
    BY <1>0, <2>1 DEF EndKept, Told, Texts
  <2>4. \A m \in Modules : at'[m] = "done" BY <1>4, <1>5 DEF Modules
  <2> QED BY <1>0, <1>3, <1>4, <1>5, <2>1, <2>2, <2>3, <2>4 DEF EndKept, Ending
<1> QED BY <1>0, <1>3, <1>4, <1>5, <1>6, <1>7, QuietKeepsInv DEF FlagsTyped, Making

\* Every step keeps the invariant.
LEMMA InvNext == Inv /\ [Next]_vars => Inv'
<1> SUFFICES ASSUME Inv, [Next]_vars PROVE Inv' OBVIOUS
<1>1. CASE ModuleStep BY <1>1, ModuleKeepsInv DEF ModuleStep
<1>2. CASE UNCHANGED vars
  <2>1. UNCHANGED recordVars /\ at' = at /\ UNCHANGED <<running, selfRunning>>
    BY <1>2 DEF vars, recordVars, clockVars
  <2>2. running' \in BOOLEAN /\ selfRunning' \in BOOLEAN
    BY <2>1 DEF Inv, Typed, FlagsTyped
  <2>3. Placed' BY <2>1 DEF Inv, Typed, Placed
  <2>4. TakenHeld' BY <2>1 DEF Inv, TakenHeld, recordVars, pipeVars
  <2>5. EndKept'
    BY <2>1 DEF Inv, EndKept, Told, Making, Texts, recordVars, stateVars, historyVars
  <2> QED BY <2>1, <2>2, <2>3, <2>4, <2>5, QuietKeepsInv DEF Making
<1> QED
  BY <1>1, <1>2, ICKeepsInv, DEKeepsInv, EXKeepsInv, ClockKeepsInv, MainKeepsInv DEF Next

\* The invariant holds always.
LEMMA Invariance == Spec => []Inv
BY InvInit, InvNext, PTL DEF Spec
-----------------------------------------------------------------------------
(* What follows.                                                           *)

\* The threads' places, the flags and the pipe are what they should be, and there is
\* one state for each cycle, for every limit.
THEOREM RecordingTypeCorrect == Spec => []TypeOK
<1>1. Inv => TypeOK
  <2> SUFFICES ASSUME Inv PROVE TypeOK OBVIOUS
  <2>1. DOMAIN states = 1 .. Len(states) /\ \A i \in 1 .. Len(states) : states[i] \in States
    BY LenProperties DEF Inv, Typed, StatesTyped
  <2>2. DOMAIN at = Threads /\ \A t \in Threads : at[t] \in Places[t]
    BY DEF Inv, Typed, Placed, Threads, Modules, Places
  <2> QED
    BY <2>1, <2>2
       DEF Inv, Typed, PipeTyped, StatesTyped, CyclesCounted, FlagsTyped, TypeOK
<1> QED BY <1>1, Invariance, PTL

\* When everything is reported, in order, the pipe recorded is the pipe there is, for
\* any number of windows (ExecutionRecorder.cpp 25-45, 120-141).
THEOREM PipeIsShownHolds == Spec => []PipeIsShown
<1>1. Inv => PipeIsShown
  <2> SUFFICES ASSUME Inv, Reported, ~overtaken, ~raced, ~miscounted
               PROVE  Back.pipe = pipe
    BY DEF PipeIsShown
  <2>1. taken = << >> /\ Pending = << >> BY DEF Reported, Inv, TakenHeld, Pending
  <2>2. Back.pipe \o Pending = taken \o pipe BY DEF Inv, PipeKept, InOrder
  <2>3. Back.pipe \in Seq(Nat) /\ pipe \in Seq(Nat)
    BY BackTyped DEF Inv, Typed, PipeTyped
  <2>4. Back.pipe \o << >> = Back.pipe /\ << >> \o pipe = pipe BY <2>3, ConcatEmptySeq
  <2> QED BY <2>1, <2>2, <2>4
<1> QED BY <1>1, Invariance, PTL

\* The search for the text finds the last state, which is the one single state mode
\* keeps (ExecutionRecorder.cpp 317-355).
THEOREM LastIsTheEndHolds == Spec => []LastIsTheEnd
<1>1. Inv => LastIsTheEnd
  <2> SUFFICES ASSUME Inv, at["main"] = "dumped", endReason # "cycle_limit_exceeded", ~raced
               PROVE  LastWritten = LastSingle /\ LastSingle.end = Texts[endReason]
    BY DEF LastIsTheEnd
  <2> DEFINE n == Len(states)
  <2>1. at["clock"] = "stopped" /\ at["EX"] = "done" BY DEF Inv, EndKept, Modules
  <2>2. endReason \in {"normal", "double_exception"}
    BY <2>1 DEF Inv, EndKept, Ending, Typed, FlagsTyped
  <2>3. final.end = Texts[endReason] /\ Back = final
    BY <2>1, <2>2 DEF Inv, EndKept, Told, ModesAgree
  <2>4. LastSingle = final BY DEF LastSingle
  <2>5. /\ n \in Nat \ {0} /\ DOMAIN states = 1 .. n
        /\ \A i \in 1 .. n : states[i].cycle = i
        /\ states[n] = final
    BY <2>3, EmptySeq, LenProperties DEF Inv, Typed, StatesTyped, Back
  <2>6. finalCycle = n
    <3> DEFINE found == {i \in DOMAIN states : states[i].end = Texts[endReason]}
    <3>1. n \in found /\ \A j \in found : j <= n BY <2>3, <2>5
    <3>2. \A i \in found : (\A j \in found : j <= i) => i = n BY <2>5, <3>1
    <3>3. (CHOOSE i \in found : \A j \in found : j <= i) = n
      <4> HIDE DEF found, n
      <4> QED BY <3>1, <3>2
    <3>4. found # {} BY <3>1
    <3>5. finalCycle = states[CHOOSE i \in found : \A j \in found : j <= i].cycle
      BY <3>4 DEF finalCycle
    <3>6. states[n].cycle = n BY <2>5
    <3> HIDE DEF found, n
    <3> QED BY <3>3, <3>5, <3>6
  <2>7. LastWritten = states[n]
    <3> DEFINE written == {i \in DOMAIN states : states[i].cycle <= finalCycle}
    <3>1. n \in written /\ \A j \in written : j <= n BY <2>5, <2>6
    <3>2. \A i \in written : (\A j \in written : j <= i) => i = n BY <2>5, <3>1
    <3>3. (CHOOSE i \in written : \A j \in written : j <= i) = n
      <4> HIDE DEF written, n
      <4> QED BY <3>1, <3>2
    <3>4. LastWritten = states[CHOOSE i \in written : \A j \in written : j <= i]
      BY DEF LastWritten
    <3> QED BY <3>3, <3>4
  <2> QED BY <2>3, <2>4, <2>5, <2>7
<1> QED BY <1>1, Invariance, PTL
=============================================================================
