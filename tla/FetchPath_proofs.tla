-------------------------- MODULE FetchPath_proofs --------------------------
(***************************************************************************)
(* The Instruction Cache between Load/Store and Decode, for every size of  *)
(* memory, windows and cache, and every set of requests.                   *)
(***************************************************************************)
EXTENDS FetchPath, SequenceTheorems, TLAPS

-----------------------------------------------------------------------------
(* Requests, the control of LS and the pipes: the pipes keep their type whatever
   the clients and the LS thread do. *)

\* Address arithmetic of a request stays inside the address space.
LEMMA WordAtInAddr ==
  ASSUME NEW a \in Addr, NEW i \in Nat \ {0}
  PROVE  WordAt(a, i) \in Addr
  BY MemoryAssumption, AddressAssumption, Z3 DEF WordAt, Addr

\* The data of a request is a sequence of words.
LEMMA RequestType ==
  ASSUME NEW r \in Request
  PROVE  /\ r.store \in BOOLEAN /\ r.addr \in Addr /\ r.odd \in BOOLEAN
         /\ r.data \in Seq(Word)
         /\ \A i \in 1 .. Len(r.data) : r.data[i] \in Word
  BY DEF Request

\* The control state of LS is told by its pc.
LEMMA ServingState ==
  ASSUME ls \in LSState
  PROVE  /\ ls.pc = "ex" => ls \in Serving
         /\ ls.pc = "ic" => ls \in Fetching
  BY DEF LSState, Idle, Serving, Fetching

\* While LS works on words of a request, the current address and word exist.
LEMMA CurrentWord ==
  ASSUME PipesTypeOK, MoreWords
  PROVE  /\ ls \in Serving
         /\ CurrAddr \in Addr
         /\ CurrData \in Word
<1>1. ls \in Serving
  BY ServingState DEF PipesTypeOK, MoreWords
<1>2. /\ ls.req \in Request /\ ls.n \in Nat
      /\ ls.n + 1 \in 1 .. Len(ls.req.data)
  BY <1>1, RequestType DEF MoreWords, Serving
<1>3. CurrAddr \in Addr
  BY <1>1, <1>2, RequestType, WordAtInAddr DEF CurrAddr
<1>4. CurrData \in Word
  BY <1>1, <1>2, RequestType DEF CurrData
<1>5. QED
  BY <1>1, <1>3, <1>4

\* The client steps keep the type of the pipes.
LEMMA ClientPipesType ==
  ASSUME PipesTypeOK,
         \/ EXSend \/ EXReceive \/ ICReceive
         \/ \E w \in ICWindows : ICSend(w)
  PROVE  PipesTypeOK'
<1>1. CASE EXSend
  BY <1>1, MemoryAssumption, AddressAssumption DEF EXSend, PipesTypeOK
<1>2. CASE EXReceive
  BY <1>2 DEF EXReceive, PipesTypeOK
<1>3. CASE ICReceive
  BY <1>3 DEF ICReceive, PipesTypeOK
<1>4. ASSUME NEW w \in ICWindows, ICSend(w)
      PROVE  PipesTypeOK'
  <2>1. w \in Window
    BY MemoryAssumption, AddressAssumption
  <2>2. QED
    BY <1>4, <2>1 DEF ICSend, PipesTypeOK
<1>5. QED
  BY <1>1, <1>2, <1>3, <1>4

\* Beginning a request and answering keep the type of the pipes.
LEMMA ServicePipesType ==
  ASSUME PipesTypeOK, TakeEX \/ AnswerEX \/ AnswerIC
  PROVE  PipesTypeOK'
<1>1. CASE TakeEX
  <2>1. ls' \in Serving
    BY <1>1 DEF TakeEX, PipesTypeOK, Serving
  <2>2. QED
    BY <1>1, <2>1 DEF TakeEX, PipesTypeOK, LSState
<1>2. CASE AnswerEX
  <2>1. ls \in Serving
    BY <1>2, ServingState DEF AnswerEX, PipesTypeOK
  <2>2. [fault |-> ls.req.odd, data |-> ls.data] \in Response
    BY <2>1, RequestType DEF Response, Serving
  <2>3. QED
    BY <1>2, <2>2 DEF AnswerEX, PipesTypeOK, LSState
<1>3. CASE AnswerIC
  <2>1. ls.resp \in ToIC
    BY <1>3, ServingState DEF AnswerIC, PipesTypeOK, Fetching, ToIC
  <2>2. QED
    BY <1>3, <2>1 DEF AnswerIC, PipesTypeOK, LSState
<1>4. QED
  BY <1>1, <1>2, <1>3

\* Loading or storing a word and reading a window keep the type of the pipes.
LEMMA WordPipesType ==
  ASSUME PipesTypeOK,
         \/ WordStored
         \/ \E v \in Word : WordLoaded(v)
         \/ \E d \in [1 .. WindowWords -> Word] : TakeIC(d)
  PROVE  PipesTypeOK'
<1>1. CASE WordStored
  <2>1. /\ ls \in Serving
        /\ CurrAddr \in Addr
    BY <1>1, CurrentWord DEF WordStored
  <2>2. Invalidation(CurrAddr) \in ToIC
    BY <2>1 DEF ToIC
  <2>3. ls' \in Serving
    BY <1>1, <2>1 DEF WordStored, Serving
  <2>4. QED
    BY <1>1, <2>2, <2>3 DEF WordStored, PipesTypeOK, LSState
<1>2. ASSUME NEW v \in Word, WordLoaded(v)
      PROVE  PipesTypeOK'
  <2>1. ls \in Serving
    BY <1>2, CurrentWord DEF WordLoaded
  <2>2. Append(ls.data, v) \in Seq(Word) /\ ls.n + 1 \in Nat
    BY <2>1 DEF Serving
  <2>3. ls' \in Serving
    BY <1>2, <2>1, <2>2 DEF WordLoaded, Serving
  <2>4. QED
    BY <1>2, <2>3 DEF WordLoaded, PipesTypeOK, LSState
<1>3. ASSUME NEW d \in [1 .. WindowWords -> Word], TakeIC(d)
      PROVE  PipesTypeOK'
  <2>1. Head(icReq) \in Window /\ Tail(icReq) \in Seq(Window)
    BY <1>3 DEF TakeIC, PipesTypeOK
  <2>2. FetchResponse(Head(icReq), d) \in FetchResponses
    BY <2>1 DEF FetchResponse, FetchResponses
  <2>3. ls' \in LSState
    BY <1>3, <2>2 DEF TakeIC, LSState, Fetching
  <2>4. QED
    BY <1>3, <2>1, <2>3 DEF TakeIC, PipesTypeOK
<1>4. QED
  BY <1>1, <1>2, <1>3

-----------------------------------------------------------------------------
(* Addresses and windows. *)

\* Division with a remainder.
LEMMA Division ==
  ASSUME NEW x \in Nat, NEW n \in Nat \ {0}
  PROVE  /\ x \div n \in Nat /\ (x \div n) * n \in Nat
         /\ x % n \in 0 .. n - 1
         /\ x = (x \div n) * n + (x % n)
<1>1. x \div n \in Nat /\ x % n \in 0 .. n - 1
  BY Z3
<1>2. (x \div n) * n + (x % n) = x
  BY Z3
<1> QED
  BY <1>1, <1>2, Z3

\* The remainder of a multiple and a bit more is that bit.
LEMMA Remainder ==
  ASSUME NEW q \in Nat, NEW n \in Nat \ {0}, NEW r \in 0 .. n - 1
  PROVE  (q * n + r) % n = r
<1>1. q * n \in Nat /\ r \in Nat /\ n \in Nat /\ r < n
  BY Z3
<1> DEFINE y == q * n + r
           d == y \div n
           z == y % n
<1>2. y \in Nat
  BY <1>1
<1>3. d \in Nat /\ d * n \in Nat /\ z \in 0 .. n - 1 /\ y = d * n + z
  BY <1>2, Division
<1> HIDE DEF d, z
<1>4. ASSUME NEW a \in Nat, NEW b \in Nat, a < b
      PROVE  a * n + n <= b * n
  <2>1. (a + 1) * n <= b * n
    BY <1>4, Z3
  <2>2. (a + 1) * n = a * n + n
    BY Z3
  <2>3. a * n \in Nat /\ b * n \in Nat
    BY Z3
  <2> QED
    BY <2>1, <2>2, <2>3
<1>5. ~(q < d) /\ ~(d < q)
  BY <1>1, <1>3, <1>4
<1>6. q = d
  BY <1>3, <1>5
<1> QED
  BY <1>1, <1>3, <1>6 DEF z

\* The address space and a window are so many whole windows.
LEMMA WholeWindows ==
  /\ NumAddr \in Nat /\ WindowWords \in Nat /\ NumAddr > 0 /\ WindowWords > 0
  /\ \E m \in Nat : NumAddr = m * WindowWords
  /\ \A w \in Window : w \in Addr /\ w \in Nat /\ \E q \in Nat : w = q * WindowWords
<1>1. NumAddr \in Nat /\ WindowWords \in Nat /\ NumAddr > 0 /\ WindowWords > 0
      /\ NumAddr % WindowWords = 0
  BY AddressAssumption
<1>2. ASSUME NEW x \in Nat, x % WindowWords = 0
      PROVE  \E q \in Nat : x = q * WindowWords
  <2>1. /\ x \div WindowWords \in Nat /\ (x \div WindowWords) * WindowWords \in Nat
        /\ x = (x \div WindowWords) * WindowWords + (x % WindowWords)
    BY <1>1, Division
  <2>2. x = (x \div WindowWords) * WindowWords
    BY <2>1, <1>2
  <2> QED
    BY <2>1, <2>2
<1>3. \A w \in Window : w \in Addr /\ w \in Nat /\ w % WindowWords = 0
  BY <1>1 DEF Window, Addr
<1> QED
  BY <1>1, <1>2, <1>3

\* A word of a window is behind its first one, without wrapping.
LEMMA WordOfWindow ==
  ASSUME NEW w \in Window, NEW i \in 1 .. WindowWords
  PROVE  /\ w + i - 1 \in Addr
         /\ WordAt(w, i) = w + i - 1
         /\ WindowOf(w + i - 1) = w
<1>1. PICK q \in Nat, m \in Nat : w = q * WindowWords /\ NumAddr = m * WindowWords
  BY WholeWindows
<1>2. w < NumAddr /\ w \in Nat
  BY WholeWindows DEF Window, Addr
<1>3. q < m
  BY <1>1, <1>2, WholeWindows, Z3
<1>4. w + WindowWords <= NumAddr
  <2>1. q + 1 <= m
    BY <1>3
  <2>2. (q + 1) * WindowWords <= m * WindowWords
    BY <2>1, WholeWindows, Z3
  <2>3. (q + 1) * WindowWords = q * WindowWords + WindowWords
    BY WholeWindows, Z3
  <2> QED
    BY <1>1, <2>2, <2>3
<1>5. w + i - 1 \in Addr
  BY <1>2, <1>4, WholeWindows DEF Addr
<1>6. (w + i - 1) % NumAddr = w + i - 1
  BY <1>5, WholeWindows, Z3 DEF Addr
<1>7. (w + i - 1) % WindowWords = i - 1
  <2>1. (q * WindowWords + (i - 1)) % WindowWords = i - 1
    BY WholeWindows, Remainder
  <2> QED
    BY <2>1, <1>1, <1>2
<1> QED
  BY <1>5, <1>6, <1>7, <1>2 DEF WordAt, WindowOf

\* Every word lies in a window.
LEMMA WindowOfWord ==
  ASSUME NEW a \in Addr
  PROVE  WindowOf(a) \in Window
<1>1. a \in Nat /\ a < NumAddr /\ WindowWords \in Nat \ {0}
  BY WholeWindows DEF Addr
<1>2. /\ a \div WindowWords \in Nat /\ (a \div WindowWords) * WindowWords \in Nat
      /\ a % WindowWords \in 0 .. WindowWords - 1
      /\ a = (a \div WindowWords) * WindowWords + (a % WindowWords)
  BY <1>1, Division
<1>3. ((a \div WindowWords) * WindowWords + 0) % WindowWords = 0
  BY <1>1, <1>2, Remainder
<1>4. WindowOf(a) = (a \div WindowWords) * WindowWords
  BY <1>1, <1>2 DEF WindowOf
<1> QED
  BY <1>1, <1>2, <1>3, <1>4, WholeWindows DEF Window, Addr

\* The window after a window is one.
LEMMA NextIsWindow ==
  ASSUME NEW w \in Window
  PROVE  NextWindow(w) \in Window
<1>1. PICK q \in Nat, m \in Nat : w = q * WindowWords /\ NumAddr = m * WindowWords
  BY WholeWindows
<1>2. w \in Nat /\ w < NumAddr
  BY WholeWindows DEF Window, Addr
<1>3. w + WindowWords <= NumAddr
  <2>1. q < m
    BY <1>1, <1>2, WholeWindows, Z3
  <2>2. (q + 1) * WindowWords <= m * WindowWords
    BY <2>1, WholeWindows, Z3
  <2>3. (q + 1) * WindowWords = q * WindowWords + WindowWords
    BY WholeWindows, Z3
  <2> QED
    BY <1>1, <2>2, <2>3
<1>4. CASE w + WindowWords = NumAddr
  <2>1. NextWindow(w) = 0
    BY <1>4, WholeWindows, Z3 DEF NextWindow
  <2> QED
    BY <2>1, WholeWindows, Z3 DEF Window, Addr
<1>5. CASE w + WindowWords < NumAddr
  <2>1. NextWindow(w) = w + WindowWords
    BY <1>2, <1>5, WholeWindows, Z3 DEF NextWindow
  <2>2. (w + WindowWords) % WindowWords = 0
    <3>1. ((q + 1) * WindowWords + 0) % WindowWords = 0
      BY WholeWindows, Remainder
    <3>2. (q + 1) * WindowWords = q * WindowWords + WindowWords
      BY WholeWindows, Z3
    <3> QED
      BY <3>1, <3>2, <1>1, <1>2, WholeWindows
  <2> QED
    BY <2>1, <2>2, <1>2, <1>5, WholeWindows DEF Window, Addr
<1> QED
  BY <1>2, <1>3, <1>4, <1>5, WholeWindows

\* A window has its line in the cache, and a tag that fits.
LEMMA LineOfWindow ==
  ASSUME NEW w \in Window
  PROVE  LineOf(w) \in LineIndex /\ WindowTag(w) \in 0 .. TagSpan - 1
<1>1. w \in Nat /\ NumLines \in Nat \ {0} /\ TagSpan \in Nat \ {0}
  BY WholeWindows, FetchAssumption
<1>2. w \div WindowWords \in Nat
  BY <1>1, WholeWindows, Z3
<1>3. (w \div WindowWords) \div NumLines \in Nat
  BY <1>1, <1>2, Z3
<1> QED
  BY <1>1, <1>2, <1>3, Z3 DEF LineOf, WindowTag, LineIndex
-----------------------------------------------------------------------------
(* Types. *)

\* The operation of the IC thread is told by its stage.
LEMMA OperationIs ==
  ASSUME icOp \in OpStates
  PROVE  /\ icOp.stage \in {"idle", "look", "wait", "hit", "check", "push"}
         /\ icOp.stage = "idle" => icOp = Resting
         /\ icOp.stage = "wait" => icOp \in [stage : {"wait"}, at : Window, prepared : Window]
         /\ icOp.stage \in {"hit", "check", "push"} =>
              icOp \in [stage : {"hit", "check", "push"}, at : Window, data : Contents]
BY DEF OpStates, Resting

\* A message to IC is an invalidation or a window.
LEMMA MessageIs ==
  ASSUME NEW m \in ToIC
  PROVE  /\ m.inv \in BOOLEAN /\ m.addr \in Addr
         /\ ~m.inv => m.addr \in Window /\ m.data \in Contents
<1>1. CASE m \in FetchResponses
  BY <1>1 DEF FetchResponses, Window, Contents
<1>2. ASSUME NEW a \in Addr, m = Invalidation(a)
      PROVE  m.inv = TRUE /\ m.addr = a
  BY <1>2 DEF Invalidation
<1> QED
  BY <1>1, <1>2 DEF ToIC

\* Invalidating a window and storing one keep the cache one.
LEMMA CacheIsKept ==
  ASSUME lines \in [LineIndex -> Line], NEW w \in Window, NEW d \in Contents
  PROVE  /\ Invalidated(lines, w) \in [LineIndex -> Line]
         /\ Stored(lines, w, d) \in [LineIndex -> Line]
<1>1. LineOf(w) \in LineIndex /\ WindowTag(w) \in 0 .. TagSpan - 1
  BY LineOfWindow
<1>2. Invalidated(lines, w) \in [LineIndex -> Line]
  BY <1>1 DEF Invalidated, Line
<1>3. [tag |-> WindowTag(w), data |-> d, valid |-> TRUE] \in Line
  BY <1>1 DEF Line
<1> QED
  BY <1>1, <1>2, <1>3 DEF Stored

\* What is in front of the pipe to IC, and what is behind it.
LEMMA PipeSplit ==
  ASSUME toIC \in Seq(ToIC), toIC # << >>
  PROVE  /\ Head(toIC) \in ToIC /\ Tail(toIC) \in Seq(ToIC)
         /\ Head(toIC) = toIC[1] /\ 1 \in DOMAIN toIC
         /\ DOMAIN Tail(toIC) = 1 .. Len(toIC) - 1
         /\ \A i \in DOMAIN Tail(toIC) : Tail(toIC)[i] = toIC[i + 1] /\ i + 1 \in DOMAIN toIC
OBVIOUS

\* The types, with those of the memory behind the pipes written out.
Typed ==
  /\ PipesTypeOK
  /\ flat \in [Addr -> Word \cup {Unset}]
  /\ exLeft \in 0 .. MaxRequests
  /\ lines \in [LineIndex -> Line]
  /\ internalIP \in Window
  /\ icOp \in OpStates
  /\ toDE \in Seq([at : Window, data : Contents])
  /\ fromDE \in Seq(Targets)

LEMMA TypedIsTypeOK == Typed <=> TypeOK
<1>1. Memory!ToIC = ToIC /\ Memory!LSState = LSState
  BY DEF Memory!ToIC, ToIC, Memory!Invalidation, Invalidation, Memory!FetchResponses,
         FetchResponses, Memory!LSState, LSState, Memory!Idle, Idle, Memory!Serving, Serving,
         Memory!Fetching, Fetching, Memory!Request, Request, Memory!Window, Window,
         Memory!Addr, Addr
<1>2. Memory!PipesTypeOK <=> PipesTypeOK
  BY <1>1 DEF Memory!PipesTypeOK, PipesTypeOK, Memory!Request, Request, Memory!Response,
         Response, Memory!Window, Window, Memory!Addr, Addr
<1> QED
  BY <1>2 DEF Typed, TypeOK, Memory!TypeOK, Memory!Addr, Addr

\* What the LS thread does next, as FlatMemory has it.
LoadsWord ==
  /\ MoreWords
  /\ \E v \in CellValues(flat[CurrAddr]) : WordLoaded(v)
  /\ UNCHANGED flat

StoresWord ==
  /\ WordStored
  /\ flat' = [flat EXCEPT ![CurrAddr] = CurrData]

ReadsWindow ==
  /\ icReq # << >>
  /\ \E d \in Contents :
       /\ \A i \in 1 .. WindowWords : d[i] \in CellValues(flat[WordAt(Head(icReq), i)])
       /\ TakeIC(d)
  /\ UNCHANGED flat

Serves == (TakeEX \/ AnswerEX \/ AnswerIC) /\ UNCHANGED flat

LEMMA MemorySteps ==
  ASSUME LSStep
  PROVE  /\ LoadsWord \/ StoresWord \/ ReadsWindow \/ Serves
         /\ UNCHANGED <<exLeft, lines, internalIP, icOp, toDE, fromDE>>
<1>1. Memory!LoadWord => LoadsWord
  BY DEF Memory!LoadWord, LoadsWord, Memory!MoreWords, MoreWords, Memory!CellValues,
         CellValues, Memory!CurrAddr, CurrAddr, Memory!WordAt, WordAt,
         Memory!WordLoaded, WordLoaded
<1>2. Memory!StoreWord => StoresWord
  BY DEF Memory!StoreWord, StoresWord, Memory!MoreWords, MoreWords, Memory!CurrAddr,
         CurrAddr, Memory!CurrData, CurrData, Memory!WordAt, WordAt, Memory!WordStored,
         WordStored, Memory!Invalidation, Invalidation
<1>3. Memory!ReadWindow => ReadsWindow
  BY DEF Memory!ReadWindow, ReadsWindow, Contents, Memory!CellValues, CellValues,
         Memory!WordAt, WordAt, Memory!TakeIC, TakeIC, Memory!FetchResponse, FetchResponse
<1>4. (Memory!TakeEX \/ Memory!AnswerEX \/ Memory!AnswerIC) /\ UNCHANGED flat => Serves
  BY DEF Serves, Memory!TakeEX, TakeEX, Memory!AnswerEX, AnswerEX, Memory!AnswerIC,
         AnswerIC, Memory!MoreWords, MoreWords, Memory!Idle, Idle
<1> QED
  BY <1>1, <1>2, <1>3, <1>4 DEF LSStep, Memory!LSStep, icVars

\* Each step of the IC thread keeps the types.
LEMMA ICKeepsType ==
  ASSUME Typed, ICStep PROVE Typed'
<1> USE DEF Typed, PipesTypeOK
<1>1. CASE TakeOldMessage
  <2>1. Tail(toIC) \in Seq(ToIC) /\ Head(toIC) \in ToIC
    BY <1>1, PipeSplit DEF TakeOldMessage
  <2>2. TakenAddrs(Head(toIC)) \subseteq Addr
    BY <2>1, MessageIs DEF TakenAddrs
  <2>3. PICK a \in Addr : lines' = Invalidated(lines, WindowOf(a))
    BY <1>1, <2>2 DEF TakeOldMessage
  <2>4. lines' \in [LineIndex -> Line]
    <3>1. [j \in 1 .. WindowWords |-> Zero] \in Contents
      BY MemoryAssumption DEF Contents
    <3> QED
      BY <2>3, <3>1, WindowOfWord, CacheIsKept
  <2>5. icOp' \in OpStates
    BY <1>1 DEF TakeOldMessage, OpStates
  <2> QED
    BY <1>1, <2>1, <2>4, <2>5 DEF TakeOldMessage
<1>2. CASE BeginHit
  <2>1. lines[LineOf(internalIP)].data \in Contents
    BY LineOfWindow DEF Line
  <2>2. icOp' \in OpStates
    BY <1>2, <2>1 DEF BeginHit, OpStates
  <2> QED
    BY <1>2, <2>2 DEF BeginHit, pipeVars
<1>3. CASE BeginMiss
  <2>1. icOp' \in OpStates
    BY <1>3 DEF BeginMiss, OpStates
  <2> QED
    BY <1>3, <2>1 DEF BeginMiss
<1>4. CASE TakeInvalidation
  <2>1. Tail(toIC) \in Seq(ToIC) /\ Head(toIC) \in ToIC
    BY <1>4, PipeSplit DEF TakeInvalidation
  <2>2. WindowOf(Head(toIC).addr) \in Window
    BY <2>1, MessageIs, WindowOfWord
  <2>3. lines' \in [LineIndex -> Line]
    <3>1. [j \in 1 .. WindowWords |-> Zero] \in Contents
      BY MemoryAssumption DEF Contents
    <3> QED
      BY <1>4, <2>2, <3>1, CacheIsKept DEF TakeInvalidation
  <2>4. icOp \in [stage : {"wait"}, at : Window, prepared : Window]
    BY <1>4, OperationIs DEF TakeInvalidation
  <2>5. icOp' \in [stage : {"wait"}, at : Window, prepared : Window]
    BY <1>4, <2>2, <2>4 DEF TakeInvalidation
  <2>6. icOp' \in OpStates
    BY <2>5 DEF OpStates
  <2> QED
    BY <1>4, <2>1, <2>3, <2>6 DEF TakeInvalidation
<1>5. CASE TakeResponse
  <2>1. Tail(toIC) \in Seq(ToIC) /\ Head(toIC) \in ToIC /\ ~Head(toIC).inv
    BY <1>5, PipeSplit DEF TakeResponse
  <2>2. Head(toIC).data \in Contents
    BY <2>1, MessageIs
  <2>3. icOp \in [stage : {"wait"}, at : Window, prepared : Window]
    BY <1>5, OperationIs DEF TakeResponse
  <2>4. lines' \in [LineIndex -> Line]
    BY <1>5, <2>2, <2>3, CacheIsKept DEF TakeResponse
  <2>5. icOp' \in OpStates
    BY <1>5, <2>2, <2>3 DEF TakeResponse, OpStates
  <2> QED
    BY <1>5, <2>1, <2>4, <2>5, NextIsWindow DEF TakeResponse
<1>6. CASE EndHit
  <2>1. icOp \in [stage : {"hit", "check", "push"}, at : Window, data : Contents]
    BY <1>6, OperationIs DEF EndHit
  <2>2. icOp' \in OpStates
    BY <1>6, <2>1 DEF EndHit, OpStates
  <2> QED
    BY <1>6, <2>2, NextIsWindow DEF EndHit, pipeVars
<1>7. CASE ObeySignal
  <2>1. Head(fromDE) \in Addr /\ Tail(fromDE) \in Seq(Targets)
    BY <1>7, FetchAssumption DEF ObeySignal
  <2>2. icOp' \in OpStates
    BY <1>7 DEF ObeySignal, OpStates
  <2> QED
    BY <1>7, <2>1, <2>2, WindowOfWord DEF ObeySignal, pipeVars
<1>8. CASE NoSignal
  <2>1. icOp \in [stage : {"hit", "check", "push"}, at : Window, data : Contents]
    BY <1>8, OperationIs DEF NoSignal
  <2>2. icOp' \in OpStates
    BY <1>8, <2>1 DEF NoSignal, OpStates
  <2> QED
    BY <1>8, <2>2 DEF NoSignal, pipeVars
<1>9. CASE PushWindow
  <2>1. icOp \in [stage : {"hit", "check", "push"}, at : Window, data : Contents]
    BY <1>9, OperationIs DEF PushWindow
  <2>2. icOp' \in OpStates
    BY <1>9 DEF PushWindow, OpStates
  <2>3. toDE' \in Seq([at : Window, data : Contents])
    BY <1>9, <2>1 DEF PushWindow
  <2> QED
    BY <1>9, <2>2, <2>3 DEF PushWindow, pipeVars
<1> QED
  BY <1>1, <1>2, <1>3, <1>4, <1>5, <1>6, <1>7, <1>8, <1>9 DEF ICStep

\* Each step of the LS thread keeps the types.
LEMMA LSKeepsType ==
  ASSUME Typed, LSStep PROVE Typed'
<1>1. UNCHANGED <<exLeft, lines, internalIP, icOp, toDE, fromDE>>
  BY MemorySteps
<1>2. CASE LoadsWord
  <2>1. PICK v \in CellValues(flat[CurrAddr]) : WordLoaded(v)
    BY <1>2 DEF LoadsWord
  <2>2. flat[CurrAddr] \in Word \cup {Unset}
    BY <1>2, CurrentWord DEF LoadsWord, Typed
  <2>3. v \in Word
    BY <2>1, <2>2, MemoryAssumption DEF CellValues
  <2>4. PipesTypeOK'
    BY <2>1, <2>3, WordPipesType DEF Typed
  <2> QED
    BY <1>1, <1>2, <2>4 DEF LoadsWord, Typed
<1>3. CASE StoresWord
  <2>1. CurrAddr \in Addr /\ CurrData \in Word
    BY <1>3, CurrentWord DEF StoresWord, WordStored, Typed
  <2>2. flat' \in [Addr -> Word \cup {Unset}]
    BY <1>3, <2>1 DEF StoresWord, Typed
  <2>3. PipesTypeOK'
    BY <1>3, WordPipesType DEF StoresWord, Typed
  <2> QED
    BY <1>1, <2>2, <2>3 DEF Typed
<1>4. CASE ReadsWindow
  <2>1. PipesTypeOK'
    BY <1>4, WordPipesType DEF ReadsWindow, Contents, Typed
  <2> QED
    BY <1>1, <1>4, <2>1 DEF ReadsWindow, Typed
<1>5. CASE Serves
  <2>1. PipesTypeOK'
    BY <1>5, ServicePipesType DEF Serves, Typed
  <2> QED
    BY <1>1, <1>5, <2>1 DEF Serves, Typed
<1> QED
  BY <1>2, <1>3, <1>4, <1>5, MemorySteps

\* So do Execute and Decode.
LEMMA OthersKeepType ==
  ASSUME Typed, EXStep \/ DEStep PROVE Typed'
<1>1. CASE EXStep
  <2>1. exLeft' \in 0 .. MaxRequests
    BY <1>1, FetchAssumption DEF EXStep, Typed
  <2>2. PipesTypeOK'
    BY <1>1, ClientPipesType DEF EXStep, Typed
  <2> QED
    BY <1>1, <2>1, <2>2 DEF EXStep, icVars, Typed
<1>2. CASE DEStep
  <2>1. PipesTypeOK'
    BY <1>2 DEF DEStep, pipeVars, PipesTypeOK, Typed
  <2>2. toDE' \in Seq([at : Window, data : Contents])
    BY <1>2 DEF DEStep, Typed
  <2>3. fromDE' \in Seq(Targets)
    BY <1>2 DEF DEStep, Typed
  <2> QED
    BY <1>2, <2>1, <2>2, <2>3 DEF DEStep, Typed
<1> QED
  BY <1>1, <1>2

\* Types hold at first and are kept.
LEMMA TypedInit == Init => Typed
<1> SUFFICES ASSUME Init PROVE Typed
  OBVIOUS
<1>1. flat \in [Addr -> Word \cup {Unset}]
  <2>1. flat = [a \in Addr |-> Visible(Image[a])]
    BY DEF Init, Memory!Init, Memory!Addr, Addr, Memory!Visible, Visible
  <2>2. \A a \in Addr : Visible(Image[a]) \in Word \cup {Unset}
    BY MemoryAssumption DEF Visible
  <2> QED
    BY <2>1, <2>2
<1>2. PipesTypeOK
  BY DEF Init, Memory!Init, Memory!PipesInit, Memory!Idle, Idle, PipesTypeOK, LSState
<1>3. lines \in [LineIndex -> Line]
  BY MemoryAssumption, FetchAssumption DEF Init, Line, Contents
<1>4. exLeft \in 0 .. MaxRequests /\ internalIP \in Window /\ icOp \in OpStates
  BY FetchAssumption DEF Init, OpStates
<1>5. toDE \in Seq([at : Window, data : Contents]) /\ fromDE \in Seq(Targets)
  BY DEF Init
<1> QED
  BY <1>1, <1>2, <1>3, <1>4, <1>5 DEF Typed

LEMMA TypedStep == Typed /\ [Next]_vars => Typed'
<1> SUFFICES ASSUME Typed, [Next]_vars PROVE Typed'
  OBVIOUS
<1>1. CASE UNCHANGED vars
  BY <1>1 DEF vars, Typed, PipesTypeOK
<1> QED
  BY <1>1, ICKeepsType, LSKeepsType, OthersKeepType DEF Next

LEMMA AlwaysTyped == Spec => []Typed
BY TypedInit, TypedStep, PTL DEF Spec

\* Threads and pipes hold what they are declared to hold, for every size of memory,
\* windows and cache (InstructionCache.h, DMCache.h).
THEOREM FetchPathTypeCorrect == Spec => []TypeOK
BY AlwaysTyped, TypedIsTypeOK, PTL

-----------------------------------------------------------------------------
(* The IC thread as a client of Load/Store.                                *)

NoWindow == \A i \in DOMAIN toIC : toIC[i].inv

\* The window is the only one in the pipe.
OneWindow(w) ==
  \E i \in DOMAIN toIC :
    /\ ~toIC[i].inv /\ toIC[i].addr = w
    /\ \A j \in DOMAIN toIC : j # i => toIC[j].inv

\* What is asked for is in the pipe to LS, with LS, or in the pipe back.
Awaited ==
  /\ icOp.stage # "wait" => ICQuiet
  /\ icOp.stage = "wait" =>
       \/ icReq = <<icOp.at>> /\ ls.pc # "ic" /\ NoWindow
       \/ icReq = << >> /\ ls.pc = "ic" /\ ls.resp.addr = icOp.at /\ NoWindow
       \/ icReq = << >> /\ ls.pc # "ic" /\ OneWindow(icOp.at)

\* The steps of IC that take no message and send none.
ICQuietStep == BeginHit \/ EndHit \/ ObeySignal \/ NoSignal \/ PushWindow

\* They end no wait and begin none.
LEMMA QuietSteps ==
  ASSUME Typed, ICQuietStep
  PROVE  /\ UNCHANGED <<flat, exLeft, exReq, exResp, icReq, toIC, ls>>
         /\ icOp.stage # "wait" /\ icOp'.stage # "wait"
<1>1. icOp.stage # "wait"
  BY DEF ICQuietStep, BeginHit, EndHit, ObeySignal, NoSignal, PushWindow, LooksUp, Resting
<1>2. icOp.stage \in {"hit", "check", "push"} => 
        icOp \in [stage : {"hit", "check", "push"}, at : Window, data : Contents]
  BY OperationIs DEF Typed
<1>3. UNCHANGED <<flat, exLeft, exReq, exResp, icReq, toIC, ls>>
  BY DEF ICQuietStep, BeginHit, EndHit, ObeySignal, NoSignal, PushWindow, pipeVars
<1>4. CASE BeginHit \/ ObeySignal \/ PushWindow
  BY <1>1, <1>3, <1>4 DEF BeginHit, ObeySignal, PushWindow, Resting
<1>5. CASE EndHit
  BY <1>1, <1>2, <1>3, <1>5 DEF EndHit
<1>6. CASE NoSignal
  BY <1>1, <1>2, <1>3, <1>6 DEF NoSignal
<1> QED
  BY <1>4, <1>5, <1>6 DEF ICQuietStep

\* The next message, when it is an invalidation, leaves the window in the pipe.
LEMMA InvalidationTaken ==
  ASSUME Typed, toIC # << >>, Head(toIC).inv, toIC' = Tail(toIC)
  PROVE  /\ NoWindow => NoWindow'
         /\ \A w : OneWindow(w) => OneWindow(w)'
<1>1. /\ Head(toIC) = toIC[1] /\ 1 \in DOMAIN toIC
      /\ DOMAIN Tail(toIC) = 1 .. Len(toIC) - 1 /\ DOMAIN toIC = 1 .. Len(toIC)
      /\ Len(toIC) \in Nat
      /\ \A i \in DOMAIN Tail(toIC) : Tail(toIC)[i] = toIC[i + 1] /\ i + 1 \in DOMAIN toIC
  BY PipeSplit DEF Typed, PipesTypeOK
<1>2. NoWindow => NoWindow'
  BY <1>1 DEF NoWindow
<1>3. ASSUME NEW w, OneWindow(w) PROVE OneWindow(w)'
  <2>1. PICK i \in DOMAIN toIC :
          /\ ~toIC[i].inv /\ toIC[i].addr = w
          /\ \A j \in DOMAIN toIC : j # i => toIC[j].inv
    BY <1>3 DEF OneWindow
  <2>2. i - 1 \in DOMAIN Tail(toIC) /\ Tail(toIC)[i - 1] = toIC[i]
    BY <1>1, <2>1
  <2>3. ASSUME NEW j \in DOMAIN Tail(toIC), j # i - 1
        PROVE  Tail(toIC)[j].inv
    BY <1>1, <2>1, <2>3
  <2> QED
    BY <2>1, <2>2, <2>3 DEF OneWindow
<1> QED
  BY <1>2, <1>3

\* An invalidation behind the others, or none, changes nothing for IC.
LEMMA InvalidationSent ==
  ASSUME Typed, NEW a \in Addr, toIC' = Append(toIC, Invalidation(a))
  PROVE  /\ NoWindow => NoWindow'
         /\ \A w : OneWindow(w) => OneWindow(w)'
<1>1. /\ Invalidation(a).inv
      /\ toIC'[Len(toIC) + 1] = Invalidation(a)
      /\ DOMAIN toIC' = 1 .. Len(toIC) + 1 /\ DOMAIN toIC = 1 .. Len(toIC)
      /\ Len(toIC) \in Nat
      /\ \A i \in DOMAIN toIC : toIC'[i] = toIC[i]
  BY DEF Typed, PipesTypeOK, Invalidation
<1>2. NoWindow => NoWindow'
  BY <1>1 DEF NoWindow
<1>3. ASSUME NEW w, OneWindow(w) PROVE OneWindow(w)'
  <2>1. PICK i \in DOMAIN toIC :
          /\ ~toIC[i].inv /\ toIC[i].addr = w
          /\ \A j \in DOMAIN toIC : j # i => toIC[j].inv
    BY <1>3 DEF OneWindow
  <2>2. i \in DOMAIN toIC' /\ ~toIC'[i].inv /\ toIC'[i].addr = w
    BY <1>1, <2>1
  <2>3. ASSUME NEW j \in DOMAIN toIC', j # i
        PROVE  toIC'[j].inv
    BY <1>1, <2>1, <2>3
  <2> QED
    BY <2>2, <2>3 DEF OneWindow
<1> QED
  BY <1>2, <1>3

\* The window comes: it is the one asked for, and only invalidations are left.
LEMMA WindowTaken ==
  ASSUME Typed, Awaited, icOp.stage = "wait", toIC # << >>, ~Head(toIC).inv
  PROVE  /\ Head(toIC).addr = icOp.at /\ icReq = << >> /\ ls.pc # "ic"
         /\ \A i \in DOMAIN Tail(toIC) : Tail(toIC)[i].inv
<1>1. /\ Head(toIC) = toIC[1] /\ 1 \in DOMAIN toIC
      /\ DOMAIN Tail(toIC) = 1 .. Len(toIC) - 1
      /\ \A i \in DOMAIN Tail(toIC) : Tail(toIC)[i] = toIC[i + 1] /\ i + 1 \in DOMAIN toIC
  BY PipeSplit DEF Typed, PipesTypeOK
<1>2. icReq = << >> /\ ls.pc # "ic" /\ OneWindow(icOp.at)
  BY <1>1 DEF Awaited, NoWindow
<1>3. PICK i \in DOMAIN toIC :
        /\ ~toIC[i].inv /\ toIC[i].addr = icOp.at
        /\ \A j \in DOMAIN toIC : j # i => toIC[j].inv
  BY <1>2 DEF OneWindow
<1>4. i = 1
  BY <1>1, <1>3
<1>5. \A j \in DOMAIN Tail(toIC) : j + 1 # 1
  BY <1>1
<1> QED
  BY <1>1, <1>2, <1>3, <1>4, <1>5

\* IC waits for one window at most, and for that one.
LEMMA ICKeepsAwaited ==
  ASSUME Typed, Awaited, ICStep PROVE Awaited'
<1>1. CASE ICQuietStep
  BY <1>1, QuietSteps DEF Awaited, ICQuiet
<1>2. CASE TakeOldMessage
  <2>1. icOp.stage # "wait" /\ icOp'.stage # "wait" /\ ICQuiet
    BY <1>2 DEF TakeOldMessage, Resting, Awaited
  <2>2. /\ DOMAIN Tail(toIC) = 1 .. Len(toIC) - 1
        /\ \A i \in DOMAIN Tail(toIC) : Tail(toIC)[i] = toIC[i + 1] /\ i + 1 \in DOMAIN toIC
    BY <1>2, PipeSplit DEF TakeOldMessage, Typed, PipesTypeOK
  <2>3. toIC' = Tail(toIC) /\ icReq' = icReq /\ ls' = ls
    BY <1>2 DEF TakeOldMessage
  <2> QED
    BY <2>1, <2>2, <2>3 DEF Awaited, ICQuiet
<1>3. CASE BeginMiss
  <2>1. icOp.stage # "wait" /\ ICQuiet
    BY <1>3 DEF BeginMiss, LooksUp, Resting, Awaited
  <2>2. icReq' = <<internalIP>> /\ icOp'.stage = "wait" /\ icOp'.at = internalIP
    BY <1>3, <2>1 DEF BeginMiss, ICQuiet
  <2> QED
    BY <1>3, <2>1, <2>2 DEF BeginMiss, Awaited, ICQuiet, NoWindow
<1>4. CASE TakeInvalidation
  <2>1. icOp \in [stage : {"wait"}, at : Window, prepared : Window]
    BY <1>4, OperationIs DEF TakeInvalidation, Typed
  <2>2. icOp.stage = "wait" /\ icOp'.stage = "wait" /\ icOp'.at = icOp.at
    BY <1>4, <2>1 DEF TakeInvalidation
  <2>3. (NoWindow => NoWindow') /\ \A w : OneWindow(w) => OneWindow(w)'
    BY <1>4, InvalidationTaken DEF TakeInvalidation
  <2>4. icReq' = icReq /\ ls' = ls
    BY <1>4 DEF TakeInvalidation
  <2>5. ASSUME OneWindow(icOp.at) PROVE OneWindow(icOp.at)'
    <3>1. PICK w : w = icOp.at /\ w = icOp'.at
      BY <2>2
    <3> QED
      BY <2>3, <2>5, <3>1 DEF OneWindow
  <2> QED
    BY <2>2, <2>3, <2>4, <2>5 DEF Awaited
<1>5. CASE TakeResponse
  <2>1. /\ icReq = << >> /\ ls.pc # "ic"
        /\ \A i \in DOMAIN Tail(toIC) : Tail(toIC)[i].inv
    BY <1>5, WindowTaken DEF TakeResponse
  <2> QED
    BY <1>5, <2>1 DEF TakeResponse, Awaited, ICQuiet
<1> QED
  BY <1>1, <1>2, <1>3, <1>4, <1>5 DEF ICStep, ICQuietStep

\* The LS thread.
LEMMA LSKeepsAwaited ==
  ASSUME Typed, Awaited, LSStep PROVE Awaited'
<1>1. UNCHANGED <<exLeft, lines, internalIP, icOp, toDE, fromDE>>
  BY MemorySteps
<1>2. CASE LoadsWord
  <2>1. ls \in Serving
    BY <1>2, CurrentWord DEF LoadsWord, Typed
  <2>2. ls.pc = "ex" /\ ls'.pc = "ex" /\ icReq' = icReq /\ toIC' = toIC
    BY <1>2, <2>1 DEF LoadsWord, WordLoaded, MoreWords, Serving
  <2> QED
    BY <1>1, <2>2 DEF Awaited, ICQuiet, NoWindow, OneWindow
<1>3. CASE StoresWord
  <2>1. ls \in Serving /\ CurrAddr \in Addr
    BY <1>3, CurrentWord DEF StoresWord, WordStored, Typed
  <2>2. ls.pc = "ex" /\ ls'.pc = "ex" /\ icReq' = icReq
    BY <1>3, <2>1 DEF StoresWord, WordStored, MoreWords, Serving
  <2>3. (NoWindow => NoWindow') /\ (OneWindow(icOp.at) => OneWindow(icOp.at)')
    BY <1>1, <1>3, <2>1, InvalidationSent DEF StoresWord, WordStored, OneWindow
  <2> QED
    BY <1>1, <2>2, <2>3 DEF Awaited, ICQuiet, NoWindow, OneWindow
<1>4. CASE ReadsWindow
  <2>1. icReq # << >> /\ ls.pc = "idle"
    BY <1>4 DEF ReadsWindow, TakeIC
  <2>2. icOp.stage = "wait" /\ icReq = <<icOp.at>> /\ NoWindow
    BY <2>1 DEF Awaited, ICQuiet
  <2>3. ls'.pc = "ic" /\ ls'.resp.addr = Head(icReq) /\ icReq' = Tail(icReq) /\ toIC' = toIC
    BY <1>4 DEF ReadsWindow, TakeIC, FetchResponse
  <2>4. ls'.resp.addr = icOp.at /\ icReq' = << >>
    BY <2>2, <2>3
  <2> QED
    BY <1>1, <2>2, <2>3, <2>4 DEF Awaited, NoWindow
<1>5. CASE TakeEX /\ UNCHANGED flat
  BY <1>1, <1>5 DEF TakeEX, Awaited, ICQuiet, NoWindow, OneWindow
<1>6. CASE AnswerEX /\ UNCHANGED flat
  BY <1>1, <1>6 DEF AnswerEX, Idle, Awaited, ICQuiet, NoWindow, OneWindow
<1>7. CASE AnswerIC /\ UNCHANGED flat
  <2>1. /\ icOp.stage = "wait" /\ icReq = << >> /\ ls.pc = "ic"
        /\ ls.resp.addr = icOp.at /\ NoWindow
    BY <1>7 DEF AnswerIC, Awaited, ICQuiet
  <2>2. ~ls.resp.inv
    BY <2>1, ServingState DEF Typed, PipesTypeOK, Fetching, FetchResponses
  <2>3. /\ toIC'[Len(toIC) + 1] = ls.resp /\ Len(toIC) \in Nat
        /\ DOMAIN toIC' = 1 .. Len(toIC) + 1 /\ DOMAIN toIC = 1 .. Len(toIC)
        /\ \A i \in DOMAIN toIC : toIC'[i] = toIC[i]
    BY <1>7 DEF AnswerIC, Typed, PipesTypeOK
  <2>4. OneWindow(icOp.at)'
    <3>1. Len(toIC) + 1 \in DOMAIN toIC'
      BY <2>3
    <3>2. ASSUME NEW j \in DOMAIN toIC', j # Len(toIC) + 1
          PROVE  toIC'[j].inv
      BY <2>1, <2>3, <3>2 DEF NoWindow
    <3> QED
      BY <1>1, <2>1, <2>2, <2>3, <3>1, <3>2 DEF OneWindow
  <2>5. ls'.pc # "ic" /\ icReq' = << >>
    BY <1>7, <2>1 DEF AnswerIC, Idle
  <2> QED
    BY <1>1, <2>1, <2>4, <2>5 DEF Awaited, OneWindow
<1> QED
  BY <1>2, <1>3, <1>4, <1>5, <1>6, <1>7, MemorySteps DEF Serves

LEMMA AwaitedStep == Typed /\ Awaited /\ [Next]_vars => Awaited'
<1> SUFFICES ASSUME Typed, Awaited, [Next]_vars PROVE Awaited'
  OBVIOUS
<1>1. CASE UNCHANGED vars
  BY <1>1 DEF vars, Awaited, ICQuiet, NoWindow, OneWindow
<1>2. CASE EXStep
  BY <1>2 DEF EXStep, EXSend, EXReceive, icVars, Awaited, ICQuiet, NoWindow, OneWindow
<1>3. CASE DEStep
  BY <1>3 DEF DEStep, pipeVars, Awaited, ICQuiet, NoWindow, OneWindow
<1> QED
  BY <1>1, <1>2, <1>3, ICKeepsAwaited, LSKeepsAwaited DEF Next

LEMMA AlwaysAwaited == Spec => []Awaited
<1>1. Init => Awaited
  BY DEF Init, Memory!Init, Memory!PipesInit, Memory!Idle, Resting, Awaited, ICQuiet
<1> QED
  BY <1>1, AwaitedStep, AlwaysTyped, PTL DEF Spec

\* The control of the pipes is the same in FlatMemory.
LEMMA SamePipes ==
  /\ EXSend => Memory!EXSend
  /\ EXReceive => Memory!EXReceive
  /\ ICReceive => Memory!ICReceive
  /\ \A w : ICSend(w) => Memory!ICSend(w)
<1>1. EXSend => Memory!EXSend
  BY DEF EXSend, Memory!EXSend, EXQuiet, Memory!EXQuiet
<1>2. (EXReceive => Memory!EXReceive) /\ (ICReceive => Memory!ICReceive)
  BY DEF EXReceive, Memory!EXReceive, ICReceive, Memory!ICReceive
<1>3. ASSUME NEW w PROVE ICSend(w) => Memory!ICSend(w)
  BY DEF ICSend, Memory!ICSend, ICQuiet, Memory!ICQuiet
<1> QED
  BY <1>1, <1>2, <1>3

\* Every step is one of the memory and its clients, or none of theirs.
LEMMA ClientSteps ==
  ASSUME ICWindows = Window, Typed, Awaited, [Next]_vars
  PROVE  [Memory!Next]_(Memory!vars)
<1>1. CASE UNCHANGED vars
  BY <1>1 DEF vars, Memory!vars
<1>2. CASE ICQuietStep
  BY <1>2, QuietSteps DEF Memory!vars
<1>3. CASE TakeOldMessage \/ TakeInvalidation \/ TakeResponse
  <2>1. ICReceive /\ UNCHANGED flat
    BY <1>3 DEF TakeOldMessage, TakeInvalidation, TakeResponse, ICReceive
  <2> QED
    BY <2>1, SamePipes DEF Memory!Next, Memory!ClientStep
<1>4. CASE BeginMiss
  <2>1. ICSend(internalIP) /\ UNCHANGED flat /\ internalIP \in ICWindows
    BY <1>4 DEF BeginMiss, LooksUp, Resting, Awaited, ICSend, Typed
  <2> QED
    BY <2>1, SamePipes DEF Memory!Next, Memory!ClientStep
<1>5. CASE LSStep
  BY <1>5 DEF LSStep, Memory!Next
<1>6. CASE EXStep
  <2>1. (EXSend \/ EXReceive) /\ UNCHANGED flat
    BY <1>6 DEF EXStep
  <2> QED
    BY <2>1, SamePipes DEF Memory!Next, Memory!ClientStep
<1>7. CASE DEStep
  BY <1>7 DEF DEStep, pipeVars, Memory!vars
<1> QED
  BY <1>1, <1>2, <1>3, <1>4, <1>5, <1>6, <1>7 DEF Next, ICStep, ICQuietStep

\* The IC thread keeps to what FlatMemory, and so LoadStore, expects of its client:
\* it has one request under way and takes every message, for every cache and for
\* all windows (InstructionCache.cpp 71-78, 90).
THEOREM ActsAsClientHolds ==
  ASSUME ICWindows = Window
  PROVE  Spec => ActsAsClient
<1>1. Init => Memory!Init
  BY DEF Init
<1>2. Typed /\ Awaited /\ [Next]_vars => [Memory!Next]_(Memory!vars)
  BY ClientSteps
<1> QED
  BY <1>1, <1>2, AlwaysTyped, AlwaysAwaited, PTL DEF Spec, ActsAsClient, Memory!Spec
-----------------------------------------------------------------------------
(* Windows that a store overtakes.                                         *)

\* A window is what memory holds when it is read, and until it is sent; of one that
\* is sent, what has been stored since is still to be invalidated.
Followed ==
  /\ \A a \in Addr : flat[a] \in Word
  /\ ls.pc = "ic" =>
       \A k \in 1 .. WindowWords : ls.resp.data[k] = flat[WordAt(ls.resp.addr, k)]
  /\ OvertakenIsInvalidated

\* Taking a message keeps what is behind it.
LEMMA FollowedTail ==
  ASSUME Typed, Followed, toIC # << >>, toIC' = Tail(toIC), UNCHANGED <<flat, ls>>
  PROVE  Followed'
<1>1. /\ DOMAIN Tail(toIC) = 1 .. Len(toIC) - 1 /\ DOMAIN toIC = 1 .. Len(toIC)
      /\ Len(toIC) \in Nat /\ Len(Tail(toIC)) = Len(toIC) - 1
      /\ \A i \in DOMAIN Tail(toIC) : Tail(toIC)[i] = toIC[i + 1] /\ i + 1 \in DOMAIN toIC
  BY PipeSplit DEF Typed, PipesTypeOK
<1>2. ASSUME NEW i \in DOMAIN Tail(toIC), ~Tail(toIC)[i].inv, NEW k \in 1 .. WindowWords,
             Tail(toIC)[i].data[k] # flat[WordAt(Tail(toIC)[i].addr, k)]
      PROVE  \E j \in i + 1 .. Len(Tail(toIC)) :
               Tail(toIC)[j].inv /\ Tail(toIC)[j].addr = WordAt(Tail(toIC)[i].addr, k)
  <2>1. PICK j \in i + 2 .. Len(toIC) :
          toIC[j].inv /\ toIC[j].addr = WordAt(Tail(toIC)[i].addr, k)
    <3>1. i + 1 \in DOMAIN toIC /\ ~toIC[i + 1].inv
          /\ toIC[i + 1].data[k] # flat[WordAt(toIC[i + 1].addr, k)]
      BY <1>1, <1>2
    <3>2. \E j \in (i + 1) + 1 .. Len(toIC) :
            toIC[j].inv /\ toIC[j].addr = WordAt(toIC[i + 1].addr, k)
      BY <3>1, <1>2 DEF Followed, OvertakenIsInvalidated
    <3> QED
      BY <1>1, <1>2, <3>2
  <2>2. j - 1 \in i + 1 .. Len(Tail(toIC)) /\ Tail(toIC)[j - 1] = toIC[j]
    BY <1>1, <2>1
  <2> QED
    BY <2>1, <2>2
<1> QED
  BY <1>2 DEF Followed, OvertakenIsInvalidated

\* So does sending one: a store's invalidation covers what it changes.
LEMMA FollowedStore ==
  ASSUME Typed, Followed, StoresWord PROVE Followed'
<1>1. /\ ls \in Serving /\ CurrAddr \in Addr /\ CurrData \in Word
  BY CurrentWord DEF StoresWord, WordStored, Typed
<1>2. /\ toIC' = Append(toIC, Invalidation(CurrAddr))
      /\ flat' = [flat EXCEPT ![CurrAddr] = CurrData]
      /\ ls'.pc = "ex"
  BY <1>1 DEF StoresWord, WordStored, MoreWords, Serving
<1>3. /\ toIC'[Len(toIC) + 1] = Invalidation(CurrAddr) /\ Len(toIC) \in Nat
      /\ Len(toIC') = Len(toIC) + 1
      /\ DOMAIN toIC' = 1 .. Len(toIC) + 1 /\ DOMAIN toIC = 1 .. Len(toIC)
      /\ \A i \in DOMAIN toIC : toIC'[i] = toIC[i]
  BY <1>2 DEF Typed, PipesTypeOK
<1>4. Invalidation(CurrAddr).inv /\ Invalidation(CurrAddr).addr = CurrAddr
  BY DEF Invalidation
<1>5. ASSUME NEW i \in DOMAIN toIC', ~toIC'[i].inv, NEW k \in 1 .. WindowWords,
             toIC'[i].data[k] # flat'[WordAt(toIC'[i].addr, k)]
      PROVE  \E j \in i + 1 .. Len(toIC') :
               toIC'[j].inv /\ toIC'[j].addr = WordAt(toIC'[i].addr, k)
  <2>1. i \in DOMAIN toIC /\ toIC'[i] = toIC[i]
    BY <1>3, <1>4, <1>5
  <2>2. CASE WordAt(toIC[i].addr, k) = CurrAddr
    <3>1. Len(toIC) + 1 \in i + 1 .. Len(toIC')
      BY <1>3, <2>1
    <3> QED
      BY <1>3, <1>4, <2>1, <2>2, <3>1
  <2>3. CASE WordAt(toIC[i].addr, k) # CurrAddr
    <3>1. toIC[i].data[k] # flat[WordAt(toIC[i].addr, k)]
      <4>1. toIC[i].addr \in Addr
        BY <2>1, MessageIs DEF Typed, PipesTypeOK
      <4>2. WordAt(toIC[i].addr, k) \in Addr
        BY <4>1, WordAtInAddr, WholeWindows
      <4> QED
        BY <1>2, <1>5, <2>1, <2>3, <4>2 DEF Typed
    <3>2. PICK j \in i + 1 .. Len(toIC) :
            toIC[j].inv /\ toIC[j].addr = WordAt(toIC[i].addr, k)
      BY <2>1, <1>5, <3>1 DEF Followed, OvertakenIsInvalidated
    <3>3. j \in i + 1 .. Len(toIC') /\ toIC'[j] = toIC[j]
      BY <1>3, <2>1, <3>2
    <3> QED
      BY <2>1, <3>2, <3>3
  <2> QED
    BY <2>2, <2>3
<1>6. \A a \in Addr : flat'[a] \in Word
  BY <1>1, <1>2 DEF Followed, Typed
<1> QED
  BY <1>2, <1>5, <1>6 DEF Followed, OvertakenIsInvalidated

\* A window that is sent is as it was read.
LEMMA FollowedAnswer ==
  ASSUME Typed, Followed, AnswerIC, UNCHANGED flat PROVE Followed'
<1>1. toIC' = Append(toIC, ls.resp) /\ ls.pc = "ic" /\ ls'.pc # "ic"
  BY DEF AnswerIC, Idle
<1>2. /\ toIC'[Len(toIC) + 1] = ls.resp /\ Len(toIC) \in Nat
      /\ Len(toIC') = Len(toIC) + 1
      /\ DOMAIN toIC' = 1 .. Len(toIC) + 1 /\ DOMAIN toIC = 1 .. Len(toIC)
      /\ \A i \in DOMAIN toIC : toIC'[i] = toIC[i]
  BY <1>1 DEF Typed, PipesTypeOK
<1>3. ASSUME NEW i \in DOMAIN toIC', ~toIC'[i].inv, NEW k \in 1 .. WindowWords,
             toIC'[i].data[k] # flat'[WordAt(toIC'[i].addr, k)]
      PROVE  \E j \in i + 1 .. Len(toIC') :
               toIC'[j].inv /\ toIC'[j].addr = WordAt(toIC'[i].addr, k)
  <2>1. i \in DOMAIN toIC /\ toIC'[i] = toIC[i]
    BY <1>1, <1>2, <1>3 DEF Followed
  <2>2. PICK j \in i + 1 .. Len(toIC) :
          toIC[j].inv /\ toIC[j].addr = WordAt(toIC[i].addr, k)
    BY <2>1, <1>3 DEF Followed, OvertakenIsInvalidated
  <2>3. j \in i + 1 .. Len(toIC') /\ toIC'[j] = toIC[j]
    BY <1>2, <2>1, <2>2
  <2> QED
    BY <2>1, <2>2, <2>3
<1> QED
  BY <1>1, <1>3 DEF Followed, OvertakenIsInvalidated

\* What is read of memory without garbage is what it holds.
LEMMA CellsAreExact ==
  ASSUME ~GarbageMemory, Followed, NEW a \in Addr
  PROVE  CellValues(flat[a]) = {flat[a]}
BY MemoryAssumption DEF CellValues, Followed

LEMMA FollowedStep ==
  ASSUME ~GarbageMemory, Typed, Followed, [Next]_vars PROVE Followed'
<1>1. CASE UNCHANGED <<flat, toIC, ls>>
  BY <1>1 DEF Followed, OvertakenIsInvalidated
<1>2. CASE TakeOldMessage \/ TakeInvalidation \/ TakeResponse
  BY <1>2, FollowedTail DEF TakeOldMessage, TakeInvalidation, TakeResponse
<1>3. CASE ICQuietStep
  BY <1>1, <1>3, QuietSteps
<1>4. CASE LSStep
  <2>1. CASE LoadsWord
    <3>1. ls'.pc = "ex" /\ toIC' = toIC /\ flat' = flat
      <4>1. ls \in Serving
        BY <2>1, CurrentWord DEF LoadsWord, Typed
      <4> QED
        BY <2>1, <4>1 DEF LoadsWord, WordLoaded, MoreWords, Serving
    <3> QED
      BY <3>1 DEF Followed, OvertakenIsInvalidated
  <2>2. CASE StoresWord
    BY <2>2, FollowedStore
  <2>3. CASE ReadsWindow
    <3>1. PICK d \in Contents :
            /\ \A i \in 1 .. WindowWords : d[i] \in CellValues(flat[WordAt(Head(icReq), i)])
            /\ TakeIC(d)
      BY <2>3 DEF ReadsWindow
    <3>2. Head(icReq) \in Addr
      BY <2>3, WholeWindows DEF ReadsWindow, Typed, PipesTypeOK
    <3>3. ASSUME NEW i \in 1 .. WindowWords
          PROVE  d[i] = flat[WordAt(Head(icReq), i)]
      <4>1. WordAt(Head(icReq), i) \in Addr
        BY <3>2, WordAtInAddr, WholeWindows
      <4>2. CellValues(flat[WordAt(Head(icReq), i)]) = {flat[WordAt(Head(icReq), i)]}
        BY <4>1, CellsAreExact
      <4> QED
        BY <3>1, <4>2
    <3>4. /\ ls'.resp.data = d /\ ls'.resp.addr = Head(icReq)
          /\ flat' = flat /\ toIC' = toIC
      BY <2>3, <3>1 DEF ReadsWindow, TakeIC, FetchResponse
    <3> QED
      BY <3>3, <3>4 DEF Followed, OvertakenIsInvalidated
  <2>4. CASE (TakeEX \/ AnswerEX) /\ UNCHANGED flat
    <3>1. ls'.pc # "ic" /\ UNCHANGED <<flat, toIC>>
      BY <2>4 DEF TakeEX, AnswerEX, Idle
    <3> QED
      BY <3>1 DEF Followed, OvertakenIsInvalidated
  <2>5. CASE AnswerIC /\ UNCHANGED flat
    BY <2>5, FollowedAnswer
  <2> QED
    BY <1>4, <2>1, <2>2, <2>3, <2>4, <2>5, MemorySteps DEF Serves
<1>5. CASE BeginMiss \/ EXStep \/ DEStep \/ UNCHANGED vars
  <2>1. UNCHANGED <<flat, toIC, ls>>
    BY <1>5 DEF BeginMiss, EXStep, EXSend, EXReceive, DEStep, pipeVars, vars
  <2> QED
    BY <1>1, <2>1
<1> QED
  BY <1>2, <1>3, <1>4, <1>5 DEF Next, ICStep, ICQuietStep

LEMMA AlwaysFollowed == ASSUME ~GarbageMemory PROVE Spec => []Followed
<1>1. Init => Followed
  <2> SUFFICES ASSUME Init PROVE Followed
    OBVIOUS
  <2>1. flat = [a \in Addr |-> Visible(Image[a])] /\ toIC = << >> /\ ls.pc = "idle"
    BY DEF Init, Memory!Init, Memory!PipesInit, Memory!Idle, Memory!Addr, Addr,
           Memory!Visible, Visible
  <2>2. \A a \in Addr : Visible(Image[a]) \in Word
    BY MemoryAssumption DEF Visible
  <2> QED
    BY <2>1, <2>2 DEF Followed, OvertakenIsInvalidated
<1>2. Typed /\ Followed /\ [Next]_vars => Followed'
  BY FollowedStep
<1> QED
  BY <1>1, <1>2, AlwaysTyped, PTL DEF Spec

\* Whatever stores and requests of windows interleave, a window that a store has
\* overtaken on its way to IC is followed by the invalidation of that word
\* (LoadStore.cpp 70-75, 191).  With garbage memory an unset word has no value.
THEOREM OvertakenIsInvalidatedHolds ==
  ASSUME ~GarbageMemory
  PROVE  Spec => []OvertakenIsInvalidated
<1>1. Followed => OvertakenIsInvalidated
  BY DEF Followed
<1> QED
  BY <1>1, AlwaysFollowed, PTL
-----------------------------------------------------------------------------
(* Windows that no store touches, nor any that shares their line and tag.  *)

\* Invalidating a window makes no hit of a miss, and leaves the others their data.
LEMMA HitsAfterInvalidation ==
  ASSUME Typed, NEW v \in Window, NEW w \in Window, lines' = Invalidated(lines, v),
         IsAHit(lines', w)
  PROVE  IsAHit(lines, w) /\ lines'[LineOf(w)].data = lines[LineOf(w)].data
<1>1. LineOf(v) \in LineIndex /\ LineOf(w) \in LineIndex
  BY LineOfWindow
<1>2. lines[LineOf(w)] \in Line /\ lines[LineOf(v)] \in Line
  BY <1>1 DEF Typed
<1>3. CASE lines[LineOf(v)].tag = WindowTag(v) /\ LineOf(v) = LineOf(w)
  <2>1. lines' = [lines EXCEPT ![LineOf(v)].valid = FALSE]
    BY <1>3 DEF Invalidated
  <2>2. lines'[LineOf(w)].valid = FALSE
    BY <1>1, <1>2, <1>3, <2>1 DEF Typed, Line
  <2> QED
    BY <2>2 DEF IsAHit
<1>4. CASE ~(lines[LineOf(v)].tag = WindowTag(v) /\ LineOf(v) = LineOf(w))
  <2>1. lines'[LineOf(w)] = lines[LineOf(w)]
    BY <1>1, <1>4 DEF Invalidated, Typed
  <2> QED
    BY <2>1 DEF IsAHit
<1> QED
  BY <1>3, <1>4

\* Storing a window makes a hit of that one and of those the tag does not tell from it.
LEMMA HitsAfterStore ==
  ASSUME Typed, NEW v \in Window, NEW w \in Window, NEW d \in Contents,
         lines' = Stored(lines, v, d), IsAHit(lines', w)
  PROVE  \/ v \in Aliases(w) /\ lines'[LineOf(w)].data = d
         \/ IsAHit(lines, w) /\ lines'[LineOf(w)].data = lines[LineOf(w)].data
<1>1. LineOf(v) \in LineIndex /\ LineOf(w) \in LineIndex
  BY LineOfWindow
<1>2. CASE LineOf(v) = LineOf(w)
  <2>1. lines'[LineOf(w)] = [tag |-> WindowTag(v), data |-> d, valid |-> TRUE]
    BY <1>1, <1>2 DEF Stored, Typed
  <2>2. WindowTag(w) = WindowTag(v)
    BY <2>1 DEF IsAHit
  <2> QED
    BY <1>2, <2>1, <2>2 DEF Aliases
<1>3. CASE LineOf(v) # LineOf(w)
  <2>1. lines'[LineOf(w)] = lines[LineOf(w)]
    BY <1>1, <1>3 DEF Stored, Typed
  <2> QED
    BY <2>1 DEF IsAHit
<1> QED
  BY <1>2, <1>3

\* What is asked of LS is what EX may ask.
RequestsKnown ==
  /\ \A i \in DOMAIN exReq : exReq[i] \in EXRequests
  /\ ls.pc = "ex" => ls.req \in EXRequests

\* No invalidation is of a window the tag does not tell from w; what is cached, in a
\* pipe or in hand of one of them is what memory holds of one of them; and what is
\* stored where one of them was prepared for was asked for as one of them.
ExactEntry(w) ==
  /\ IsAHit(lines, w) => lines[LineOf(w)].data \in AnyOf(w)
  /\ \A i \in DOMAIN toDE : toDE[i].at = w => toDE[i].data \in AnyOf(w)
  /\ icOp.stage \in {"hit", "check", "push"} /\ icOp.at = w => icOp.data \in AnyOf(w)
  /\ icOp.stage = "wait" /\ icOp.prepared \in Aliases(w) => icOp.at \in Aliases(w)
  /\ \A i \in DOMAIN toIC :
       IF toIC[i].inv THEN WindowOf(toIC[i].addr) \notin Aliases(w)
       ELSE toIC[i].addr \in Aliases(w) => toIC[i].data \in AnyOf(w)

\* The windows whose line and tag no stored window shares.
Settled == {w \in Window : Aliases(w) \subseteq Unwritten}

Exact == RequestsKnown /\ \A w \in Settled : ExactEntry(w)

\* A window is not told from itself.
LEMMA OwnAlias == \A w \in Window : w \in Aliases(w)
BY DEF Aliases

LEMMA RequestsKnownStep ==
  ASSUME Typed, RequestsKnown, [Next]_vars PROVE RequestsKnown'
<1>1. CASE UNCHANGED <<exReq, ls>>
  BY <1>1 DEF RequestsKnown
<1>2. CASE LSStep
  <2>1. CASE LoadsWord \/ StoresWord
    <3>1. ls \in Serving
      BY <2>1, CurrentWord DEF LoadsWord, StoresWord, WordStored, Typed
    <3>2. ls'.req = ls.req /\ ls.pc = "ex" /\ exReq' = exReq
      BY <2>1, <3>1 DEF LoadsWord, StoresWord, WordLoaded, WordStored, MoreWords, Serving
    <3> QED
      BY <3>2 DEF RequestsKnown
  <2>2. CASE ReadsWindow
    BY <2>2 DEF ReadsWindow, TakeIC, RequestsKnown
  <2>3. CASE TakeEX
    <3>1. ls'.req = exReq[1] /\ 1 \in DOMAIN exReq
      BY <2>3 DEF TakeEX, Typed, PipesTypeOK
    <3>2. \A i \in DOMAIN exReq' : i + 1 \in DOMAIN exReq /\ exReq'[i] = exReq[i + 1]
      BY <2>3 DEF TakeEX, Typed, PipesTypeOK
    <3> QED
      BY <3>1, <3>2 DEF RequestsKnown
  <2>4. CASE AnswerEX \/ AnswerIC
    BY <2>4 DEF AnswerEX, AnswerIC, Idle, RequestsKnown
  <2> QED
    BY <1>2, <2>1, <2>2, <2>3, <2>4, MemorySteps DEF Serves
<1>3. CASE EXStep
  <2>1. CASE EXSend
    <3>1. PICK r \in EXRequests : exReq' = <<r>>
      BY <2>1 DEF EXSend, EXQuiet
    <3>2. \A i \in DOMAIN exReq' : exReq'[i] = r
      BY <3>1
    <3> QED
      BY <2>1, <3>1, <3>2 DEF EXSend, RequestsKnown
  <2> QED
    BY <1>3, <2>1 DEF EXStep, EXReceive, RequestsKnown
<1>4. CASE ICStep
  <2>1. UNCHANGED <<exReq, ls>>
    BY <1>4 DEF ICStep, TakeOldMessage, BeginHit, BeginMiss, TakeInvalidation, TakeResponse,
                EndHit, ObeySignal, NoSignal, PushWindow, pipeVars
  <2> QED
    BY <1>1, <2>1
<1>5. CASE DEStep \/ UNCHANGED vars
  BY <1>1, <1>5 DEF DEStep, pipeVars, vars
<1> QED
  BY <1>2, <1>3, <1>4, <1>5 DEF Next

\* What memory holds of a window no request stores to stays the same.
LEMMA UnwrittenIsKept ==
  ASSUME Typed, RequestsKnown, [Next]_vars, NEW w \in Unwritten
  PROVE  /\ Current(w)' = Current(w)
         /\ StoresWord => WindowOf(CurrAddr) # w
<1>1. w \in Window
  BY DEF Unwritten
<1>2. ASSUME StoresWord PROVE WindowOf(CurrAddr) # w
  <2>1. ls \in Serving
    BY <1>2, CurrentWord DEF StoresWord, WordStored, Typed
  <2>2. /\ ls.req \in EXRequests /\ ls.req.store
        /\ ls.n + 1 \in DOMAIN ls.req.data
    BY <1>2, <2>1, RequestType DEF StoresWord, WordStored, MoreWords, Serving, RequestsKnown
  <2> QED
    BY <2>2 DEF Unwritten, CurrAddr
<1>3. CASE StoresWord
  <2>1. \A i \in 1 .. WindowWords :
          WordAt(w, i) # CurrAddr /\ WordAt(w, i) \in Addr
    BY <1>1, <1>2, <1>3, WordOfWindow
  <2>2. \A i \in 1 .. WindowWords : flat'[WordAt(w, i)] = flat[WordAt(w, i)]
    BY <1>3, <2>1 DEF StoresWord, Typed
  <2> QED
    BY <1>2, <2>2 DEF Current
<1>4. CASE LSStep /\ ~StoresWord
  <2>1. flat' = flat
    BY <1>4, MemorySteps DEF LoadsWord, ReadsWindow, Serves
  <2> QED
    BY <1>4, <2>1 DEF Current
<1>5. CASE UNCHANGED flat
  BY <1>2, <1>5 DEF Current
<1>6. CASE ICStep \/ EXStep \/ DEStep \/ UNCHANGED vars
  <2>1. UNCHANGED flat
    BY <1>6 DEF ICStep, TakeOldMessage, BeginHit, BeginMiss, TakeInvalidation, TakeResponse,
                EndHit, ObeySignal, NoSignal, PushWindow, EXStep, DEStep, vars
  <2> QED
    BY <1>5, <2>1
<1> QED
  BY <1>3, <1>4, <1>6 DEF Next

\* Nor is what it holds of the windows the tag does not tell from it.
LEMMA SettledIsKept ==
  ASSUME Typed, RequestsKnown, [Next]_vars, NEW w \in Settled
  PROVE  /\ AnyOf(w)' = AnyOf(w)
         /\ StoresWord => WindowOf(CurrAddr) \notin Aliases(w)
<1>1. \A v \in Aliases(w) : v \in Unwritten
  BY DEF Settled
<1>2. \A v \in Aliases(w) : Current(v)' = Current(v)
  BY <1>1, UnwrittenIsKept
<1>3. Aliases(w)' = Aliases(w)
  BY DEF Aliases
<1>4. AnyOf(w)' = AnyOf(w)
  BY <1>2, <1>3 DEF AnyOf
<1>5. ASSUME StoresWord, WindowOf(CurrAddr) \in Aliases(w) PROVE FALSE
  BY <1>1, <1>5, UnwrittenIsKept
<1> QED
  BY <1>4, <1>5

\* The IC thread.
LEMMA ICKeepsExact ==
  ASSUME Typed, Awaited, ICStep,
         NEW w \in Settled, ExactEntry(w), AnyOf(w)' = AnyOf(w)
  PROVE  ExactEntry(w)'
<1>1. w \in Window /\ internalIP \in Window
  BY DEF Settled, Typed
<1> DEFINE PipeExact ==
      \A i \in DOMAIN toIC :
        IF toIC[i].inv THEN WindowOf(toIC[i].addr) \notin Aliases(w)
        ELSE toIC[i].addr \in Aliases(w) => toIC[i].data \in AnyOf(w)
<1>2. ASSUME toIC # << >>, toIC' = Tail(toIC)
      PROVE  /\ PipeExact'
             /\ Head(toIC) \in ToIC
             /\ Head(toIC).inv => WindowOf(Head(toIC).addr) \notin Aliases(w)
             /\ ~Head(toIC).inv =>
                  (Head(toIC).addr \in Aliases(w) => Head(toIC).data \in AnyOf(w))
  <2>1. /\ Head(toIC) \in ToIC /\ Head(toIC) = toIC[1] /\ 1 \in DOMAIN toIC
        /\ DOMAIN toIC' = 1 .. Len(toIC) - 1
        /\ \A i \in DOMAIN toIC' : toIC'[i] = toIC[i + 1] /\ i + 1 \in DOMAIN toIC
    BY <1>2, PipeSplit DEF Typed, PipesTypeOK
  <2> QED
    BY <2>1 DEF ExactEntry
<1>3. CASE TakeOldMessage
  <2>1. Head(toIC) \in ToIC /\ PipeExact'
    BY <1>2, <1>3 DEF TakeOldMessage
  <2>2. PICK a \in Addr : lines' = Invalidated(lines, WindowOf(a))
    <3>1. TakenAddrs(Head(toIC)) \subseteq Addr
      BY <2>1, MessageIs DEF TakenAddrs
    <3> QED
      BY <1>3, <3>1 DEF TakeOldMessage
  <2>3. IsAHit(lines', w) => IsAHit(lines, w) /\ lines'[LineOf(w)].data = lines[LineOf(w)].data
    BY <1>1, <2>2, WindowOfWord, HitsAfterInvalidation
  <2>4. icOp'.stage = "look" /\ toDE' = toDE
    BY <1>3 DEF TakeOldMessage
  <2> QED
    BY <2>1, <2>3, <2>4 DEF ExactEntry
<1>4. CASE BeginHit
  <2>1. icOp' = [stage |-> "hit", at |-> internalIP, data |-> lines[LineOf(internalIP)].data]
    BY <1>4 DEF BeginHit
  <2>2. IsAHit(lines, internalIP) /\ UNCHANGED <<lines, toDE, toIC>>
    BY <1>4 DEF BeginHit, pipeVars
  <2> QED
    BY <2>1, <2>2 DEF ExactEntry, IsAHit
<1>5. CASE BeginMiss
  <2>1. icOp' = [stage |-> "wait", at |-> internalIP, prepared |-> internalIP]
    BY <1>5 DEF BeginMiss
  <2>2. UNCHANGED <<lines, toDE, toIC>>
    BY <1>5 DEF BeginMiss
  <2> QED
    BY <2>1, <2>2 DEF ExactEntry, IsAHit
<1>6. CASE TakeInvalidation
  <2>1. /\ Head(toIC) \in ToIC /\ PipeExact' /\ Head(toIC).inv
        /\ WindowOf(Head(toIC).addr) \notin Aliases(w)
    BY <1>2, <1>6 DEF TakeInvalidation
  <2>2. IsAHit(lines', w) => IsAHit(lines, w) /\ lines'[LineOf(w)].data = lines[LineOf(w)].data
    BY <1>1, <1>6, <2>1, MessageIs, WindowOfWord, HitsAfterInvalidation DEF TakeInvalidation
  <2>3. icOp'.stage = "wait" /\ icOp'.prepared \notin Aliases(w) /\ toDE' = toDE
    <3>1. icOp \in [stage : {"wait"}, at : Window, prepared : Window]
      BY <1>6, OperationIs DEF TakeInvalidation, Typed
    <3> QED
      BY <1>6, <2>1, <3>1 DEF TakeInvalidation
  <2> QED
    BY <2>1, <2>2, <2>3 DEF ExactEntry
<1>7. CASE TakeResponse
  <2>1. /\ Head(toIC) \in ToIC /\ PipeExact' /\ ~Head(toIC).inv
        /\ Head(toIC).addr \in Aliases(w) => Head(toIC).data \in AnyOf(w)
    BY <1>2, <1>7 DEF TakeResponse
  <2>2. Head(toIC).addr = icOp.at /\ Head(toIC).data \in Contents
    BY <1>7, <2>1, MessageIs, WindowTaken DEF TakeResponse
  <2>3. icOp.prepared \in Aliases(w) => icOp.at \in Aliases(w)
    BY <1>7 DEF TakeResponse, ExactEntry
  <2>4. icOp.prepared \in Window
    BY <1>7, OperationIs DEF TakeResponse, Typed
  <2>5. \/ IsAHit(lines', w) =>
             icOp.prepared \in Aliases(w) /\ lines'[LineOf(w)].data = Head(toIC).data
        \/ IsAHit(lines', w) =>
             IsAHit(lines, w) /\ lines'[LineOf(w)].data = lines[LineOf(w)].data
    BY <1>1, <1>7, <2>2, <2>4, HitsAfterStore DEF TakeResponse
  <2>6. IsAHit(lines', w) => lines'[LineOf(w)].data \in AnyOf(w)
    BY <2>1, <2>2, <2>3, <2>5 DEF ExactEntry
  <2>7. /\ icOp' = [stage |-> "check", at |-> icOp.at, data |-> Head(toIC).data]
        /\ toDE' = toDE
    BY <1>7 DEF TakeResponse
  <2> QED
    BY <1>1, <2>1, <2>2, <2>6, <2>7, OwnAlias DEF ExactEntry
<1>8. CASE EndHit \/ NoSignal
  <2>1. icOp \in [stage : {"hit", "check", "push"}, at : Window, data : Contents]
    BY <1>8, OperationIs DEF EndHit, NoSignal, Typed
  <2>2. /\ icOp'.stage \in {"check", "push"} /\ icOp'.at = icOp.at /\ icOp'.data = icOp.data
        /\ UNCHANGED <<lines, toDE, toIC>>
    BY <1>8, <2>1 DEF EndHit, NoSignal, pipeVars
  <2> QED
    BY <2>1, <2>2 DEF ExactEntry, IsAHit
<1>9. CASE ObeySignal
  <2>1. icOp'.stage = "idle" /\ UNCHANGED <<lines, toDE, toIC>>
    BY <1>9 DEF ObeySignal, pipeVars, Resting
  <2> QED
    BY <2>1 DEF ExactEntry, IsAHit
<1>10. CASE PushWindow
  <2>1. icOp \in [stage : {"hit", "check", "push"}, at : Window, data : Contents]
    BY <1>10, OperationIs DEF PushWindow, Typed
  <2>2. /\ icOp'.stage = "idle" /\ UNCHANGED <<lines, toIC>>
        /\ toDE' = Append(toDE, [at |-> icOp.at, data |-> icOp.data])
    BY <1>10 DEF PushWindow, pipeVars, Resting
  <2>3. \A i \in DOMAIN toDE' :
          \/ i \in DOMAIN toDE /\ toDE'[i] = toDE[i]
          \/ toDE'[i] = [at |-> icOp.at, data |-> icOp.data]
    BY <2>2 DEF Typed
  <2>4. \A i \in DOMAIN toDE' : toDE'[i].at = w => toDE'[i].data \in AnyOf(w)
    BY <1>10, <2>3 DEF ExactEntry, PushWindow
  <2> QED
    BY <2>2, <2>4 DEF ExactEntry, IsAHit
<1> QED
  BY <1>3, <1>4, <1>5, <1>6, <1>7, <1>8, <1>9, <1>10 DEF ICStep

\* The LS thread.
LEMMA LSKeepsExact ==
  ASSUME Typed, Awaited, Followed, RequestsKnown, ~GarbageMemory, LSStep,
         NEW w \in Settled, ExactEntry(w), AnyOf(w)' = AnyOf(w)
  PROVE  ExactEntry(w)'
<1>1. UNCHANGED <<exLeft, lines, internalIP, icOp, toDE, fromDE>>
  BY MemorySteps
<1>2. CASE UNCHANGED toIC
  BY <1>1, <1>2 DEF ExactEntry, IsAHit
<1>3. CASE StoresWord
  <2>1. WindowOf(CurrAddr) \notin Aliases(w)
    BY <1>3, SettledIsKept DEF Next
  <2>2. /\ Invalidation(CurrAddr).inv /\ Invalidation(CurrAddr).addr = CurrAddr
        /\ toIC' = Append(toIC, Invalidation(CurrAddr))
    <3>1. toIC' = Append(toIC, Invalidation(CurrAddr))
      BY <1>3 DEF StoresWord, WordStored
    <3> QED
      BY <3>1 DEF Invalidation
  <2>3. \A i \in DOMAIN toIC' :
          \/ i \in DOMAIN toIC /\ toIC'[i] = toIC[i]
          \/ toIC'[i] = Invalidation(CurrAddr)
    <3>1. CurrAddr \in Addr
      BY <1>3, CurrentWord DEF StoresWord, WordStored, Typed
    <3> QED
      BY <2>2, <3>1 DEF Typed, PipesTypeOK
  <2> QED
    BY <1>1, <2>1, <2>2, <2>3 DEF ExactEntry, IsAHit
<1>4. CASE AnswerIC
  <2>1. toIC' = Append(toIC, ls.resp) /\ ls.pc = "ic"
    BY <1>4 DEF AnswerIC
  <2>2. ls.resp \in FetchResponses
    BY <2>1, ServingState DEF Typed, PipesTypeOK, Fetching
  <2>3. \A i \in DOMAIN toIC' :
          \/ i \in DOMAIN toIC /\ toIC'[i] = toIC[i]
          \/ toIC'[i] = ls.resp
    BY <2>1, <2>2 DEF Typed, PipesTypeOK
  <2>4. ASSUME ls.resp.addr \in Aliases(w) PROVE ls.resp.data \in AnyOf(w)
    <3> DEFINE v == ls.resp.addr
    <3>1. \A k \in 1 .. WindowWords : ls.resp.data[k] = Current(v)[k]
      BY <2>1 DEF Followed, Current
    <3>2. ls.resp.data \in [1 .. WindowWords -> Word]
      BY <2>2 DEF FetchResponses
    <3>3. Current(v) = [k \in 1 .. WindowWords |-> Current(v)[k]]
      BY DEF Current
    <3>4. ls.resp.data = [k \in 1 .. WindowWords |-> ls.resp.data[k]]
      BY <3>2
    <3>5. ls.resp.data = Current(v)
      BY <3>1, <3>3, <3>4
    <3> QED
      BY <2>4, <3>5 DEF AnyOf
  <2> QED
    BY <1>1, <2>2, <2>3, <2>4 DEF ExactEntry, IsAHit, FetchResponses
<1>5. CASE LoadsWord \/ ReadsWindow \/ TakeEX \/ AnswerEX
  <2>1. UNCHANGED toIC
    BY <1>5 DEF LoadsWord, WordLoaded, ReadsWindow, TakeIC, TakeEX, AnswerEX
  <2> QED
    BY <1>2, <2>1
<1> QED
  BY <1>3, <1>4, <1>5, MemorySteps DEF Serves

LEMMA ExactStep ==
  ASSUME ~GarbageMemory, Typed, Awaited, Followed, Exact, [Next]_vars
  PROVE  Exact'
<1>1. RequestsKnown'
  BY RequestsKnownStep DEF Exact
<1>2. ASSUME NEW w \in Settled PROVE ExactEntry(w)'
  <2>1. ExactEntry(w) /\ AnyOf(w)' = AnyOf(w)
    BY SettledIsKept DEF Exact
  <2>2. CASE EXStep \/ UNCHANGED vars
    <3>1. UNCHANGED <<lines, icOp, toDE, toIC>>
      BY <2>2 DEF EXStep, EXSend, EXReceive, icVars, vars
    <3> QED
      BY <2>1, <3>1 DEF ExactEntry, IsAHit
  <2>3. CASE DEStep
    <3>1. UNCHANGED <<lines, icOp, toIC>>
      BY <2>3 DEF DEStep, pipeVars
    <3>2. \A i \in DOMAIN toDE' : \E j \in DOMAIN toDE : toDE'[i] = toDE[j]
      <4>1. CASE toDE' = toDE
        BY <4>1
      <4>2. CASE toDE # << >> /\ toDE' = Tail(toDE)
        <5>1. \A i \in DOMAIN toDE' : i + 1 \in DOMAIN toDE /\ toDE'[i] = toDE[i + 1]
          BY <4>2 DEF Typed
        <5> QED
          BY <5>1
      <4> QED
        BY <2>3, <4>1, <4>2 DEF DEStep
    <3> QED
      BY <2>1, <3>1, <3>2 DEF ExactEntry, IsAHit
  <2> QED
    BY <2>1, <2>2, <2>3, ICKeepsExact, LSKeepsExact DEF Next, Exact
<1> QED
  BY <1>1, <1>2 DEF Exact

\* Where no store goes, a hit and Decode get what memory holds of the window asked for,
\* or of one the tag does not tell from it, whatever stores and invalidations of other
\* windows come while it is awaited, and however short the tag is
\* (InstructionCache.cpp 43, 91; DMCache.h 51, 61).
THEOREM UnwrittenUpToTagHolds ==
  ASSUME ~GarbageMemory
  PROVE  Spec => []UnwrittenUpToTag
<1>1. Init => Exact
  <2> SUFFICES ASSUME Init PROVE Exact
    OBVIOUS
  <2>1. /\ exReq = << >> /\ toIC = << >> /\ ls.pc = "idle"
        /\ toDE = << >> /\ icOp.stage = "idle"
    BY DEF Init, Memory!Init, Memory!PipesInit, Memory!Idle, Resting
  <2>2. \A i \in LineIndex : lines[i].valid = FALSE
    BY DEF Init
  <2>3. \A w \in Settled : ~IsAHit(lines, w)
    BY <2>2, LineOfWindow DEF Settled, IsAHit
  <2> QED
    BY <2>1, <2>3 DEF Exact, RequestsKnown, ExactEntry
<1>2. Typed /\ Awaited /\ Followed /\ Exact /\ [Next]_vars => Exact'
  BY ExactStep
<1>3. Exact => UnwrittenUpToTag
  BY DEF Exact, ExactEntry, Settled, UnwrittenUpToTag
<1> QED
  BY <1>1, <1>2, <1>3, AlwaysTyped, AlwaysAwaited, AlwaysFollowed, PTL DEF Spec
-----------------------------------------------------------------------------
(* The IC thread as a fetcher.                                             *)

\* The windows waiting for Decode, by their addresses.
Ats == [i \in DOMAIN toDE |-> toDE[i].at]

\* An operation that has taken a message was begun with room for its window.
RoomFound == icOp.stage = "look" => Len(toDE) < MaxFetched

\* A function on an initial interval is a sequence.
LEMMA IntervalSeq ==
  ASSUME NEW S, NEW n \in Nat, NEW f \in [1 .. n -> S]
  PROVE  f \in Seq(S) /\ Len(f) = n
OBVIOUS

\* The tail of a sequence, with its domain.
LEMMA TailIs ==
  ASSUME NEW S, NEW s \in Seq(S), s # << >>
  PROVE  /\ Tail(s) \in Seq(S) /\ Len(s) \in Nat
         /\ Len(Tail(s)) = Len(s) - 1 /\ Tail(s) \in [1 .. Len(s) - 1 -> S]
         /\ \A i \in 1 .. Len(s) - 1 : Tail(s)[i] = s[i + 1] /\ i + 1 \in DOMAIN s
<1>1. Tail(s) \in Seq(S) /\ Len(s) \in Nat /\ DOMAIN s = 1 .. Len(s)
  BY HeadTailProperties, LenProperties
<1>2. Len(Tail(s)) = Len(s) - 1 /\ Tail(s) \in [1 .. Len(Tail(s)) -> S]
  BY <1>1, HeadTailProperties, LenProperties
<1>3. \A i \in 1 .. Len(Tail(s)) : Tail(s)[i] = s[i + 1]
  BY HeadTailProperties
<1> QED
  BY <1>1, <1>2, <1>3

LEMMA RoomFoundStep == Typed /\ RoomFound /\ [Next]_vars => RoomFound'
<1> SUFFICES ASSUME Typed, RoomFound, [Next]_vars PROVE RoomFound'
  OBVIOUS
<1>1. CASE UNCHANGED <<icOp, toDE>>
  BY <1>1 DEF RoomFound
<1>2. CASE TakeOldMessage
  BY <1>2 DEF TakeOldMessage, RoomFound
<1>3. CASE ICStep /\ ~TakeOldMessage
  <2>1. icOp'.stage # "look"
    <3>1. icOp.stage \in {"wait", "hit", "check", "push"} =>
            icOp \in [stage : {"wait"}, at : Window, prepared : Window] \cup
                     [stage : {"hit", "check", "push"}, at : Window, data : Contents]
      BY OperationIs DEF Typed
    <3>2. CASE BeginHit \/ BeginMiss \/ TakeResponse \/ ObeySignal \/ PushWindow
      BY <3>2 DEF BeginHit, BeginMiss, TakeResponse, ObeySignal, PushWindow, Resting
    <3>3. CASE TakeInvalidation
      BY <3>1, <3>3 DEF TakeInvalidation
    <3>4. CASE EndHit
      BY <3>1, <3>4 DEF EndHit
    <3>5. CASE NoSignal
      BY <3>1, <3>5 DEF NoSignal
    <3> QED
      BY <1>3, <3>2, <3>3, <3>4, <3>5 DEF ICStep
  <2> QED
    BY <2>1 DEF RoomFound
<1>4. CASE LSStep \/ EXStep \/ UNCHANGED vars
  <2>1. UNCHANGED <<icOp, toDE>>
    BY <1>4, MemorySteps DEF EXStep, icVars, vars
  <2> QED
    BY <1>1, <2>1
<1>5. CASE DEStep
  <2>1. icOp' = icOp
    BY <1>5 DEF DEStep
  <2>2. CASE toDE' = toDE
    BY <2>1, <2>2 DEF RoomFound
  <2>3. CASE toDE # << >> /\ toDE' = Tail(toDE)
    <3>1. Len(toDE') = Len(toDE) - 1 /\ Len(toDE) \in Nat
      BY <2>3, TailIs, Zenon DEF Typed
    <3> QED
      BY <2>1, <3>1, FetchAssumption DEF RoomFound
  <2> QED
    BY <1>5, <2>2, <2>3 DEF DEStep
<1> QED
  BY <1>2, <1>3, <1>4, <1>5 DEF Next

\* What Fetcher sees of a sequence of windows grows and shrinks with it.
LEMMA AtsAre ==
  ASSUME Typed
  PROVE  /\ Len(Ats) = Len(toDE) /\ Ats \in Seq(Window)
         /\ toDE # << >> => Ats # << >>
         /\ toDE # << >> /\ toDE' = Tail(toDE) => Ats' = Tail(Ats)
         /\ icOp.stage = "push" /\ toDE' = Append(toDE, [at |-> icOp.at, data |-> icOp.data])
              => Ats' = Append(Ats, icOp.at)
<1>1. toDE \in Seq([at : Window, data : Contents])
  BY DEF Typed
<1>2. Len(Ats) = Len(toDE) /\ Ats \in Seq(Window) /\ (toDE # << >> => Ats # << >>)
  <2>1. /\ DOMAIN toDE = 1 .. Len(toDE) /\ Len(toDE) \in Nat
        /\ \A i \in 1 .. Len(toDE) : toDE[i].at \in Window
    <3>1. /\ DOMAIN toDE = 1 .. Len(toDE) /\ Len(toDE) \in Nat
          /\ \A i \in 1 .. Len(toDE) : toDE[i] \in [at : Window, data : Contents]
      BY <1>1, LenProperties, ElementOfSeq, Zenon
    <3> QED
      BY <3>1
  <2>2. Ats \in [1 .. Len(toDE) -> Window]
    BY <2>1 DEF Ats
  <2>3. Ats \in Seq(Window) /\ Len(Ats) = Len(toDE)
    BY <2>1, <2>2, IntervalSeq
  <2>4. toDE # << >> => Len(toDE) # 0
    BY <1>1
  <2> QED
    BY <2>3, <2>4
<1>3. ASSUME toDE # << >>, toDE' = Tail(toDE) PROVE Ats' = Tail(Ats)
  <2>1. /\ DOMAIN toDE' = 1 .. Len(toDE) - 1
        /\ \A i \in DOMAIN toDE' : toDE'[i] = toDE[i + 1] /\ i + 1 \in DOMAIN toDE
    BY <1>1, <1>3
  <2>2. Ats' = [i \in 1 .. Len(toDE) - 1 |-> toDE[i + 1].at]
    BY <2>1 DEF Ats
  <2>3. Tail(Ats) = [i \in 1 .. Len(toDE) - 1 |-> Ats[i + 1]]
    <3>1. /\ Tail(Ats) \in [1 .. Len(toDE) - 1 -> Window]
          /\ \A i \in 1 .. Len(toDE) - 1 : Tail(Ats)[i] = Ats[i + 1]
      <4>1. /\ Tail(Ats) \in [1 .. Len(Ats) - 1 -> Window]
            /\ \A i \in 1 .. Len(Ats) - 1 : Tail(Ats)[i] = Ats[i + 1]
        BY <1>2, <1>3, TailIs, Zenon
      <4> QED
        BY <1>2, <4>1
    <3>2. Tail(Ats) = [i \in 1 .. Len(toDE) - 1 |-> Tail(Ats)[i]]
      BY <3>1
    <3> QED
      BY <3>1, <3>2
  <2>4. \A i \in 1 .. Len(toDE) - 1 : Ats[i + 1] = toDE[i + 1].at
    BY <1>1, <1>3 DEF Ats
  <2> QED
    BY <2>2, <2>3, <2>4
<1>4. ASSUME icOp.stage = "push",
             toDE' = Append(toDE, [at |-> icOp.at, data |-> icOp.data])
      PROVE  Ats' = Append(Ats, icOp.at)
  <2>1. icOp.at \in Window /\ icOp.data \in Contents
    BY <1>4, OperationIs DEF Typed
  <2>2. /\ DOMAIN toDE' = 1 .. Len(toDE) + 1 /\ Len(toDE) \in Nat
        /\ \A i \in 1 .. Len(toDE) : toDE'[i] = toDE[i]
        /\ toDE'[Len(toDE) + 1].at = icOp.at
    BY <1>1, <1>4, <2>1
  <2>3. Ats' = [i \in 1 .. Len(toDE) + 1 |-> toDE'[i].at]
    BY <2>2 DEF Ats
  <2>4. Append(Ats, icOp.at) \in Seq(Window) /\ Len(Append(Ats, icOp.at)) = Len(toDE) + 1
        /\ Append(Ats, icOp.at)[Len(toDE) + 1] = icOp.at
        /\ \A i \in 1 .. Len(toDE) : Append(Ats, icOp.at)[i] = Ats[i]
    BY <1>2, <2>1
  <2>5. Append(Ats, icOp.at) = [i \in 1 .. Len(toDE) + 1 |-> Append(Ats, icOp.at)[i]]
    BY <2>4
  <2>6. \A i \in 1 .. Len(toDE) : Ats[i] = toDE[i].at
    BY <1>1 DEF Ats
  <2>7. \A i \in 1 .. Len(toDE) + 1 : toDE'[i].at = Append(Ats, icOp.at)[i]
    BY <2>2, <2>4, <2>6
  <2> QED
    BY <2>3, <2>5, <2>7
<1> QED
  BY <1>2, <1>3, <1>4

\* Every step is one of the fetcher, of Decode with it, or none of theirs.
LEMMA FetcherSteps ==
  ASSUME Typed, RoomFound, [Next]_vars
  PROVE  [Fetch!Next]_(Fetch!fetchVars)
<1> USE DEF Ats
<1>1. CASE UNCHANGED <<internalIP, icOp, toDE, fromDE>>
  BY <1>1 DEF Fetch!fetchVars, FetchedOp
<1>2. CASE TakeOldMessage
  BY <1>2 DEF TakeOldMessage, Fetch!fetchVars, FetchedOp, Resting
<1>3. CASE BeginHit \/ BeginMiss
  <2>1. icOp.stage \in {"idle", "look"} /\ Len(toDE) < MaxFetched
    BY <1>3 DEF BeginHit, BeginMiss, LooksUp, Resting, RoomFound
  <2>2. /\ icOp'.stage \in {"hit", "wait"} /\ icOp'.at = internalIP
        /\ UNCHANGED <<internalIP, toDE, fromDE>>
    BY <1>3 DEF BeginHit, BeginMiss
  <2>3. FetchedOp = Resting /\ FetchedOp' = [stage |-> "fetch", at |-> internalIP]
    BY <2>1, <2>2 DEF FetchedOp
  <2>4. Fetch!BeginFetch
    BY <2>1, <2>2, <2>3, AtsAre DEF Fetch!BeginFetch, Resting
  <2> QED
    BY <2>4 DEF Fetch!Next, Fetch!FetchStep
<1>4. CASE TakeInvalidation
  <2>1. icOp \in [stage : {"wait"}, at : Window, prepared : Window]
    BY <1>4, OperationIs DEF TakeInvalidation, Typed
  <2>2. icOp'.stage = "wait" /\ icOp'.at = icOp.at /\ UNCHANGED <<internalIP, toDE, fromDE>>
    BY <1>4, <2>1 DEF TakeInvalidation
  <2> QED
    BY <2>1, <2>2 DEF Fetch!fetchVars, FetchedOp
<1>5. CASE TakeResponse \/ EndHit
  <2>1. /\ icOp.stage \in {"wait", "hit"} /\ icOp'.stage = "check" /\ icOp'.at = icOp.at
        /\ internalIP' = NextWindow(internalIP) /\ UNCHANGED <<toDE, fromDE>>
    <3>1. icOp.stage = "hit" =>
            icOp \in [stage : {"hit", "check", "push"}, at : Window, data : Contents]
      BY OperationIs DEF Typed
    <3>2. CASE TakeResponse
      BY <3>2 DEF TakeResponse
    <3>3. CASE EndHit
      BY <3>1, <3>3 DEF EndHit
    <3> QED
      BY <1>5, <3>2, <3>3
  <2>2. /\ FetchedOp = [stage |-> "fetch", at |-> icOp.at]
        /\ FetchedOp' = [stage |-> "check", at |-> icOp.at]
    BY <2>1 DEF FetchedOp
  <2>3. Fetch!EndFetch
    BY <2>1, <2>2 DEF Fetch!EndFetch, Fetch!NextWindow, NextWindow
  <2> QED
    BY <2>3 DEF Fetch!Next, Fetch!FetchStep
<1>6. CASE ObeySignal
  <2>1. FetchedOp.stage = "check" /\ FetchedOp' = Resting
    BY <1>6 DEF ObeySignal, FetchedOp, Resting
  <2>2. Fetch!ObeySignal
    BY <1>6, <2>1 DEF ObeySignal, Fetch!ObeySignal, Fetch!Idle, Resting, Fetch!WindowOf,
                      WindowOf
  <2> QED
    BY <2>2 DEF Fetch!Next, Fetch!FetchStep
<1>7. CASE NoSignal
  <2>1. icOp \in [stage : {"hit", "check", "push"}, at : Window, data : Contents]
    BY <1>7, OperationIs DEF NoSignal, Typed
  <2>2. icOp'.stage = "push" /\ icOp'.at = icOp.at
    BY <1>7, <2>1 DEF NoSignal
  <2>3. /\ FetchedOp = [stage |-> "check", at |-> icOp.at]
        /\ FetchedOp' = [stage |-> "push", at |-> icOp.at]
    BY <1>7, <2>2 DEF NoSignal, FetchedOp
  <2>4. Fetch!NoSignal
    BY <1>7, <2>3 DEF NoSignal, Fetch!NoSignal
  <2> QED
    BY <2>4 DEF Fetch!Next, Fetch!FetchStep
<1>8. CASE PushWindow
  <2>1. FetchedOp = [stage |-> "push", at |-> icOp.at] /\ FetchedOp' = Resting
    BY <1>8 DEF PushWindow, FetchedOp, Resting
  <2>2. Ats' = Append(Ats, icOp.at)
    BY <1>8, AtsAre DEF PushWindow
  <2>3. Fetch!PushWindow
    BY <1>8, <2>1, <2>2 DEF PushWindow, Fetch!PushWindow, Fetch!Idle, Resting
  <2> QED
    BY <2>3 DEF Fetch!Next, Fetch!FetchStep
<1>9. CASE LSStep \/ EXStep \/ UNCHANGED vars
  <2>1. UNCHANGED <<internalIP, icOp, toDE, fromDE>>
    BY <1>9, MemorySteps DEF EXStep, icVars, vars
  <2> QED
    BY <1>1, <2>1
<1>10. CASE DEStep
  <2>1. UNCHANGED <<internalIP, FetchedOp>>
    BY <1>10 DEF DEStep, FetchedOp
  <2>2. ASSUME NEW t \in Targets, Len(fromDE) < MaxSignals, fromDE' = Append(fromDE, t),
               toDE' = toDE
        PROVE  Fetch!Next
    <3>1. Fetch!Signal(t)
      BY <2>1, <2>2 DEF Fetch!Signal
    <3> QED
      BY <3>1 DEF Fetch!Next
  <2>3. ASSUME toDE # << >>, toDE' = Tail(toDE), fromDE' = fromDE
        PROVE  Fetch!Next
    <3>1. Ats # << >> /\ Ats' = Tail(Ats)
      BY <2>3, AtsAre
    <3>2. Fetch!TakeWindow
      BY <2>1, <2>3, <3>1 DEF Fetch!TakeWindow
    <3> QED
      BY <3>2 DEF Fetch!Next
  <2> QED
    BY <1>10, <2>2, <2>3 DEF DEStep
<1> QED
  BY <1>2, <1>3, <1>4, <1>5, <1>6, <1>7, <1>8, <1>9, <1>10 DEF Next, ICStep

\* The steps of the fetcher, without what must happen eventually.
FetchesInOrder == Fetch!Init /\ [][Fetch!Next]_(Fetch!fetchVars)

\* Whatever is cached and invalidated, Decode is sent the windows one after the other
\* and from a signalled address on after an operation has ended: the safety part of
\* ImplementsFetcher, for every cache and every set of targets
\* (InstructionCache.cpp 69-107).
THEOREM FetchesInOrderHolds == Spec => FetchesInOrder
<1>1. Init => RoomFound
  BY DEF Init, RoomFound, Resting
<1>2. Init => Fetch!Init
  BY DEF Init, Fetch!Init, Fetch!Idle, FetchedOp, Resting
<1>3. Typed /\ RoomFound /\ [Next]_vars => [Fetch!Next]_(Fetch!fetchVars)
  BY FetcherSteps
<1> QED
  BY <1>1, <1>2, <1>3, RoomFoundStep, AlwaysTyped, PTL DEF Spec, FetchesInOrder
=============================================================================
