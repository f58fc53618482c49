-------------------------- MODULE LoadStore_proofs --------------------------
(***************************************************************************)
(* The cache of the Load/Store thread never loses a word: proofs of the    *)
(* type invariant, of the invariants that make the cache a cache, and of   *)
(* the step simulation of FlatMemory, for any geometry of the cache.       *)
(***************************************************************************)
EXTENDS LoadStore, TLAPS

-----------------------------------------------------------------------------
(* Requests, the control of LS and the pipes: the pipes keep their type whatever
   the clients and the LS thread do. *)

\* Address arithmetic of a request stays inside the address space.
LEMMA WordAtInAddr ==
  ASSUME NEW a \in Addr, NEW i \in Nat \ {0}
  PROVE  WordAt(a, i) \in Addr
  BY MemoryAssumption, AddressAssumption, Z3 DEF WordAt, Addr

\* The data of a request is a sequence of words.
LEMMA RequestType ==
  ASSUME NEW r \in Request
  PROVE  /\ r.store \in BOOLEAN /\ r.addr \in Addr /\ r.odd \in BOOLEAN
         /\ r.data \in Seq(Word)
         /\ \A i \in 1 .. Len(r.data) : r.data[i] \in Word
  BY DEF Request

\* The control state of LS is told by its pc.
LEMMA ServingState ==
  ASSUME ls \in LSState
  PROVE  /\ ls.pc = "ex" => ls \in Serving
         /\ ls.pc = "ic" => ls \in Fetching
  BY DEF LSState, Idle, Serving, Fetching

\* While LS works on words of a request, the current address and word exist.
LEMMA CurrentWord ==
  ASSUME PipesTypeOK, MoreWords
  PROVE  /\ ls \in Serving
         /\ CurrAddr \in Addr
         /\ CurrData \in Word
<1>1. ls \in Serving
  BY ServingState DEF PipesTypeOK, MoreWords
<1>2. /\ ls.req \in Request /\ ls.n \in Nat
      /\ ls.n + 1 \in 1 .. Len(ls.req.data)
  BY <1>1, RequestType DEF MoreWords, Serving
<1>3. CurrAddr \in Addr
  BY <1>1, <1>2, RequestType, WordAtInAddr DEF CurrAddr
<1>4. CurrData \in Word
  BY <1>1, <1>2, RequestType DEF CurrData
<1>5. QED
  BY <1>1, <1>3, <1>4

\* The client steps keep the type of the pipes.
LEMMA ClientPipesType ==
  ASSUME PipesTypeOK,
         \/ EXSend \/ EXReceive \/ ICReceive
         \/ \E w \in ICWindows : ICSend(w)
  PROVE  PipesTypeOK'
<1>1. CASE EXSend
  BY <1>1, MemoryAssumption, AddressAssumption DEF EXSend, PipesTypeOK
<1>2. CASE EXReceive
  BY <1>2 DEF EXReceive, PipesTypeOK
<1>3. CASE ICReceive
  BY <1>3 DEF ICReceive, PipesTypeOK
<1>4. ASSUME NEW w \in ICWindows, ICSend(w)
      PROVE  PipesTypeOK'
  <2>1. w \in Window
    BY MemoryAssumption, AddressAssumption
  <2>2. QED
    BY <1>4, <2>1 DEF ICSend, PipesTypeOK
<1>5. QED
  BY <1>1, <1>2, <1>3, <1>4

\* Beginning a request and answering keep the type of the pipes.
LEMMA ServicePipesType ==
  ASSUME PipesTypeOK, TakeEX \/ AnswerEX \/ AnswerIC
  PROVE  PipesTypeOK'
<1>1. CASE TakeEX
  <2>1. ls' \in Serving
    BY <1>1 DEF TakeEX, PipesTypeOK, Serving
  <2>2. QED
    BY <1>1, <2>1 DEF TakeEX, PipesTypeOK, LSState
<1>2. CASE AnswerEX
  <2>1. ls \in Serving
    BY <1>2, ServingState DEF AnswerEX, PipesTypeOK
  <2>2. [fault |-> ls.req.odd, data |-> ls.data] \in Response
    BY <2>1, RequestType DEF Response, Serving
  <2>3. QED
    BY <1>2, <2>2 DEF AnswerEX, PipesTypeOK, LSState
<1>3. CASE AnswerIC
  <2>1. ls.resp \in ToIC
    BY <1>3, ServingState DEF AnswerIC, PipesTypeOK, Fetching, ToIC
  <2>2. QED
    BY <1>3, <2>1 DEF AnswerIC, PipesTypeOK, LSState
<1>4. QED
  BY <1>1, <1>2, <1>3

\* Loading or storing a word and reading a window keep the type of the pipes.
LEMMA WordPipesType ==
  ASSUME PipesTypeOK,
         \/ WordStored
         \/ \E v \in Word : WordLoaded(v)
         \/ \E d \in [1 .. WindowWords -> Word] : TakeIC(d)
  PROVE  PipesTypeOK'
<1>1. CASE WordStored
  <2>1. /\ ls \in Serving
        /\ CurrAddr \in Addr
    BY <1>1, CurrentWord DEF WordStored
  <2>2. Invalidation(CurrAddr) \in ToIC
    BY <2>1 DEF ToIC
  <2>3. ls' \in Serving
    BY <1>1, <2>1 DEF WordStored, Serving
  <2>4. QED
    BY <1>1, <2>2, <2>3 DEF WordStored, PipesTypeOK, LSState
<1>2. ASSUME NEW v \in Word, WordLoaded(v)
      PROVE  PipesTypeOK'
  <2>1. ls \in Serving
    BY <1>2, CurrentWord DEF WordLoaded
  <2>2. Append(ls.data, v) \in Seq(Word) /\ ls.n + 1 \in Nat
    BY <2>1 DEF Serving
  <2>3. ls' \in Serving
    BY <1>2, <2>1, <2>2 DEF WordLoaded, Serving
  <2>4. QED
    BY <1>2, <2>3 DEF WordLoaded, PipesTypeOK, LSState
<1>3. ASSUME NEW d \in [1 .. WindowWords -> Word], TakeIC(d)
      PROVE  PipesTypeOK'
  <2>1. Head(icReq) \in Window /\ Tail(icReq) \in Seq(Window)
    BY <1>3 DEF TakeIC, PipesTypeOK
  <2>2. FetchResponse(Head(icReq), d) \in FetchResponses
    BY <2>1 DEF FetchResponse, FetchResponses
  <2>3. ls' \in LSState
    BY <1>3, <2>2 DEF TakeIC, LSState, Fetching
  <2>4. QED
    BY <1>3, <2>1, <2>3 DEF TakeIC, PipesTypeOK
<1>4. QED
  BY <1>1, <1>2, <1>3

-----------------------------------------------------------------------------
(* Addresses: set and tag of a line name one word. *)

\* Index and tag of a word are in range, and give back its address.
LEMMA Split ==
  ASSUME NEW a \in Addr
  PROVE  /\ Index(a) \in SetIndex
         /\ TagOf(a) \in Nat
         /\ TagOf(a) \in Tag
         /\ LineAddr(Index(a), TagOf(a)) = a
<1>1. a \in Nat /\ NumSets \in Nat \ {0}
  BY MemoryAssumption, AddressAssumption, CacheAssumption DEF Addr
<1>2. a % NumSets \in 0 .. NumSets - 1 /\ a \div NumSets \in Nat
  BY <1>1, Z3
<1>3. (a \div NumSets) * NumSets + (a % NumSets) = a
  BY <1>1, Z3
<1>4. QED
  BY <1>2, <1>3 DEF Index, TagOf, SetIndex, Tag, LineAddr

\* Two words of one set with one tag are one word.
LEMMA SplitInjective ==
  ASSUME NEW a \in Addr, NEW b \in Addr, Index(a) = Index(b), TagOf(a) = TagOf(b)
  PROVE  a = b
  BY Split

-----------------------------------------------------------------------------
(* Type correctness. *)

\* What memory can return for a cell is a word.
LEMMA CellType ==
  ASSUME NEW c \in Word \cup {Unset}
  PROVE  CellValues(c) \subseteq Word
  BY MemoryAssumption, AddressAssumption DEF CellValues

\* Touching a line keeps the type of the cache.
LEMMA TouchType ==
  ASSUME TypeOK, NEW a \in Addr, NEW w \in Way, Touch(a, w)
  PROVE  mem' \in [Addr -> Word \cup {Unset}] /\ cache' \in [SetIndex -> [Way -> Line]]
<1>1. Index(a) \in SetIndex
  BY Split
<1>2. [Lines(a)[w] EXCEPT !.hit = now] \in Line
  BY <1>1 DEF TypeOK, Lines, Line
<1>3. QED
  BY <1>1, <1>2 DEF Touch, TypeOK

\* Storing in the cache keeps the type of cache and memory.
LEMMA StoreType ==
  ASSUME TypeOK, NEW a \in Addr, NEW v \in Word, NEW plainRead \in BOOLEAN,
         CacheStore(a, v, plainRead)
  PROVE  mem' \in [Addr -> Word \cup {Unset}] /\ cache' \in [SetIndex -> [Way -> Line]]
<1>1. PICK w \in Way :
        \/ IsFound(a, w) /\ Overwrite(a, w, v)
        \/ NotFound(a) /\ IsVictim(Index(a), w) /\ Replace(a, w, v, plainRead)
  BY DEF CacheStore
<1>2. Index(a) \in SetIndex /\ TagOf(a) \in Nat
  BY Split
<1>3. Lines(a)[w] \in Line
  BY <1>2 DEF TypeOK, Lines
<1>4. CASE Overwrite(a, w, v)
  <2> DEFINE new == [Lines(a)[w] EXCEPT !.data = v, !.hit = now, !.valid = TRUE,
                       !.modified = @ \/ Lines(a)[w].data # v]
  <2>1. new \in Line
    BY <1>3 DEF Line, TypeOK
  <2>2. cache' = [cache EXCEPT ![Index(a)][w] = new] /\ mem' = mem
    BY <1>4 DEF Overwrite
  <2>3. QED
    BY <2>1, <2>2, <1>2 DEF TypeOK
<1>5. CASE Replace(a, w, v, plainRead)
  <2> DEFINE new == [tag |-> TagOf(a), data |-> v, valid |-> TRUE,
                     modified |-> ~plainRead, hit |-> now]
  <2>1. new \in Line
    BY <1>2 DEF Line, TypeOK
  <2>2. cache' = [cache EXCEPT ![Index(a)][w] = new]
    BY <1>5 DEF Replace
  <2>3. Lines(a)[w].data \in Word
    BY <1>3 DEF Line
  <2>4. mem' \in [Addr -> Word \cup {Unset}]
    BY <1>5, <2>3 DEF Replace, WrittenBack, Lines, TypeOK
  <2>5. QED
    BY <2>1, <2>2, <2>4, <1>2 DEF TypeOK
<1>6. QED
  BY <1>1, <1>4, <1>5

\* Reading a fetch window keeps the type of the cache.
LEMMA TouchWindowType ==
  ASSUME TypeOK, NEW base, TouchWindow(base)
  PROVE  cache' \in [SetIndex -> [Way -> Line]]
<1>1. ASSUME NEW s \in SetIndex, NEW w \in Way
      PROVE  [cache[s][w] EXCEPT !.hit = now] \in Line /\ cache[s][w] \in Line
  BY DEF TypeOK, Line
<1>2. QED
  BY <1>1 DEF TouchWindow

\* Initially every variable has its type.
LEMMA InitType == Init => TypeOK
<1>1. ASSUME Init PROVE PipesTypeOK
  BY <1>1 DEF Init, PipesInit, PipesTypeOK, LSState, Idle
<1>2. ASSUME Init
      PROVE  cache \in [SetIndex -> [Way -> Line]]
  <2>1. PICK fresh \in [SetIndex -> [Way -> FreshLines]] :
          cache = [s \in SetIndex |-> [w \in Way |->
            [tag |-> fresh[s][w].tag, data |-> fresh[s][w].data,
             valid |-> FALSE, modified |-> FALSE, hit |-> 0]]]
    BY <1>2 DEF Init
  <2>2. ASSUME NEW s \in SetIndex, NEW w \in Way
        PROVE  [tag |-> fresh[s][w].tag, data |-> fresh[s][w].data,
                valid |-> FALSE, modified |-> FALSE, hit |-> 0] \in Line
    <3>1. fresh[s][w] \in [tag : Nat, data : Word]
      BY CacheAssumption
    <3>2. QED
      BY <3>1 DEF Line
  <2>3. QED
    BY <2>1, <2>2
<1>3. ASSUME Init
      PROVE  /\ mem \in [Addr -> Word \cup {Unset}]
             /\ now \in Nat /\ exSentAt \in Nat /\ opAt \in Nat
  BY <1>3, MemoryAssumption, AddressAssumption DEF Init
<1>4. QED
  BY <1>1, <1>2, <1>3 DEF TypeOK

\* Every step keeps the type.
LEMMA StepType == TypeOK /\ [Next]_vars => TypeOK'
<1> SUFFICES ASSUME TypeOK, [Next]_vars
             PROVE  TypeOK'
  OBVIOUS
<1>p. PipesTypeOK
  BY DEF TypeOK
<1>1. CASE Tick
  BY <1>1 DEF Tick, TypeOK, PipesTypeOK
<1>2. CASE SendToLS
  <2>1. PipesTypeOK'
    BY <1>2, <1>p, ClientPipesType DEF SendToLS
  <2>2. QED
    BY <1>2, <2>1 DEF SendToLS, TypeOK
<1>3. CASE ClientStep
  <2>1. PipesTypeOK'
    BY <1>3, <1>p, ClientPipesType DEF ClientStep
  <2>2. QED
    BY <1>3, <2>1 DEF ClientStep, TypeOK
<1>4. CASE BeginEX \/ Answer
  <2>1. PipesTypeOK'
    BY <1>4, <1>p, ServicePipesType DEF BeginEX, Answer
  <2>2. QED
    BY <1>4, <2>1 DEF BeginEX, Answer, StartOp, TypeOK
<1>5. CASE LoadHit
  <2>1. PICK w \in Way : /\ MoreWords /\ Touch(CurrAddr, w)
                         /\ WordLoaded(Lines(CurrAddr)[w].data)
    BY <1>5 DEF LoadHit
  <2>2. CurrAddr \in Addr
    BY <2>1, <1>p, CurrentWord
  <2>3. Lines(CurrAddr)[w].data \in Word
    BY <2>2, Split DEF TypeOK, Lines, Line
  <2>4. PipesTypeOK'
    BY <2>1, <2>3, <1>p, WordPipesType
  <2>5. QED
    BY <1>5, <2>1, <2>2, <2>4, TouchType DEF LoadHit, TypeOK
<1>6. CASE LoadMiss
  <2>1. MoreWords /\ CurrAddr \in Addr
    BY <1>6, <1>p, CurrentWord DEF LoadMiss
  <2>2. PICK v \in CellValues(mem[CurrAddr]) :
          WordLoaded(v) /\ CacheStore(CurrAddr, v, TRUE)
    BY <1>6 DEF LoadMiss
  <2>3. v \in Word
    BY <2>1, <2>2, CellType DEF TypeOK
  <2>4. PipesTypeOK'
    BY <2>2, <2>3, <1>p, WordPipesType
  <2>5. QED
    BY <1>6, <2>1, <2>2, <2>3, <2>4, StoreType DEF LoadMiss, TypeOK
<1>7. CASE StoreWord
  <2>1. CurrAddr \in Addr /\ CurrData \in Word
    BY <1>7, <1>p, CurrentWord DEF StoreWord, WordStored
  <2>2. PipesTypeOK'
    BY <1>7, <1>p, WordPipesType DEF StoreWord
  <2>3. QED
    BY <1>7, <2>1, <2>2, StoreType DEF StoreWord, TypeOK
<1>8. CASE ReadWindow
  <2>1. PipesTypeOK'
    BY <1>8, <1>p, WordPipesType DEF ReadWindow
  <2>2. QED
    BY <1>8, <2>1, TouchWindowType DEF ReadWindow, StartOp, TypeOK
<1>9. CASE UNCHANGED vars
  BY <1>9 DEF vars, TypeOK, PipesTypeOK
<1>10. QED
  BY <1>1, <1>2, <1>3, <1>4, <1>5, <1>6, <1>7, <1>8, <1>9 DEF Next, LSStep

\* In every reachable state memory, cache, clock and pipes have their types.
THEOREM TypeCorrect == Spec => []TypeOK
<1>1. QED
  BY InitType, StepType, PTL DEF Spec

-----------------------------------------------------------------------------
(* What a step does to the cache. *)

\* A step leaves tags, data and validity alone, or stores one word.
CacheKept ==
  /\ mem' = mem
  /\ \A s \in SetIndex, w \in Way :
       /\ cache'[s][w].tag = cache[s][w].tag
       /\ cache'[s][w].data = cache[s][w].data
       /\ cache'[s][w].valid = cache[s][w].valid
       /\ cache'[s][w].modified = cache[s][w].modified

LEMMA TouchKeeps ==
  ASSUME TypeOK, NEW a \in Addr, NEW w \in Way, Touch(a, w)
  PROVE  CacheKept
<1>1. Index(a) \in SetIndex
  BY Split
<1>2. Lines(a)[w] = cache[Index(a)][w] /\ Lines(a)[w] \in Line
  BY <1>1 DEF Lines, TypeOK
<1>3. QED
  BY <1>1, <1>2 DEF Touch, CacheKept, TypeOK, Line

LEMMA TouchWindowKeeps ==
  ASSUME TypeOK, NEW base, TouchWindow(base), UNCHANGED mem
  PROVE  CacheKept
<1>1. ASSUME NEW s \in SetIndex, NEW w \in Way
      PROVE  /\ cache[s][w] \in Line
             /\ \/ cache'[s][w] = cache[s][w]
                \/ cache'[s][w] = [cache[s][w] EXCEPT !.hit = now]
  BY DEF TypeOK, TouchWindow
<1>2. ASSUME NEW s \in SetIndex, NEW w \in Way
      PROVE  /\ cache'[s][w].tag = cache[s][w].tag
             /\ cache'[s][w].data = cache[s][w].data
             /\ cache'[s][w].valid = cache[s][w].valid
             /\ cache'[s][w].modified = cache[s][w].modified
  <2>1. CASE cache'[s][w] = cache[s][w]
    BY <2>1
  <2>2. CASE cache'[s][w] = [cache[s][w] EXCEPT !.hit = now]
    BY <2>2, <1>1 DEF Line
  <2>3. QED
    BY <1>1, <2>1, <2>2
<1>3. QED
  BY <1>2 DEF CacheKept

\* What a step of the specification can do to the cache.
LEMMA StepCases ==
  ASSUME TypeOK, [Next]_vars
  PROVE  \/ CacheKept
         \/ \E a \in Addr, v \in Word, plainRead \in BOOLEAN :
              /\ plainRead => v \in CellValues(mem[a]) /\ \A w \in Way : ~Hits(a, w)
              /\ ~plainRead => WordStored /\ a = CurrAddr /\ v = CurrData
              /\ CacheStore(a, v, plainRead)
<1>p. PipesTypeOK
  BY DEF TypeOK
<1>1. CASE Tick \/ SendToLS \/ ClientStep \/ BeginEX \/ Answer \/ UNCHANGED vars
  BY <1>1 DEF Tick, SendToLS, ClientStep, BeginEX, Answer, vars, CacheKept
<1>2. CASE LoadHit
  BY <1>2, <1>p, CurrentWord, TouchKeeps DEF LoadHit
<1>3. CASE LoadMiss
  <2>1. CurrAddr \in Addr
    BY <1>3, <1>p, CurrentWord DEF LoadMiss
  <2>2. PICK v \in CellValues(mem[CurrAddr]) : CacheStore(CurrAddr, v, TRUE)
    BY <1>3 DEF LoadMiss
  <2>3. v \in Word
    BY <2>1, <2>2, CellType DEF TypeOK
  <2>4. \A w \in Way : ~Hits(CurrAddr, w)
    BY <1>3 DEF LoadMiss
  <2>5. QED
    BY <2>1, <2>2, <2>3, <2>4
<1>4. CASE StoreWord
  <2>1. CurrAddr \in Addr /\ CurrData \in Word
    BY <1>4, <1>p, CurrentWord DEF StoreWord, WordStored
  <2>2. CacheStore(CurrAddr, CurrData, FALSE) /\ WordStored
    BY <1>4 DEF StoreWord
  <2>3. QED
    BY <2>1, <2>2
<1>5. CASE ReadWindow
  BY <1>5, TouchWindowKeeps DEF ReadWindow
<1>6. QED
  BY <1>1, <1>2, <1>3, <1>4, <1>5 DEF Next, LSStep

\* A store ends in one line, the only one that changes.
LEMMA StoreLine ==
  ASSUME TypeOK, NEW a \in Addr, NEW v \in Word, NEW plainRead \in BOOLEAN,
         CacheStore(a, v, plainRead)
  PROVE  \E w \in Way :
           /\ \A s \in SetIndex, u \in Way :
                ~(s = Index(a) /\ u = w) => cache'[s][u] = cache[s][u]
           /\ cache'[Index(a)][w].tag = TagOf(a)
           /\ cache'[Index(a)][w].data = v
           /\ cache'[Index(a)][w].valid
           /\ \/ /\ IsFound(a, w)
                 /\ mem' = mem
                 /\ cache'[Index(a)][w].modified <=>
                      (Lines(a)[w].modified \/ Lines(a)[w].data # v)
              \/ /\ NotFound(a)
                 /\ cache'[Index(a)][w].modified = ~plainRead
                 /\ mem' = WrittenBack(Index(a), w)
<1>1. PICK w \in Way :
        \/ IsFound(a, w) /\ Overwrite(a, w, v)
        \/ NotFound(a) /\ IsVictim(Index(a), w) /\ Replace(a, w, v, plainRead)
  BY DEF CacheStore
<1>2. Index(a) \in SetIndex
  BY Split
<1>3. Lines(a) = cache[Index(a)] /\ Lines(a)[w] \in Line
  BY <1>2 DEF TypeOK, Lines
<1>4. \A s \in SetIndex, u \in Way :
        ~(s = Index(a) /\ u = w) => cache'[s][u] = cache[s][u]
  BY <1>1, <1>2 DEF TypeOK, Overwrite, Replace
<1>5. CASE IsFound(a, w) /\ Overwrite(a, w, v)
  <2>1. cache'[Index(a)][w] = [Lines(a)[w] EXCEPT !.data = v, !.hit = now,
           !.valid = TRUE, !.modified = @ \/ Lines(a)[w].data # v]
    BY <1>5, <1>2 DEF Overwrite, TypeOK
  <2>2. Lines(a)[w].tag = TagOf(a) /\ mem' = mem
    BY <1>5 DEF IsFound, Overwrite
  <2>3. QED
    BY <1>4, <1>5, <2>1, <2>2, <1>3 DEF Line
<1>6. CASE NotFound(a) /\ Replace(a, w, v, plainRead)
  <2> DEFINE new == [tag |-> TagOf(a), data |-> v, valid |-> TRUE,
                     modified |-> ~plainRead, hit |-> now]
  <2>1. new.tag = TagOf(a) /\ new.data = v /\ new.valid /\ new.modified = ~plainRead
    OBVIOUS
  <2>2. cache'[Index(a)][w] = new /\ mem' = WrittenBack(Index(a), w)
    BY <1>6, <1>2 DEF Replace, TypeOK
  <2> HIDE DEF new
  <2>3. QED
    BY <1>4, <1>6, <2>1, <2>2
<1>7. QED
  BY <1>1, <1>5, <1>6

-----------------------------------------------------------------------------
(* No line of a set shadows another. *)

LEMMA NoShadowStep ==
  ASSUME TypeOK, NoShadowedLine, [Next]_vars
  PROVE  NoShadowedLine'
<1>1. CASE CacheKept
  BY <1>1 DEF CacheKept, NoShadowedLine
<1>2. ASSUME NEW a \in Addr, NEW v \in Word, NEW plainRead \in BOOLEAN,
             CacheStore(a, v, plainRead)
      PROVE  NoShadowedLine'
  <2>1. PICK w \in Way :
          /\ \A s \in SetIndex, u \in Way :
               ~(s = Index(a) /\ u = w) => cache'[s][u] = cache[s][u]
          /\ cache'[Index(a)][w].tag = TagOf(a)
          /\ IsFound(a, w) \/ NotFound(a)
    BY <1>2, StoreLine
  <2>2. SUFFICES ASSUME NEW s \in SetIndex, NEW x \in Way, NEW y \in Way,
                        x < y, cache'[s][y].valid
                 PROVE  cache'[s][x].tag # cache'[s][y].tag
    BY DEF NoShadowedLine
  <2>3. CASE s # Index(a) \/ (x # w /\ y # w)
    BY <2>1, <2>2, <2>3 DEF NoShadowedLine
  <2>4. CASE s = Index(a) /\ y = w
    BY <2>1, <2>2, <2>4 DEF IsFound, NotFound, Lines, Way
  <2>5. CASE s = Index(a) /\ x = w
    <3>1. cache'[s][y] = cache[s][y]
      BY <2>1, <2>2, <2>5, CacheAssumption DEF Way
    <3>2. cache[s][y].tag # TagOf(a)
      BY <3>1, <2>1, <2>2, <2>5 DEF IsFound, NotFound, Lines, NoShadowedLine
    <3>3. QED
      BY <3>1, <3>2, <2>1, <2>5
  <2>6. QED
    BY <2>3, <2>4, <2>5
<1>3. QED
  BY <1>1, <1>2, StepCases

\* At most one valid line of the cache holds a given address and isAHit finds
\* it, whatever uninitialised lines hold and for every size of the cache.
THEOREM NoShadowedLineHolds == Spec => []NoShadowedLine
<1>1. Init => NoShadowedLine
  <2>1. ASSUME Init, NEW s \in SetIndex, NEW w \in Way
        PROVE  ~cache[s][w].valid
    BY <2>1 DEF Init
  <2>2. QED
    BY <2>1 DEF NoShadowedLine
<1>2. TypeOK /\ NoShadowedLine /\ [Next]_vars => NoShadowedLine'
  BY NoShadowStep
<1>3. QED
  BY <1>1, <1>2, TypeCorrect, PTL DEF Spec

-----------------------------------------------------------------------------
(* A clean line can be dropped. *)

\* The lines of a set that are valid hold words of that set.
LinesNamed ==
  \A s \in SetIndex, w \in Way : cache[s][w].valid =>
    \E a \in Addr : Index(a) = s /\ TagOf(a) = cache[s][w].tag

\* The others are what they were at first.
FreshLinesKept ==
  \A s \in SetIndex, w \in Way : ~cache[s][w].valid =>
    /\ ~cache[s][w].modified
    /\ \E l \in FreshLines : l.tag = cache[s][w].tag /\ l.data = cache[s][w].data

\* Load/Store works on requests that EX can send.
RequestsKnown ==
  /\ exReq \in Seq(EXRequests)
  /\ ls.pc = "ex" => ls.req \in EXRequests

\* A step keeps both kinds of lines what they are.
LEMMA LinesKeptStep ==
  ASSUME TypeOK, LinesNamed, FreshLinesKept, [Next]_vars
  PROVE  LinesNamed' /\ FreshLinesKept'
<1>1. CASE CacheKept
  BY <1>1 DEF CacheKept, LinesNamed, FreshLinesKept
<1>2. ASSUME NEW a \in Addr, NEW v \in Word, NEW plainRead \in BOOLEAN,
             CacheStore(a, v, plainRead)
      PROVE  LinesNamed' /\ FreshLinesKept'
  <2>1. PICK w \in Way :
          /\ \A s \in SetIndex, u \in Way :
               ~(s = Index(a) /\ u = w) => cache'[s][u] = cache[s][u]
          /\ cache'[Index(a)][w].tag = TagOf(a)
          /\ cache'[Index(a)][w].valid
    BY <1>2, StoreLine
  <2>2. ASSUME NEW s \in SetIndex, NEW x \in Way, cache'[s][x].valid
        PROVE  \E b \in Addr : Index(b) = s /\ TagOf(b) = cache'[s][x].tag
    <3>1. CASE s = Index(a) /\ x = w
      BY <3>1, <2>1
    <3>2. CASE ~(s = Index(a) /\ x = w)
      BY <3>2, <2>1, <2>2 DEF LinesNamed
    <3>3. QED
      BY <3>1, <3>2
  <2>3. ASSUME NEW s \in SetIndex, NEW x \in Way, ~cache'[s][x].valid
        PROVE  cache'[s][x] = cache[s][x]
    BY <2>1, <2>3
  <2>4. LinesNamed'
    BY <2>2 DEF LinesNamed
  <2>5. FreshLinesKept'
    BY <2>3 DEF FreshLinesKept
  <2>6. QED
    BY <2>4, <2>5
<1>3. QED
  BY <1>1, <1>2, StepCases

\* A step works on a request of EX or takes one on.
LEMMA RequestsStep ==
  ASSUME PipesTypeOK, RequestsKnown, [Next]_vars
  PROVE  RequestsKnown'
<1>1. CASE Tick \/ ReadWindow \/ UNCHANGED vars
  BY <1>1 DEF Tick, ReadWindow, TakeIC, vars, RequestsKnown
<1>2. CASE SendToLS
  BY <1>2 DEF SendToLS, EXSend, RequestsKnown
<1>3. CASE ClientStep
  BY <1>3 DEF ClientStep, EXReceive, ICSend, ICReceive, RequestsKnown
<1>4. CASE BeginEX
  BY <1>4 DEF BeginEX, TakeEX, RequestsKnown
<1>5. CASE Answer
  BY <1>5 DEF Answer, AnswerEX, AnswerIC, Idle, RequestsKnown
<1>6. CASE LoadHit \/ LoadMiss \/ StoreWord
  <2>1. ls \in Serving
    BY <1>6, ServingState DEF LoadHit, LoadMiss, StoreWord, WordStored, MoreWords, PipesTypeOK
  <2>2. /\ exReq' = exReq
        /\ \/ \E v : ls' = [ls EXCEPT !.n = @ + 1, !.data = Append(@, v)]
           \/ ls' = [ls EXCEPT !.n = @ + 1]
    BY <1>6 DEF LoadHit, LoadMiss, StoreWord, WordStored, WordLoaded
  <2>3. ls'.req = ls.req /\ ls'.pc = ls.pc
    BY <2>1, <2>2 DEF Serving
  <2>4. QED
    BY <2>2, <2>3 DEF RequestsKnown
<1>7. QED
  BY <1>1, <1>2, <1>3, <1>4, <1>5, <1>6 DEF Next, LSStep

\* No word is stored over a fresh line that holds it already.
LEMMA StoredNotFresh ==
  ASSUME FreshLinesUnstored, PipesTypeOK, RequestsKnown, WordStored,
         NEW l \in FreshLines, l.tag = TagOf(CurrAddr)
  PROVE  l.data # CurrData
<1>1. /\ ls.pc = "ex" /\ ls.req.store /\ ls.n < Len(ls.req.data)
      /\ ls.req \in EXRequests
  BY DEF WordStored, MoreWords, RequestsKnown
<1>2. ls.n \in Nat /\ ls.req.data \in Seq(Word)
  BY <1>1, ServingState, RequestType DEF PipesTypeOK, Serving
<1>3. ls.n + 1 \in DOMAIN ls.req.data
  BY <1>1, <1>2
<1>4. QED
  BY <1>1, <1>3 DEF FreshLinesUnstored, CurrAddr, CurrData

\* The word a line is written back to is the one it holds.
LEMMA WrittenBackWord ==
  ASSUME TypeOK, LinesNamed, NEW a \in Addr, NEW w \in Way,
         Lines(a)[w].valid
  PROVE  \E c \in Addr : /\ c = LineAddr(Index(a), Lines(a)[w].tag)
                         /\ Index(c) = Index(a) /\ TagOf(c) = Lines(a)[w].tag
<1>1. PICK c \in Addr : Index(c) = Index(a) /\ TagOf(c) = Lines(a)[w].tag
  BY Split DEF LinesNamed, Lines
<1>2. QED
  BY <1>1, Split

\* Every step keeps clean lines equal to memory.
LEMMA CleanStep ==
  ASSUME FreshLinesUnstored, TypeOK, NoShadowedLine, LinesNamed, FreshLinesKept,
         RequestsKnown, CleanLineMatchesMemory, [Next]_vars
  PROVE  CleanLineMatchesMemory'
<1>1. CASE CacheKept
  <2>1. SUFFICES ASSUME NEW b \in Addr, NEW x \in Way, Holds(b, x)', ~Dirty(b, x)'
                 PROVE  cache'[Index(b)][x].data \in CellValues(mem'[b])
    BY DEF CleanLineMatchesMemory, Lines
  <2>2. Index(b) \in SetIndex
    BY Split
  <2>3. Holds(b, x) /\ ~Dirty(b, x) /\ cache'[Index(b)][x].data = Lines(b)[x].data
    BY <1>1, <2>1, <2>2 DEF Holds, Dirty, CacheKept, Lines
  <2>4. QED
    BY <1>1, <2>3 DEF CleanLineMatchesMemory, CacheKept
<1>2. ASSUME NEW a \in Addr, NEW v \in Word, NEW plainRead \in BOOLEAN,
             CacheStore(a, v, plainRead),
             plainRead => v \in CellValues(mem[a]) /\ \A w \in Way : ~Hits(a, w),
             ~plainRead => WordStored /\ a = CurrAddr /\ v = CurrData
      PROVE  CleanLineMatchesMemory'
  <2>1. PICK w \in Way :
           /\ \A s \in SetIndex, u \in Way :
                ~(s = Index(a) /\ u = w) => cache'[s][u] = cache[s][u]
           /\ cache'[Index(a)][w].tag = TagOf(a)
           /\ cache'[Index(a)][w].data = v
           /\ cache'[Index(a)][w].valid
           /\ \/ /\ IsFound(a, w)
                 /\ mem' = mem
                 /\ cache'[Index(a)][w].modified <=>
                      (Lines(a)[w].modified \/ Lines(a)[w].data # v)
              \/ /\ NotFound(a)
                 /\ cache'[Index(a)][w].modified = ~plainRead
                 /\ mem' = WrittenBack(Index(a), w)
    BY <1>2, StoreLine
  <2>2. SUFFICES ASSUME NEW b \in Addr, NEW x \in Way, Holds(b, x)', ~Dirty(b, x)'
                 PROVE  cache'[Index(b)][x].data \in CellValues(mem'[b])
    BY DEF CleanLineMatchesMemory, Lines
  <2>3. /\ Index(a) \in SetIndex /\ TagOf(a) \in Tag
        /\ Index(b) \in SetIndex /\ TagOf(b) \in Tag
    BY Split
  <2>4. /\ cache'[Index(b)][x].valid /\ cache'[Index(b)][x].tag = TagOf(b)
        /\ ~cache'[Index(b)][x].modified
    BY <2>2 DEF Holds, Dirty, Lines
  <2>5. CASE Index(b) = Index(a) /\ x = w
    <3>1. b = a
      BY <2>1, <2>4, <2>5, SplitInjective
    <3>2. CASE IsFound(a, w)
      <4>1. mem' = mem /\ Lines(a)[w].data = v /\ ~Lines(a)[w].modified
        BY <3>2, <2>1, <2>4, <2>5 DEF IsFound, NotFound
      <4>2. Lines(a)[w].tag = TagOf(a)
        BY <3>2 DEF IsFound
      <4>3. CASE Lines(a)[w].valid
        BY <3>1, <4>1, <4>2, <4>3, <2>1, <2>5 DEF CleanLineMatchesMemory, Holds, Dirty
      <4>4. CASE ~Lines(a)[w].valid
        <5>1. PICK l \in FreshLines : l.tag = TagOf(a) /\ l.data = v
          BY <4>1, <4>2, <4>4, <2>3 DEF FreshLinesKept, Lines
        <5>2. plainRead
          BY <5>1, <1>2, StoredNotFresh DEF TypeOK
        <5>3. QED
          BY <3>1, <4>1, <5>2, <1>2, <2>1, <2>5
      <4>5. QED
        BY <4>3, <4>4
    <3>3. CASE NotFound(a)
      <4>1. plainRead /\ mem' = WrittenBack(Index(a), w)
        BY <3>3, <2>1, <2>4, <2>5 DEF IsFound, NotFound
      <4>2. mem'[a] = mem[a]
        <5>1. CASE Lines(a)[w].valid
          <6>1. PICK c \in Addr : /\ c = LineAddr(Index(a), Lines(a)[w].tag)
                                  /\ TagOf(c) = Lines(a)[w].tag
            BY <5>1, WrittenBackWord
          <6>2. c # a
            BY <6>1, <3>3 DEF NotFound
          <6>3. QED
            BY <6>1, <6>2, <4>1 DEF WrittenBack, Lines, TypeOK
        <5>2. CASE ~Lines(a)[w].valid
          BY <5>2, <4>1 DEF WrittenBack, Lines
        <5>3. QED
          BY <5>1, <5>2
      <4>3. QED
        BY <3>1, <4>1, <4>2, <2>1, <2>5, <1>2
    <3>4. QED
      BY <2>1, <3>2, <3>3
  <2>6. CASE ~(Index(b) = Index(a) /\ x = w)
    <3>1. cache'[Index(b)][x] = cache[Index(b)][x]
      BY <2>1, <2>3, <2>6
    <3>2. Holds(b, x) /\ ~Dirty(b, x) /\ cache[Index(b)][x].data \in CellValues(mem[b])
      BY <3>1, <2>4 DEF Holds, Dirty, Lines, CleanLineMatchesMemory
    <3>3. mem'[b] = mem[b]
      <4>1. CASE mem' = mem
        BY <4>1
      <4>2. CASE mem' = WrittenBack(Index(a), w) /\ Lines(a)[w].valid
        <5>1. PICK c \in Addr : /\ c = LineAddr(Index(a), Lines(a)[w].tag)
                                /\ Index(c) = Index(a) /\ TagOf(c) = Lines(a)[w].tag
          BY <4>2, WrittenBackWord
        <5>2. c # b
          <6>1. SUFFICES ASSUME c = b PROVE FALSE
            OBVIOUS
          <6>2. x # w /\ cache[Index(a)][x].valid /\ cache[Index(a)][w].valid
            BY <6>1, <5>1, <2>6, <3>2, <4>2 DEF Holds, Lines
          <6>3. cache[Index(a)][x].tag = cache[Index(a)][w].tag
            BY <6>1, <5>1, <3>2 DEF Holds, Lines
          <6>4. x < w \/ w < x
            BY <6>2, CacheAssumption DEF Way
          <6>5. QED
            BY <6>2, <6>3, <6>4, <2>3 DEF NoShadowedLine
        <5>3. QED
          BY <5>1, <5>2, <4>2 DEF WrittenBack, Lines, TypeOK
      <4>3. CASE mem' = WrittenBack(Index(a), w) /\ ~Lines(a)[w].valid
        BY <4>3 DEF WrittenBack, Lines
      <4>4. QED
        BY <2>1, <4>1, <4>2, <4>3
    <3>4. QED
      BY <3>1, <3>2, <3>3
  <2>7. QED
    BY <2>5, <2>6
<1>3. QED
  BY <1>1, <1>2, StepCases

\* A valid line has the tag of an address of its set, so that what is written
\* back goes to that address; a line that is not valid is still as it was at first.
THEOREM LinesNamedHolds == Spec => [](LinesNamed /\ FreshLinesKept)
<1>1. Init => LinesNamed /\ FreshLinesKept
  <2>1. SUFFICES ASSUME Init PROVE LinesNamed /\ FreshLinesKept
    OBVIOUS
  <2>2. PICK fresh \in [SetIndex -> [Way -> FreshLines]] :
          cache = [s \in SetIndex |-> [w \in Way |->
            [tag |-> fresh[s][w].tag, data |-> fresh[s][w].data,
             valid |-> FALSE, modified |-> FALSE, hit |-> 0]]]
    BY <2>1 DEF Init
  <2>3. ASSUME NEW s \in SetIndex, NEW w \in Way
        PROVE  /\ ~cache[s][w].valid /\ ~cache[s][w].modified
               /\ fresh[s][w] \in FreshLines
               /\ cache[s][w].tag = fresh[s][w].tag /\ cache[s][w].data = fresh[s][w].data
    BY <2>2
  <2>4. QED
    BY <2>3 DEF LinesNamed, FreshLinesKept
<1>2. TypeOK /\ LinesNamed /\ FreshLinesKept /\ [Next]_vars
        => LinesNamed' /\ FreshLinesKept'
  BY LinesKeptStep
<1>3. QED
  BY <1>1, <1>2, TypeCorrect, PTL DEF Spec

LEMMA RequestsAreKnown == Spec => []RequestsKnown
<1>1. Init => RequestsKnown
  BY DEF Init, PipesInit, Idle, RequestsKnown
<1>2. TypeOK /\ RequestsKnown /\ [Next]_vars => RequestsKnown'
  BY RequestsStep DEF TypeOK
<1>3. QED
  BY <1>1, <1>2, TypeCorrect, PTL DEF Spec

\* A line not marked modified holds what memory holds, so that dropping it
\* loses nothing (KWayAssociativeCache.h 101, 125-134), unless the storage of
\* new lines happens to hold a word that is stored over it.
THEOREM CleanLinesHold ==
  ASSUME FreshLinesUnstored
  PROVE  Spec => []CleanLineMatchesMemory
<1>1. Init => CleanLineMatchesMemory
  BY Split DEF Init, CleanLineMatchesMemory, Holds, Lines
<1>2. TypeOK /\ NoShadowedLine /\ LinesNamed /\ FreshLinesKept /\ RequestsKnown
        /\ CleanLineMatchesMemory /\ [Next]_vars => CleanLineMatchesMemory'
  BY CleanStep, FreshLinesUnstored
<1>3. QED
  BY <1>1, <1>2, TypeCorrect, NoShadowedLineHolds, LinesNamedHolds, RequestsAreKnown, PTL DEF Spec
-----------------------------------------------------------------------------
(* Every step of LoadStore is a step of FlatMemory, or changes nothing     *)
(* that FlatMemory sees, when unset cells read as zero and no              *)
(* uninitialised line happens to hold what is stored over it.              *)

\* What the simulation needs of a state.
Sound ==
  ~GarbageMemory /\ TypeOK /\ NoShadowedLine /\ LinesNamed /\ CleanLineMatchesMemory

-----------------------------------------------------------------------------
(* What the clients see of a word. *)

\* One line at most holds a word, and isAHit finds it.
LEMMA HeldOnce ==
  Sound => \A a \in Addr, w \in Way : Holds(a, w) =>
             Hits(a, w) /\ \A x \in Way : Holds(a, x) => x = w
<1>1. SUFFICES ASSUME Sound, NEW a \in Addr, NEW w \in Way, Holds(a, w)
               PROVE  Hits(a, w) /\ \A x \in Way : Holds(a, x) => x = w
  OBVIOUS
<1>2. Index(a) \in SetIndex
  BY Split
<1>3. ASSUME NEW x \in Way, x < w PROVE Lines(a)[x].tag # TagOf(a)
  BY <1>1, <1>2, <1>3 DEF Sound, NoShadowedLine, Holds, Lines
<1>4. ASSUME NEW x \in Way, Holds(a, x) PROVE x = w
  <2>1. x < w \/ x = w \/ w < x
    BY CacheAssumption DEF Way
  <2>2. ~(w < x)
    BY <1>1, <1>2, <1>4 DEF Sound, NoShadowedLine, Holds, Lines
  <2>3. QED
    BY <2>1, <2>2, <1>3, <1>4 DEF Holds
<1>5. QED
  BY <1>1, <1>3, <1>4 DEF Hits, IsFound, Holds

\* A modified line is what the clients see of its word.
LEMMA ViewDirty ==
  Sound => \A a \in Addr, w \in Way : Dirty(a, w) => View[a] = Lines(a)[w].data
<1>1. SUFFICES ASSUME Sound, NEW a \in Addr, NEW w \in Way, Dirty(a, w)
               PROVE  View[a] = Lines(a)[w].data
  OBVIOUS
<1>2. \A x \in Way : Dirty(a, x) => x = w
  BY <1>1, HeldOnce DEF Dirty
<1>3. (CHOOSE x \in Way : Dirty(a, x)) = w
  BY <1>1, <1>2
<1>4. QED
  BY <1>1, <1>3 DEF View

\* Without one, they see memory.
LEMMA ViewClean ==
  ASSUME NEW a \in Addr, \A w \in Way : ~Dirty(a, w)
  PROVE  View[a] = Visible(mem[a])
  BY DEF View

\* Any line that holds a word is what the clients see of it.
LEMMA ViewHeld ==
  Sound => \A a \in Addr, w \in Way : Holds(a, w) => View[a] = Lines(a)[w].data
<1>1. SUFFICES ASSUME Sound, NEW a \in Addr, NEW w \in Way, Holds(a, w), ~Dirty(a, w)
               PROVE  View[a] = Lines(a)[w].data
  BY ViewDirty
<1>2. \A x \in Way : ~Dirty(a, x)
  BY <1>1, HeldOnce DEF Dirty
<1>3. View[a] = Visible(mem[a])
  BY <1>2, ViewClean
<1>4. Lines(a)[w].data \in CellValues(mem[a])
  BY <1>1 DEF Sound, CleanLineMatchesMemory
<1>5. QED
  BY <1>1, <1>3, <1>4 DEF Sound, CellValues, Visible

\* What the clients see of a word is a word.
LEMMA ViewType ==
  Sound => View \in [Addr -> Word]
<1>1. SUFFICES ASSUME Sound, NEW a \in Addr PROVE View[a] \in Word
  BY DEF View
<1>2. CASE \E w \in Way : Dirty(a, w)
  BY <1>1, <1>2, ViewDirty, Split DEF Sound, TypeOK, Lines, Line
<1>3. CASE \A w \in Way : ~Dirty(a, w)
  BY <1>1, <1>3, ViewClean, MemoryAssumption, AddressAssumption DEF Sound, TypeOK, Visible
<1>4. QED
  BY <1>2, <1>3

\* A miss means that memory has what the clients see.
LEMMA ViewMissed ==
  ASSUME Sound, NEW a \in Addr, \A w \in Way : ~Hits(a, w)
  PROVE  CellValues(mem[a]) = {View[a]}
<1>1. \A w \in Way : ~Dirty(a, w)
  BY HeldOnce DEF Dirty
<1>2. View[a] = Visible(mem[a])
  BY <1>1, ViewClean
<1>3. QED
  BY <1>2 DEF Sound, CellValues, Visible

-----------------------------------------------------------------------------
(* What a step does to what the clients see. *)

\* A step that keeps the lines keeps the view.
LEMMA KeptView ==
  ASSUME TypeOK, CacheKept
  PROVE  View' = View
<1>1. ASSUME NEW a \in Addr
      PROVE  /\ \A w \in Way : Dirty(a, w)' <=> Dirty(a, w)
             /\ \A w \in Way : cache'[Index(a)][w].data = Lines(a)[w].data
  BY Split DEF CacheKept, Dirty, Holds, Lines
<1>2. ASSUME NEW a \in Addr
      PROVE  (CHOOSE w \in Way : Dirty(a, w)') = (CHOOSE w \in Way : Dirty(a, w))
  BY <1>1
<1>3. ASSUME NEW a \in Addr, \E w \in Way : Dirty(a, w)
      PROVE  cache'[Index(a)][CHOOSE w \in Way : Dirty(a, w)].data
               = Lines(a)[CHOOSE w \in Way : Dirty(a, w)].data
  BY <1>1, <1>3
<1>4. ASSUME NEW a \in Addr
      PROVE  (IF \E w \in Way : Dirty(a, w)'
                THEN cache'[Index(a)][CHOOSE w \in Way : Dirty(a, w)'].data
                ELSE Visible(mem'[a])) = View[a]
  BY <1>1, <1>2, <1>3 DEF View, CacheKept
<1>5. QED
  BY <1>4 DEF View, Lines

\* The clients see of a word what a line that holds it holds.
ViewShows ==
  /\ View \in [Addr -> Word]
  /\ \A b \in Addr, x \in Way : Holds(b, x) => View[b] = cache[Index(b)][x].data

LEMMA ShownAlways == Sound => ViewShows
  BY ViewHeld, ViewType DEF ViewShows, Lines

LEMMA ShownAfter == Sound' => ViewShows'
  BY ShownAlways, PTL

\* Storing a word changes what the clients see of it, and of no other word.
LEMMA StoredView ==
  ASSUME Sound, Sound', NEW a \in Addr, NEW v \in Word,
         NEW plainRead \in BOOLEAN, CacheStore(a, v, plainRead)
  PROVE  View' = [View EXCEPT ![a] = v]
<1>1. PICK w \in Way :
         /\ \A s \in SetIndex, u \in Way :
              ~(s = Index(a) /\ u = w) => cache'[s][u] = cache[s][u]
         /\ cache'[Index(a)][w].tag = TagOf(a)
         /\ cache'[Index(a)][w].data = v
         /\ cache'[Index(a)][w].valid
         /\ \/ IsFound(a, w) /\ mem' = mem
            \/ NotFound(a) /\ mem' = WrittenBack(Index(a), w)
  BY StoreLine DEF Sound
<1>h. /\ View' \in [Addr -> Word] /\ View \in [Addr -> Word]
      /\ \A b \in Addr, x \in Way : Holds(b, x)' => View'[b] = cache'[Index(b)][x].data
      /\ \A b \in Addr, x \in Way : Dirty(b, x)' => View'[b] = cache'[Index(b)][x].data
  <2>1. View \in [Addr -> Word]
    BY ViewType
  <2>2. QED
    BY <2>1, ShownAfter DEF ViewShows, Dirty
<1>2. View'[a] = v
  <2>1. Holds(a, w)'
    BY <1>1 DEF Holds, Lines
  <2>2. QED
    BY <2>1, <1>h, <1>1
<1>3. ASSUME NEW b \in Addr, b # a PROVE View'[b] = View[b]
  <2>1. Index(a) \in SetIndex /\ Index(b) \in SetIndex
    BY Split
  <2>2. ASSUME NEW x \in Way, ~(Index(b) = Index(a) /\ x = w)
        PROVE  /\ Dirty(b, x)' <=> Dirty(b, x)
               /\ cache'[Index(b)][x].data = Lines(b)[x].data
    BY <2>1, <2>2, <1>1 DEF Dirty, Holds, Lines
  <2>3. Index(b) = Index(a) => ~Holds(b, w)'
    BY <1>1, <1>3, SplitInjective DEF Holds, Lines
  <2>4. CASE Index(b) = Index(a) /\ Dirty(b, w)
    <3>1. NotFound(a) /\ mem' = WrittenBack(Index(a), w)
      BY <2>4, <1>1, <1>3, SplitInjective DEF IsFound, Dirty, Holds, Lines
    <3>2. /\ LineAddr(Index(a), cache[Index(a)][w].tag) = b
          /\ cache[Index(a)][w].valid /\ cache[Index(a)][w].modified
      BY <2>4, Split DEF Dirty, Holds, Lines
    <3>3. mem'[b] = cache[Index(a)][w].data /\ cache[Index(a)][w].data \in Word
      BY <3>1, <3>2, <2>1 DEF WrittenBack, Sound, TypeOK, Line
    <3>4. ASSUME NEW x \in Way PROVE ~Dirty(b, x)'
      <4>1. CASE x = w
        BY <4>1, <2>3, <2>4 DEF Dirty
      <4>2. CASE x # w
        BY <4>2, <2>2, <2>4, HeldOnce DEF Dirty
      <4>3. QED
        BY <4>1, <4>2
    <3>5. View'[b] = Visible(mem'[b])
      BY <3>4 DEF View
    <3>6. View[b] = cache[Index(a)][w].data
      BY <2>4, ViewDirty DEF Lines
    <3>7. QED
      BY <3>3, <3>5, <3>6, MemoryAssumption, AddressAssumption DEF Visible
  <2>5. CASE ~(Index(b) = Index(a) /\ Dirty(b, w))
    <3>1. \A x \in Way : Dirty(b, x)' <=> Dirty(b, x)
      <4>1. ASSUME NEW x \in Way, Index(b) = Index(a) /\ x = w
            PROVE  ~Dirty(b, x)' /\ ~Dirty(b, x)
        BY <4>1, <2>3, <2>5 DEF Dirty
      <4>2. QED
        BY <4>1, <2>2
    <3>2. CASE \E x \in Way : Dirty(b, x)
      <4>1. PICK x \in Way : Dirty(b, x)
        BY <3>2
      <4>2. Dirty(b, x)' /\ ~(Index(b) = Index(a) /\ x = w)
        BY <4>1, <3>1, <2>5
      <4>3. View'[b] = cache'[Index(b)][x].data /\ View[b] = Lines(b)[x].data
        BY <4>1, <4>2, <1>h, ViewDirty
      <4>4. QED
        BY <4>2, <4>3, <2>2
    <3>3. CASE \A x \in Way : ~Dirty(b, x)
      <4>1. View[b] = Visible(mem[b])
        BY <3>3, ViewClean
      <4>2. View'[b] = Visible(mem'[b])
        BY <3>1, <3>3 DEF View
      <4>3. mem'[b] = mem[b]
        <5>1. CASE mem' = mem \/ ~(cache[Index(a)][w].valid /\ cache[Index(a)][w].modified)
          BY <5>1, <1>1 DEF WrittenBack
        <5>2. CASE /\ mem' = WrittenBack(Index(a), w)
                   /\ cache[Index(a)][w].valid /\ cache[Index(a)][w].modified
          <6>1. PICK c \in Addr : /\ c = LineAddr(Index(a), Lines(a)[w].tag)
                                  /\ Index(c) = Index(a) /\ TagOf(c) = Lines(a)[w].tag
            BY <5>2, WrittenBackWord DEF Sound, Lines
          <6>2. c # b
            BY <6>1, <5>2, <3>3 DEF Dirty, Holds, Lines
          <6>3. QED
            BY <6>1, <6>2, <5>2 DEF WrittenBack, Lines, Sound, TypeOK
        <5>3. QED
          BY <1>1, <5>1, <5>2
      <4>4. QED
        BY <4>1, <4>2, <4>3
    <3>4. QED
      BY <3>2, <3>3
  <2>6. QED
    BY <2>4, <2>5
<1>4. QED
  BY <1>h, <1>2, <1>3

-----------------------------------------------------------------------------
(* The simulation. *)

\* FlatMemory and LoadStore have the pipes and the control in common.
LEMMA SameControl ==
  /\ PipesInit => Flat!PipesInit
  /\ EXSend => Flat!EXSend
  /\ EXReceive => Flat!EXReceive
  /\ ICReceive => Flat!ICReceive
  /\ TakeEX => Flat!TakeEX
  /\ AnswerEX => Flat!AnswerEX
  /\ AnswerIC => Flat!AnswerIC
  /\ WordStored => Flat!WordStored
  /\ MoreWords => Flat!MoreWords
  /\ Flat!CurrAddr = CurrAddr /\ Flat!CurrData = CurrData
<1>1. PipesInit => Flat!PipesInit
  BY DEF PipesInit, Flat!PipesInit, Idle, Flat!Idle
<1>2. EXSend => Flat!EXSend
  BY DEF EXSend, Flat!EXSend, EXQuiet, Flat!EXQuiet
<1>3. (EXReceive => Flat!EXReceive) /\ (ICReceive => Flat!ICReceive)
  BY DEF EXReceive, Flat!EXReceive, ICReceive, Flat!ICReceive
<1>4. TakeEX => Flat!TakeEX
  BY DEF TakeEX, Flat!TakeEX
<1>5. MoreWords <=> Flat!MoreWords
  BY DEF MoreWords, Flat!MoreWords
<1>6. (AnswerEX => Flat!AnswerEX) /\ (AnswerIC => Flat!AnswerIC)
  BY <1>5 DEF AnswerEX, Flat!AnswerEX, AnswerIC, Flat!AnswerIC, Idle, Flat!Idle
<1>7. Flat!CurrAddr = CurrAddr /\ Flat!CurrData = CurrData
  BY DEF CurrAddr, Flat!CurrAddr, CurrData, Flat!CurrData, WordAt, Flat!WordAt
<1>8. WordStored => Flat!WordStored
  BY <1>5, <1>7 DEF WordStored, Flat!WordStored, Invalidation, Flat!Invalidation
<1>9. QED
  BY <1>1, <1>2, <1>3, <1>4, <1>5, <1>6, <1>7, <1>8

LEMMA SameWords ==
  /\ \A v : WordLoaded(v) => Flat!WordLoaded(v)
  /\ \A w : ICSend(w) => Flat!ICSend(w)
  /\ \A d : TakeIC(d) => Flat!TakeIC(d)
  /\ \A c : Flat!CellValues(c) = CellValues(c)
  /\ \A b, i : Flat!WordAt(b, i) = WordAt(b, i)
<1>1. ASSUME NEW v PROVE WordLoaded(v) => Flat!WordLoaded(v)
  BY DEF WordLoaded, Flat!WordLoaded, MoreWords, Flat!MoreWords
<1>2. ASSUME NEW w PROVE ICSend(w) => Flat!ICSend(w)
  BY DEF ICSend, Flat!ICSend, ICQuiet, Flat!ICQuiet
<1>3. ASSUME NEW d PROVE TakeIC(d) => Flat!TakeIC(d)
  BY DEF TakeIC, Flat!TakeIC, FetchResponse, Flat!FetchResponse
<1>4. ASSUME NEW c PROVE Flat!CellValues(c) = CellValues(c)
  BY DEF CellValues, Flat!CellValues
<1>5. ASSUME NEW b, NEW i PROVE Flat!WordAt(b, i) = WordAt(b, i)
  BY DEF WordAt, Flat!WordAt
<1>6. QED
  BY <1>1, <1>2, <1>3, <1>4, <1>5

\* At first the clients see the image.
LEMMA InitSimulation == Sound /\ Init => Flat!Init
<1>1. SUFFICES ASSUME Sound, Init PROVE Flat!Init
  OBVIOUS
<1>2. \A s \in SetIndex, w \in Way : ~cache[s][w].valid
  BY <1>1 DEF Init
<1>3. \A a \in Addr, w \in Way : ~Dirty(a, w)
  BY <1>2, Split DEF Dirty, Holds, Lines
<1>4. View = [a \in Addr |-> Visible(Image[a])]
  BY <1>1, <1>3 DEF View, Init
<1>5. \A c : Flat!Visible(c) = Visible(c)
  BY DEF Visible, Flat!Visible
<1>6. View = [a \in Flat!Addr |-> Flat!Visible(Image[a])]
  BY <1>4, <1>5 DEF Addr, Flat!Addr
<1>7. QED
  BY <1>1, <1>6, SameControl DEF Init, Flat!Init

\* Every step is a step of the flat memory or one it does not see.
LEMMA StepSimulation == Sound /\ Sound' /\ [Next]_vars => [Flat!Next]_(Flat!vars)
<1> SUFFICES ASSUME Sound, Sound', [Next]_vars
             PROVE  Flat!Next \/ UNCHANGED Flat!vars
  OBVIOUS
<1>t. TypeOK /\ PipesTypeOK
  BY DEF Sound, TypeOK
<1>1. CASE Tick \/ UNCHANGED vars
  <2>1. View' = View
    BY <1>1, <1>t, KeptView DEF Tick, vars, CacheKept
  <2>2. QED
    BY <1>1, <2>1 DEF Tick, vars, Flat!vars
<1>2. CASE SendToLS \/ ClientStep \/ BeginEX \/ Answer
  <2>1. View' = View
    BY <1>2, <1>t, KeptView DEF SendToLS, ClientStep, BeginEX, Answer, CacheKept
  <2>2. CASE SendToLS
    BY <2>1, <2>2, SameControl DEF SendToLS, Flat!Next, Flat!ClientStep
  <2>3. CASE ClientStep
    BY <2>1, <2>3, SameControl, SameWords DEF ClientStep, Flat!Next, Flat!ClientStep
  <2>4. CASE BeginEX \/ Answer
    BY <2>1, <2>4, SameControl DEF BeginEX, Answer, Flat!Next, Flat!LSStep
  <2>5. QED
    BY <1>2, <2>2, <2>3, <2>4
<1>3. CASE LoadHit
  <2>1. PICK w \in Way : /\ MoreWords /\ Hits(CurrAddr, w) /\ Touch(CurrAddr, w)
                         /\ WordLoaded(Lines(CurrAddr)[w].data)
    BY <1>3 DEF LoadHit
  <2>2. CurrAddr \in Addr
    BY <2>1, <1>t, CurrentWord
  <2>3. View' = View
    BY <2>1, <2>2, <1>t, TouchKeeps, KeptView
  <2>4. Holds(CurrAddr, w)
    BY <2>1 DEF Hits, IsFound, Holds
  <2>5. View[CurrAddr] = Lines(CurrAddr)[w].data /\ View[CurrAddr] \in Word
    BY <2>2, <2>4, ViewHeld, ViewType
  <2>6. Lines(CurrAddr)[w].data \in CellValues(View[CurrAddr])
    BY <2>5, MemoryAssumption, AddressAssumption DEF CellValues
  <2>7. Flat!LoadWord
    BY <2>1, <2>3, <2>6, SameControl, SameWords DEF Flat!LoadWord
  <2>8. QED
    BY <2>7 DEF Flat!Next, Flat!LSStep
<1>4. CASE LoadMiss
  <2>1. MoreWords /\ CurrAddr \in Addr /\ \A w \in Way : ~Hits(CurrAddr, w)
    BY <1>4, <1>t, CurrentWord DEF LoadMiss
  <2>2. PICK v \in CellValues(mem[CurrAddr]) :
          WordLoaded(v) /\ CacheStore(CurrAddr, v, TRUE)
    BY <1>4 DEF LoadMiss
  <2>3. v = View[CurrAddr] /\ View \in [Addr -> Word]
    BY <2>1, <2>2, ViewMissed, ViewType
  <2>4. View' = [View EXCEPT ![CurrAddr] = v]
    BY <2>1, <2>2, <2>3, StoredView
  <2>5. View' = View
    BY <2>1, <2>3, <2>4
  <2>6. v \in CellValues(View[CurrAddr])
    BY <2>1, <2>3, MemoryAssumption, AddressAssumption DEF CellValues
  <2>7. Flat!LoadWord
    BY <2>1, <2>2, <2>5, <2>6, SameControl, SameWords DEF Flat!LoadWord
  <2>8. QED
    BY <2>7 DEF Flat!Next, Flat!LSStep
<1>5. CASE StoreWord
  <2>1. CurrAddr \in Addr /\ CurrData \in Word /\ WordStored
    BY <1>5, <1>t, CurrentWord DEF StoreWord, WordStored
  <2>2. View' = [View EXCEPT ![CurrAddr] = CurrData]
    BY <1>5, <2>1, StoredView DEF StoreWord
  <2>3. Flat!StoreWord
    BY <2>1, <2>2, SameControl DEF Flat!StoreWord
  <2>4. QED
    BY <2>3 DEF Flat!Next, Flat!LSStep
<1>6. CASE ReadWindow
  <2>1. /\ icReq # <<>> /\ Head(icReq) \in Window
        /\ TouchWindow(Head(icReq)) /\ mem' = mem
    BY <1>6, <1>t DEF ReadWindow, PipesTypeOK
  <2>2. PICK d \in [1 .. WindowWords -> Word] :
          /\ \A i \in 1 .. WindowWords : d[i] \in FetchValues(WordAt(Head(icReq), i))
          /\ TakeIC(d)
    BY <1>6 DEF ReadWindow
  <2>3. View' = View
    BY <2>1, <1>t, TouchWindowKeeps, KeptView
  <2>4. ASSUME NEW a \in Addr PROVE FetchValues(a) = CellValues(View[a])
    <3>1. View[a] \in Word
      BY ViewType
    <3>2. CellValues(View[a]) = {View[a]}
      BY <3>1, MemoryAssumption, AddressAssumption DEF CellValues
    <3>3. CASE \E w \in Way : Hits(a, w)
      <4>1. ASSUME NEW w \in Way, Hits(a, w) PROVE Lines(a)[w].data = View[a]
        BY <4>1, ViewHeld DEF Hits, IsFound, Holds
      <4>2. QED
        BY <3>2, <3>3, <4>1 DEF FetchValues
    <3>4. CASE ~\E w \in Way : Hits(a, w)
      BY <3>2, <3>4, ViewMissed DEF FetchValues
    <3>5. QED
      BY <3>3, <3>4
  <2>5. \A i \in 1 .. WindowWords :
          d[i] \in Flat!CellValues(View[Flat!WordAt(Head(icReq), i)])
    BY <2>1, <2>2, <2>4, SameWords, WordAtInAddr, MemoryAssumption, AddressAssumption DEF Window
  <2>6. Flat!ReadWindow
    BY <2>1, <2>2, <2>3, <2>5, SameWords DEF Flat!ReadWindow
  <2>7. QED
    BY <2>6 DEF Flat!Next, Flat!LSStep
<1>7. QED
  BY <1>1, <1>2, <1>3, <1>4, <1>5, <1>6 DEF Next, LSStep

\* Behind its cache the Load/Store thread is one flat memory, for every size
\* of the cache and every order of requests: a load and a fetch window return
\* the last word stored, and each stored word is followed by its invalidation
\* (LoadStore.cpp 38-197).  Unset cells must read as zero, and no uninitialised
\* line happens to hold what is stored over it.
THEOREM FlatMemoryImplemented ==
  ASSUME ~GarbageMemory, FreshLinesUnstored
  PROVE  Spec => ImplementsFlatMemory
<1> DEFINE Inv == TypeOK /\ NoShadowedLine /\ LinesNamed /\ CleanLineMatchesMemory
<1>1. Spec => []Inv
  BY TypeCorrect, NoShadowedLineHolds, LinesNamedHolds, CleanLinesHold, PTL
<1>2. Inv /\ Init => Flat!Init
  BY InitSimulation DEF Sound
<1>3. Inv /\ Inv' /\ [Next]_vars => [Flat!Next]_(Flat!vars)
  BY StepSimulation DEF Sound
<1> HIDE DEF Inv
<1>4. QED
  BY <1>1, <1>2, <1>3, PTL DEF Spec, ImplementsFlatMemory, Flat!Spec
=============================================================================
