----------------------------- MODULE LoadStore ------------------------------
(***************************************************************************)
(* The Load/Store thread (LoadStore.cpp) with its K-way set-associative    *)
(* write-back cache of words (KWayAssociativeCache.h, CacheLine.h) over    *)
(* the physical memory (Memory.cpp).  The pipes and the two clients are    *)
(* those of MemoryPipes; EX requests carry the cycle they were sent at,    *)
(* which decides who is served first when both clients wait.               *)
(***************************************************************************)
EXTENDS MemoryPipes

CONSTANTS
  NumSets,    \* sets of the cache an index can reach
  Ways,       \* LS_CACHE_SET_ENTRIES_COUNT
  FreshLines, \* what uninitialised lines may hold: a set of [tag, data]
  MaxTime     \* bound: cycles counted by the clock (CYCLES_LIMIT)

Way == 1 .. Ways
SetIndex == 0 .. NumSets - 1
Tag == {a \div NumSets : a \in Addr}

ASSUME CacheAssumption ==
  /\ NumSets \in Nat \ {0}
  /\ Ways \in Nat \ {0}
  /\ MaxTime \in Nat
  /\ FreshLines \subseteq [tag : Nat, data : Word]

VARIABLES
  mem,       \* physical memory
  cache,     \* cache[s][w]: line w of set s
  now,       \* clockSyncVars->cycleCount
  exSentAt,  \* sentAt of the last request of EX
  opAt       \* startTimeOfCurrOp of the LS thread

vars == <<mem, cache, now, exSentAt, opAt, exReq, exResp, icReq, toIC, ls>>

Line == [tag : Nat, data : Word, valid : BOOLEAN, modified : BOOLEAN, hit : Nat]
-----------------------------------------------------------------------------
(* KWayAssociativeCache *)

\* prepareForOps
Index(a) == a % NumSets
TagOf(a) == a \div NumSets

LineAddr(s, t) == t * NumSets + s

Lines(a) == cache[Index(a)]

\* isAHit stops at the first line that has the tag, valid or not.
IsFound(a, w) ==
  /\ Lines(a)[w].tag = TagOf(a)
  /\ \A v \in Way : v < w => Lines(a)[v].tag # TagOf(a)

Hits(a, w) == IsFound(a, w) /\ Lines(a)[w].valid

\* Mutant: store looks for a victim although the word is cached.
NotSought(a) == TRUE

NotFound(a) == \A w \in Way : Lines(a)[w].tag # TagOf(a)

\* The line a new word replaces: the first that is not valid, else the first
\* of those hit the longest ago.
IsVictim(s, w) ==
  LET set == cache[s] IN
  IF \E v \in Way : ~set[v].valid
    THEN ~set[w].valid /\ \A v \in Way : v < w => set[v].valid
    ELSE /\ \A v \in Way : set[w].hit <= set[v].hit
         /\ \A v \in Way : v < w => set[w].hit < set[v].hit

\* get: only the time of the hit changes.
Touch(a, w) ==
  /\ cache' = [cache EXCEPT ![Index(a)][w] = [Lines(a)[w] EXCEPT !.hit = now]]
  /\ UNCHANGED mem

\* store on a line that has the tag.
Overwrite(a, w, v) ==
  /\ cache' = [cache EXCEPT ![Index(a)][w] =
                 [Lines(a)[w] EXCEPT !.data = v, !.hit = now, !.valid = TRUE,
                    !.modified = @ \/ Lines(a)[w].data # v]]
  /\ UNCHANGED mem

\* Memory once the word of line w of set s, if it is newer, is written to it.
WrittenBack(s, w) ==
  IF cache[s][w].valid /\ cache[s][w].modified
    THEN [mem EXCEPT ![LineAddr(s, cache[s][w].tag)] = cache[s][w].data]
    ELSE mem

\* Mutants: a stored word is marked as if it had been read; the word a line
\* held before is not written back.
ReplaceAsRead(a, w, v, plainRead) ==
  /\ cache' = [cache EXCEPT ![Index(a)][w] =
                 [tag |-> TagOf(a), data |-> v, valid |-> TRUE,
                  modified |-> FALSE, hit |-> now]]
  /\ mem' = WrittenBack(Index(a), w)

ReplaceAndForget(a, w, v, plainRead) ==
  /\ cache' = [cache EXCEPT ![Index(a)][w] =
                 [tag |-> TagOf(a), data |-> v, valid |-> TRUE,
                  modified |-> ~plainRead, hit |-> now]]
  /\ UNCHANGED mem

\* store on a line of another tag.
Replace(a, w, v, plainRead) ==
  /\ cache' = [cache EXCEPT ![Index(a)][w] =
                 [tag |-> TagOf(a), data |-> v, valid |-> TRUE,
                  modified |-> ~plainRead, hit |-> now]]
  /\ mem' = WrittenBack(Index(a), w)

CacheStore(a, v, plainRead) ==
  \E w \in Way :
    \/ IsFound(a, w) /\ Overwrite(a, w, v)
    \/ NotFound(a) /\ IsVictim(Index(a), w) /\ Replace(a, w, v, plainRead)

-----------------------------------------------------------------------------
(* The clock and the clients. *)

Tick ==
  /\ now < MaxTime
  /\ now' = now + 1
  /\ UNCHANGED <<mem, cache, exSentAt, opAt, exReq, exResp, icReq, toIC, ls>>

\* No request is sent that the last cycles would cut off.
SendToLS ==
  /\ now + 2 <= MaxTime
  /\ EXSend
  /\ exSentAt' = now
  /\ UNCHANGED <<mem, cache, now, opAt>>

ClientStep ==
  /\ EXReceive \/ (\E w \in ICWindows : ICSend(w)) \/ ICReceive
  /\ UNCHANGED <<mem, cache, now, exSentAt, opAt>>

-----------------------------------------------------------------------------
(* executeModuleLogic and handleRequestFromEX. *)

\* awaitNextTickToHandle
InLaterCycle == exSentAt < now

\* startCurrOpTimer: each round of the thread starts at a new cycle.
StartOp == opAt < now /\ opAt' = now

\* Mutant: IC goes first whenever both wait.
BeginEXLast ==
  /\ StartOp
  /\ icReq = <<>>
  /\ TakeEX
  /\ UNCHANGED <<mem, cache, now, exSentAt>>

\* EX goes first, unless its request was sent in this very cycle.
BeginEX ==
  /\ StartOp
  /\ icReq # <<>> => exSentAt # now
  /\ TakeEX
  /\ UNCHANGED <<mem, cache, now, exSentAt>>

LoadHit ==
  /\ InLaterCycle /\ MoreWords
  /\ \E w \in Way :
       /\ Hits(CurrAddr, w)
       /\ Touch(CurrAddr, w)
       /\ WordLoaded(Lines(CurrAddr)[w].data)
  /\ UNCHANGED <<now, exSentAt, opAt>>

LoadMiss ==
  /\ InLaterCycle /\ MoreWords
  /\ \A w \in Way : ~Hits(CurrAddr, w)
  /\ \E v \in CellValues(mem[CurrAddr]) :
       /\ WordLoaded(v)
       /\ CacheStore(CurrAddr, v, TRUE)
  /\ UNCHANGED <<now, exSentAt, opAt>>

StoreWord ==
  /\ InLaterCycle /\ WordStored
  /\ CacheStore(CurrAddr, CurrData, FALSE)
  /\ UNCHANGED <<now, exSentAt, opAt>>

\* A word of a fetch window comes from the cache if it is there.
FetchValues(a) ==
  IF \E w \in Way : Hits(a, w)
    THEN {Lines(a)[w].data : w \in {v \in Way : Hits(a, v)}}
    ELSE CellValues(mem[a])

\* Reading a window touches the cached words of it and fills no line.
TouchWindow(base) ==
  cache' = [s \in SetIndex |-> [w \in Way |->
    IF \E i \in 1 .. WindowWords :
         Index(WordAt(base, i)) = s /\ Hits(WordAt(base, i), w)
      THEN [cache[s][w] EXCEPT !.hit = now]
      ELSE cache[s][w]]]

ReadWindow ==
  /\ StartOp
  /\ icReq # <<>>
  /\ exReq # <<>> => exSentAt = now
  /\ \E d \in [1 .. WindowWords -> Word] :
       /\ \A i \in 1 .. WindowWords : d[i] \in FetchValues(WordAt(Head(icReq), i))
       /\ TakeIC(d)
  /\ TouchWindow(Head(icReq))
  /\ UNCHANGED <<mem, now, exSentAt>>

Answer ==
  /\ (InLaterCycle /\ AnswerEX) \/ AnswerIC
  /\ UNCHANGED <<mem, cache, now, exSentAt, opAt>>

LSStep == BeginEX \/ LoadHit \/ LoadMiss \/ StoreWord \/ ReadWindow \/ Answer

\* A new line is invalid, clean, and holds whatever the storage held before.
Init ==
  /\ PipesInit
  /\ mem = Image
  /\ now = 0
  /\ exSentAt = 0
  /\ opAt = 0
  /\ \E fresh \in [SetIndex -> [Way -> FreshLines]] :
       cache = [s \in SetIndex |-> [w \in Way |->
         [tag |-> fresh[s][w].tag, data |-> fresh[s][w].data,
          valid |-> FALSE, modified |-> FALSE, hit |-> 0]]]

Next == Tick \/ SendToLS \/ ClientStep \/ LSStep

\* The clock and LS keep running; nothing obliges the clients to ask.
Spec == Init /\ [][Next]_vars /\ WF_vars(Tick) /\ WF_vars(LSStep)
-----------------------------------------------------------------------------
(* What the thread promises. *)

Holds(a, w) == Lines(a)[w].valid /\ Lines(a)[w].tag = TagOf(a)

Dirty(a, w) == Holds(a, w) /\ Lines(a)[w].modified

\* The memory EX and IC see: the modified lines over the physical memory.
View == [a \in Addr |->
  IF \E w \in Way : Dirty(a, w)
    THEN Lines(a)[CHOOSE w \in Way : Dirty(a, w)].data
    ELSE Visible(mem[a])]

Flat == INSTANCE FlatMemory WITH flat <- View

\* Cache, memory and pipes hold what they are declared to hold.
TypeOK ==
  /\ PipesTypeOK
  /\ mem \in [Addr -> Word \cup {Unset}]
  /\ cache \in [SetIndex -> [Way -> Line]]
  /\ now \in Nat
  /\ exSentAt \in Nat
  /\ opAt \in Nat

\* At most one valid line holds a given address, and isAHit never stops at
\* an invalid line in front of it, whatever the fresh lines held.
NoShadowedLine ==
  \A s \in SetIndex : \A v, w \in Way :
    v < w /\ cache[s][w].valid => cache[s][v].tag # cache[s][w].tag

\* A word that is cached and not marked modified can be dropped: memory has it.
CleanLineMatchesMemory ==
  \A a \in Addr, w \in Way :
    Holds(a, w) /\ ~Dirty(a, w) => Lines(a)[w].data \in CellValues(mem[a])

\* No word is stored where an uninitialised line has its tag and, by chance,
\* the very same data: such a line would stay unmodified (KWayAssociativeCache.h 101).
FreshLinesUnstored ==
  \A l \in FreshLines, r \in EXRequests : r.store =>
    \A i \in DOMAIN r.data : TagOf(WordAt(r.addr, i)) = l.tag => r.data[i] # l.data

\* Every load and every fetch window sees the last store to each word, and
\* every stored word is followed by its invalidation (LoadStore.cpp 38-197).
ImplementsFlatMemory == Flat!Spec

\* A request of EX is answered, although IC is served first in the cycle the
\* request arrives (LoadStore.cpp 126-129).
EXAnswered == (exReq # <<>>) ~> (exResp # <<>>)
=============================================================================
