------------------------- MODULE Assembling_proofs -------------------------
(***************************************************************************)
(* For all texts of the grammar, whatever text was assembled before: the   *)
(* types of the assembler's object and of the file, the mark of a rejected *)
(* text, that the texts accepted are the legal ones, but for what their    *)
(* vectors hold, and that the memory loaded of them is the listing's.      *)
(* The invariant says that the object and the file are what assembling the *)
(* text makes of an object that an earlier text left; what that is follows *)
(* by induction on the lines: a fold is a sequence of objects, one for     *)
(* every number of lines parsed, and each holds what the lines so far say, *)
(* where Listing has them.                                                 *)
(* Writing and loading are inductions on blocks and on their words: a cell *)
(* has the word of the last block that reaches it, and with blocks in the  *)
(* order of the listing that is the word of the last line that does.       *)
(***************************************************************************)
EXTENDS Assembling, SequenceTheorems, FiniteSetTheorems, WellFoundedInduction, TLAPS

-----------------------------------------------------------------------------
(* Numbers, sequences, and a text parsed line by line *)

\* A set of numbers that is not empty has a least element: the order on numbers is
\* well-founded.
LEMMA LeastNatural ==
  ASSUME NEW T, T \subseteq Nat, T # {}
  PROVE  \E x \in T : \A y \in T : x <= y
<1> DEFINE R == {ss \in Nat \X Nat : ss[1] < ss[2]}
<1>1. R = OpToRel(<, Nat)
  BY DEF OpToRel
<1>2. IsWellFoundedOn(R, Nat)
  BY <1>1, NatLessThanWellFounded
<1>3. \E x \in T : \A y \in T : <<y, x>> \notin R
  <2> HIDE DEF R
  <2> QED
    BY <1>2, WFMin
<1>4. ASSUME NEW x \in T, NEW y \in T, <<y, x>> \notin R PROVE x <= y
  <2>1. x \in Nat /\ y \in Nat
    OBVIOUS
  <2>2. ~(y < x)
    BY <1>4, <2>1
  <2> QED
    BY <2>1, <2>2
<1> QED
  <2> HIDE DEF R
  <2> QED
    BY <1>3, <1>4

\* An element that is not less than any other is the greatest.
LEMMA MaxIs ==
  ASSUME NEW S, S \subseteq Int, NEW m \in S, \A y \in S : m >= y
  PROVE  Max(S) = m
<1> DEFINE Greatest(x) == \A y \in S : x >= y
<1>1. Max(S) = CHOOSE z \in S : Greatest(z)
  BY DEF Max
<1>2. Max(S) \in S /\ Greatest(Max(S))
  <2>1. Greatest(m)
    OBVIOUS
  <2> HIDE DEF Greatest
  <2> QED
    BY <1>1, <2>1, Zenon
<1>3. Max(S) >= m /\ m >= Max(S)
  BY <1>2
<1>4. Max(S) \in Int /\ m \in Int
  BY <1>2
<1> QED
  BY <1>3, <1>4

\* The first numbers are a set whose largest is the last.
LEMMA FirstNumbers ==
  ASSUME NEW N \in Nat, NEW k \in 1 .. N
  PROVE  /\ 1 .. k \in SUBSET (1 .. N) /\ 1 .. k # {}
         /\ (1 .. k) \ {k} = 1 .. k - 1 /\ Max(1 .. k) = k
<1>1. \A x : x \in (1 .. k) \ {k} <=> x \in 1 .. k - 1
  OBVIOUS
<1>2. (1 .. k) \ {k} = 1 .. k - 1
  BY <1>1, Zenon
<1>3. 1 .. k \subseteq Int /\ k \in 1 .. k /\ \A y \in 1 .. k : k >= y
  OBVIOUS
<1>4. Max(1 .. k) = k
  BY <1>3, MaxIs
<1>5. 1 .. k \in SUBSET (1 .. N)
  <2>1. \A x \in 1 .. k : x \in 1 .. N
    OBVIOUS
  <2> QED
    BY <2>1, Zenon
<1> QED
  BY <1>2, <1>3, <1>4, <1>5

\* Parsing a text goes through the states that its lines lead to one by one: the fold is
\* defined for the text.
ParseStates(a, t, N, F) ==
  /\ F[0] = a /\ F[N] = Parsed(a, t)
  /\ \A k \in 1 .. N : F[k] = ParseLine(F[k - 1], t[k])

\* Folding a text is parsing one line after the other: the objects in between, one
\* for every number of lines parsed.
LEMMA ParsedByLines ==
  ASSUME NEW a, NEW t, NEW N \in Nat, DOMAIN t = 1 .. N
  PROVE  \E F : ParseStates(a, t, N, F)
<1> DEFINE Folds(k, f) ==
             f = [s \in SUBSET (1 .. k) |->
                    IF s = {} THEN a ELSE ParseLine(f[s \ {Max(s)}], t[Max(s)])]
           Undefined == {k \in Nat : ~\E f : Folds(k, f)}
<1>1. Undefined = {}
  <2> SUFFICES ASSUME Undefined # {} PROVE FALSE
    OBVIOUS
  <2>1. PICK k \in Undefined : \A m \in Undefined : k <= m
    <3>1. Undefined \subseteq Nat
      OBVIOUS
    <3> HIDE DEF Undefined
    <3> QED
      BY <3>1, LeastNatural
  <2>2. k \in Nat /\ ~\E f : Folds(k, f)
    BY <2>1
  <2>3. CASE k = 0
    <3> DEFINE f == [s \in SUBSET (1 .. 0) |-> a]
    <3>1. \A s \in SUBSET (1 .. 0) : s = {}
      OBVIOUS
    <3>2. Folds(0, f)
      BY <3>1
    <3> QED
      BY <2>2, <2>3, <3>2
  <2>4. CASE k # 0
    <3>1. k - 1 \in Nat /\ k \in Nat /\ ~(k <= k - 1)
      BY <2>2, <2>4
    <3>2. k - 1 \notin Undefined
      BY <2>1, <3>1
    <3>3. PICK g : Folds(k - 1, g)
      BY <3>1, <3>2
    <3> DEFINE f == [s \in SUBSET (1 .. k) |->
                       IF k \in s THEN ParseLine(g[s \ {k}], t[k]) ELSE g[s]]
    <3>4. ASSUME NEW s \in SUBSET (1 .. k)
          PROVE  f[s] = IF s = {} THEN a ELSE ParseLine(f[s \ {Max(s)}], t[Max(s)])
      <4>1. CASE k \in s
        <5>1. s \ {k} \in SUBSET (1 .. k) /\ k \notin s \ {k} /\ s \ {k} \in SUBSET (1 .. k - 1)
          BY <3>1
        <5>2. Max(s) = k
          <6>1. s \subseteq Int /\ \A y \in s : k >= y
            BY <3>1
          <6> QED
            BY <4>1, <6>1, MaxIs
        <5>3. f[s \ {k}] = g[s \ {k}]
          BY <5>1
        <5> QED
          BY <4>1, <5>2, <5>3
      <4>2. CASE k \notin s
        <5>1. s \in SUBSET (1 .. k - 1)
          BY <3>1, <4>2
        <5>2. g[s] = IF s = {} THEN a ELSE ParseLine(g[s \ {Max(s)}], t[Max(s)])
          BY <3>3, <5>1
        <5>3. s \ {Max(s)} \in SUBSET (1 .. k) /\ k \notin s \ {Max(s)}
          BY <4>2
        <5>4. f[s \ {Max(s)}] = g[s \ {Max(s)}] /\ f[s] = g[s]
          BY <4>2, <5>3
        <5> QED
          BY <5>2, <5>4
      <4> QED
        BY <4>1, <4>2
    <3> HIDE DEF Undefined
    <3>5. Folds(k, f)
      <4>1. f = [s \in SUBSET (1 .. k) |-> f[s]]
        OBVIOUS
      <4> HIDE DEF f
      <4> QED
        BY <3>4, <4>1
    <3> HIDE DEF f
    <3> QED
      BY <2>2, <3>5
  <2> QED
    BY <2>3, <2>4
<1> DEFINE iter == CHOOSE f : Folds(N, f)
<1>2. Folds(N, iter)
  <2>1. \E f : Folds(N, f)
    BY <1>1
  <2> HIDE DEF Folds
  <2> QED
    BY <2>1, Zenon
<1>3. Parsed(a, t) = iter[1 .. N]
  BY DEF Parsed, FoldLeft, MapThenFoldSet
<1> HIDE DEF iter
<1> DEFINE F == [k \in 0 .. N |-> iter[1 .. k]]
<1>4. F[0] = a
  <2>1. 1 .. 0 = {} /\ {} \in SUBSET (1 .. N)
    OBVIOUS
  <2>2. iter[{}] = a
    BY <1>2, <2>1
  <2> QED
    BY <2>1, <2>2
<1>5. F[N] = Parsed(a, t)
  BY <1>3
<1>6. ASSUME NEW k \in 1 .. N PROVE F[k] = ParseLine(F[k - 1], t[k])
  <2>1. k - 1 \in 0 .. N /\ k \in 0 .. N
    OBVIOUS
  <2>2. /\ 1 .. k \in SUBSET (1 .. N) /\ 1 .. k # {}
        /\ (1 .. k) \ {k} = 1 .. k - 1 /\ Max(1 .. k) = k
    BY FirstNumbers
  <2>4. iter[1 .. k] = ParseLine(iter[(1 .. k) \ {Max(1 .. k)}], t[Max(1 .. k)])
    <3> DEFINE S == 1 .. k
    <3>1. S \in SUBSET (1 .. N) /\ S # {}
      BY <2>2
    <3>2. iter[S] = ParseLine(iter[S \ {Max(S)}], t[Max(S)])
      <4> HIDE DEF S
      <4> QED
        BY <1>2, <3>1
    <3> QED
      BY <3>2
  <2> QED
    BY <2>1, <2>2, <2>4
<1> HIDE DEF F
<1> QED
  BY <1>4, <1>5, <1>6 DEF ParseStates

\* What holds of zero and of each number behind one it holds of.
LEMMA InductionTo ==
  ASSUME NEW N \in Nat, NEW S, 0 \in S, \A k \in 0 .. N - 1 : k \in S => k + 1 \in S
  PROVE  \A k \in 0 .. N : k \in S
<1> DEFINE T == {k \in 0 .. N : k \notin S}
<1> SUFFICES ASSUME T # {} PROVE FALSE
  OBVIOUS
<1>1. T \subseteq Nat
  OBVIOUS
<1>2. PICK k \in T : \A m \in T : k <= m
  <2> HIDE DEF T
  <2> QED
    BY <1>1, LeastNatural
<1>3. k \in 0 .. N /\ k \notin S /\ k # 0
  BY <1>2
<1>4. k - 1 \in 0 .. N - 1 /\ k - 1 \in 0 .. N /\ ~(k <= k - 1) /\ (k - 1) + 1 = k
  BY <1>3
<1>5. k - 1 \in S
  BY <1>2, <1>4
<1> QED
  BY <1>3, <1>4, <1>5

\* The first element a test holds of.
LEMMA MinIs ==
  ASSUME NEW S, S \subseteq Nat, S # {}
  PROVE  Min(S) \in S /\ \A y \in S : Min(S) <= y
<1> DEFINE Least(x) == \A y \in S : x =< y
<1>1. Min(S) = CHOOSE z \in S : Least(z)
  BY DEF Min
<1>2. \E z \in S : Least(z)
  BY LeastNatural
<1>3. Min(S) \in S /\ Least(Min(S))
  <2> HIDE DEF Least
  <2> QED
    BY <1>1, <1>2, Zenon
<1> QED
  BY <1>3

\* A sum goes through the sums of the first numbers.
LEMMA TotalByNumbers ==
  ASSUME NEW N \in Nat, NEW s \in [1 .. N -> Nat]
  PROVE  \E F \in [0 .. N -> Nat] :
           /\ F[0] = 0 /\ F[N] = Total(s)
           /\ \A k \in 1 .. N : F[k] = F[k - 1] + s[k]
<1> DEFINE Folds(k, f) ==
             f = [ss \in SUBSET (1 .. k) |->
                    IF ss = {} THEN 0 ELSE f[ss \ {Max(ss)}] + s[Max(ss)]]
           Defined == {k \in Nat : \E f : Folds(k, f)}
<1>1. N \in Defined
  <2>1. 0 \in Defined
    <3> DEFINE f == [ss \in SUBSET (1 .. 0) |-> 0]
    <3>1. \A ss \in SUBSET (1 .. 0) : ss = {}
      OBVIOUS
    <3>2. Folds(0, f)
      BY <3>1
    <3> QED
      BY <3>2
  <2>2. ASSUME NEW j \in 0 .. N - 1, j \in Defined PROVE j + 1 \in Defined
    <3> DEFINE k == j + 1
    <3>1. k \in Nat /\ k - 1 = j /\ k \in 1 .. N /\ k \notin 1 .. j /\ j \in Nat
      OBVIOUS
    <3>3. PICK g : Folds(j, g)
      BY <2>2
    <3> DEFINE f == [ss \in SUBSET (1 .. k) |->
                       IF k \in ss THEN g[ss \ {k}] + s[k] ELSE g[ss]]
    <3> HIDE DEF k
    <3>4. ASSUME NEW ss \in SUBSET (1 .. k)
          PROVE  f[ss] = IF ss = {} THEN 0 ELSE f[ss \ {Max(ss)}] + s[Max(ss)]
      <4>1. CASE k \in ss
        <5>1. ss \ {k} \in SUBSET (1 .. k) /\ k \notin ss \ {k} /\ ss \ {k} \in SUBSET (1 .. k - 1)
          BY <3>1
        <5>2. Max(ss) = k
          <6>1. ss \subseteq Int /\ \A y \in ss : k >= y
            BY <3>1
          <6> QED
            BY <4>1, <6>1, MaxIs
        <5>3. f[ss \ {k}] = g[ss \ {k}]
          BY <5>1
        <5> QED
          BY <4>1, <5>2, <5>3
      <4>2. CASE k \notin ss
        <5>1. ss \in SUBSET (1 .. j)
          <6>1. \A y \in ss : y \in 1 .. k /\ y # k
            BY <4>2
          <6> QED
            BY <3>1, <6>1
        <5>2. g[ss] = IF ss = {} THEN 0 ELSE g[ss \ {Max(ss)}] + s[Max(ss)]
          BY <3>3, <5>1
        <5>3. ss \ {Max(ss)} \in SUBSET (1 .. k) /\ k \notin ss \ {Max(ss)}
          BY <4>2
        <5>4. f[ss \ {Max(ss)}] = g[ss \ {Max(ss)}] /\ f[ss] = g[ss]
          BY <4>2, <5>3
        <5> QED
          BY <5>2, <5>4
      <4> QED
        BY <4>1, <4>2
    <3>5. Folds(k, f)
      <4>1. f = [ss \in SUBSET (1 .. k) |-> f[ss]]
        OBVIOUS
      <4> HIDE DEF f
      <4> QED
        BY <3>4, <4>1
    <3>6. k \in Defined
      <4> HIDE DEF f, Folds
      <4> QED
        BY <3>1, <3>5
    <3> QED
      BY <3>6 DEF k
  <2>3. \A k \in 0 .. N : k \in Defined
    <3> HIDE DEF Defined
    <3> QED
      BY <2>1, <2>2, InductionTo
  <2>4. N \in 0 .. N
    OBVIOUS
  <2> HIDE DEF Defined
  <2> QED
    BY <2>3, <2>4
<1> DEFINE iter == CHOOSE f : Folds(N, f)
<1>2. Folds(N, iter)
  <2>1. \E f : Folds(N, f)
    BY <1>1
  <2> HIDE DEF Folds
  <2> QED
    BY <2>1, Zenon
<1>3. Total(s) = iter[1 .. N]
  BY DEF Total, FoldLeft, MapThenFoldSet
<1> HIDE DEF iter
<1> DEFINE F == [k \in 0 .. N |-> iter[1 .. k]]
<1>4. F[0] = 0
  <2>1. 1 .. 0 = {} /\ {} \in SUBSET (1 .. N)
    OBVIOUS
  <2>2. iter[{}] = 0
    BY <1>2, <2>1
  <2> QED
    BY <2>1, <2>2
<1>5. F[N] = Total(s)
  BY <1>3
<1>6. ASSUME NEW k \in 1 .. N PROVE F[k] = F[k - 1] + s[k]
  <2>1. k - 1 \in 0 .. N /\ k \in 0 .. N
    OBVIOUS
  <2>2. /\ 1 .. k \in SUBSET (1 .. N) /\ 1 .. k # {}
        /\ (1 .. k) \ {k} = 1 .. k - 1 /\ Max(1 .. k) = k
    BY FirstNumbers
  <2>4. iter[1 .. k] = iter[(1 .. k) \ {Max(1 .. k)}] + s[Max(1 .. k)]
    <3> DEFINE S == 1 .. k
    <3>1. S \in SUBSET (1 .. N) /\ S # {}
      BY <2>2
    <3>2. iter[S] = iter[S \ {Max(S)}] + s[Max(S)]
      <4> HIDE DEF S
      <4> QED
        BY <1>2, <3>1
    <3> QED
      BY <3>2
  <2> QED
    BY <2>1, <2>2, <2>4
<1>7. F \in [0 .. N -> Nat]
  <2> DEFINE S == {k \in 0 .. N : F[k] \in Nat}
  <2>1. 0 \in S
    BY <1>4
  <2>2. ASSUME NEW k \in 0 .. N - 1, k \in S PROVE k + 1 \in S
    <3>1. k + 1 \in 1 .. N /\ k + 1 \in 0 .. N /\ (k + 1) - 1 = k
      OBVIOUS
    <3>2. F[k + 1] = F[k] + s[k + 1] /\ s[k + 1] \in Nat
      BY <1>6, <3>1
    <3>3. F[k] \in Nat
      BY <2>2
    <3> HIDE DEF F
    <3> QED
      BY <3>1, <3>2, <3>3
  <2>3. \A k \in 0 .. N : k \in S
    <3> HIDE DEF S
    <3> QED
      BY <2>1, <2>2, InductionTo
  <2> QED
    BY <2>3
<1> HIDE DEF F
<1> QED
  BY <1>4, <1>5, <1>6, <1>7

-----------------------------------------------------------------------------
(* Sums of lengths *)

\* Sums are numbers.
LEMMA TotalType ==
  ASSUME NEW N \in Nat, NEW s \in [1 .. N -> Nat]
  PROVE  Total(s) \in Nat
<1>1. PICK F \in [0 .. N -> Nat] : F[N] = Total(s)
  BY TotalByNumbers
<1> QED
  BY <1>1

\* One number more adds to a sum.
LEMMA TotalAppend ==
  ASSUME NEW N \in Nat, NEW s \in [1 .. N -> Nat], NEW r \in [1 .. N + 1 -> Nat],
         \A n \in 1 .. N : r[n] = s[n]
  PROVE  Total(r) = Total(s) + r[N + 1]
<1>1. PICK F \in [0 .. N -> Nat] :
        F[0] = 0 /\ F[N] = Total(s) /\ \A k \in 1 .. N : F[k] = F[k - 1] + s[k]
  BY TotalByNumbers
<1>2. PICK G \in [0 .. N + 1 -> Nat] :
        G[0] = 0 /\ G[N + 1] = Total(r) /\ \A k \in 1 .. N + 1 : G[k] = G[k - 1] + r[k]
  BY TotalByNumbers, N + 1 \in Nat
<1> DEFINE S == {k \in 0 .. N : F[k] = G[k]}
<1>3. 0 \in S
  BY <1>1, <1>2
<1>4. ASSUME NEW k \in 0 .. N - 1, k \in S PROVE k + 1 \in S
  <2>1. k + 1 \in 1 .. N /\ k + 1 \in 1 .. N + 1 /\ (k + 1) - 1 = k /\ k + 1 \in 0 .. N
    OBVIOUS
  <2>2. F[k + 1] = F[k] + s[k + 1] /\ G[k + 1] = G[k] + r[k + 1]
    BY <1>1, <1>2, <2>1
  <2>3. F[k + 1] = G[k + 1]
    BY <1>4, <2>1, <2>2
  <2> QED
    BY <2>1, <2>3
<1>5. \A k \in 0 .. N : k \in S
  <2> HIDE DEF S
  <2> QED
    BY <1>3, <1>4, InductionTo
<1>6. F[N] = G[N]
  BY <1>5
<1>7. G[N + 1] = G[N] + r[N + 1]
  <2>1. N + 1 \in 1 .. N + 1 /\ (N + 1) - 1 = N
    OBVIOUS
  <2> QED
    BY <1>2, <2>1
<1> QED
  BY <1>1, <1>2, <1>6, <1>7

\* The order of additions does not matter.
LEMMA SumsRaised ==
  \A a, b, x \in Nat : a + (b + x) = (a + b) + x /\ (a + x) + b = (a + b) + x
  OBVIOUS

\* A sum grows with one of its numbers.
LEMMA TotalRaise ==
  ASSUME NEW N \in Nat, NEW s \in [1 .. N -> Nat], NEW r \in [1 .. N -> Nat],
         NEW j \in 1 .. N, NEW x \in Nat, r[j] = s[j] + x,
         \A n \in 1 .. N : n # j => r[n] = s[n]
  PROVE  Total(r) = Total(s) + x
<1>1. PICK F \in [0 .. N -> Nat] :
        F[0] = 0 /\ F[N] = Total(s) /\ \A k \in 1 .. N : F[k] = F[k - 1] + s[k]
  BY TotalByNumbers
<1>2. PICK G \in [0 .. N -> Nat] :
        G[0] = 0 /\ G[N] = Total(r) /\ \A k \in 1 .. N : G[k] = G[k - 1] + r[k]
  BY TotalByNumbers
<1> DEFINE S == {k \in 0 .. N : G[k] = F[k] + (IF k >= j THEN x ELSE 0)}
<1>3. 0 \in S
  BY <1>1, <1>2
<1>4. ASSUME NEW k \in 0 .. N - 1, k \in S PROVE k + 1 \in S
  <2> DEFINE m == k + 1
  <2>1. m \in 1 .. N /\ m - 1 = k /\ m \in 0 .. N /\ k \in 0 .. N
    OBVIOUS
  <2> HIDE DEF m
  <2>2. F[m] = F[k] + s[m] /\ G[m] = G[k] + r[m]
    BY <1>1, <1>2, <2>1
  <2>3. G[k] = F[k] + (IF k >= j THEN x ELSE 0)
    BY <1>4
  <2>4. F[k] \in Nat /\ G[k] \in Nat /\ s[m] \in Nat /\ r[m] \in Nat /\ F[m] \in Nat
    BY <2>1
  <2>7. F[k] + (s[m] + x) = (F[k] + s[m]) + x /\ (F[k] + x) + s[m] = (F[k] + s[m]) + x
    <3>1. F[k] \in Nat /\ s[m] \in Nat /\ x \in Nat
      BY <2>4
    <3> QED
      BY <3>1, SumsRaised, Zenon
  <2>5. G[m] = F[m] + (IF m >= j THEN x ELSE 0)
    <3>1. CASE m = j
      <4>1. r[m] = s[m] + x
        BY <3>1
      <4>2. ~(k >= j) /\ m >= j
        BY <2>1, <3>1
      <4>3. G[k] = F[k]
        BY <2>3, <2>4, <4>2
      <4>4. G[m] = F[m] + x
        <5>1. F[k] + (s[m] + x) = (F[k] + s[m]) + x
          BY <2>7, Zenon
        <5>2. G[m] = F[k] + (s[m] + x)
          BY <2>2, <4>1, <4>3, Zenon
        <5> QED
          BY <2>2, <5>1, <5>2, Zenon
      <4> QED
        BY <4>2, <4>4
    <3>2. CASE m # j
      <4>1. r[m] = s[m]
        BY <2>1, <3>2
      <4>2. m >= j <=> k >= j
        BY <2>1, <3>2
      <4>3. CASE k >= j
        <5>1. G[k] = F[k] + x
          BY <2>3, <4>3
        <5>2. G[m] = F[m] + x
          <6>1. (F[k] + x) + s[m] = (F[k] + s[m]) + x
            BY <2>7, Zenon
          <6>2. G[m] = (F[k] + x) + s[m]
            BY <2>2, <4>1, <5>1, Zenon
          <6> QED
            BY <2>2, <6>1, <6>2, Zenon
        <5> QED
          BY <4>2, <4>3, <5>2
      <4>4. CASE ~(k >= j)
        <5>1. G[k] = F[k]
          BY <2>3, <2>4, <4>4
        <5>2. G[m] = F[m] + 0
          BY <2>2, <2>4, <4>1, <5>1
        <5> QED
          BY <4>2, <4>4, <5>2
      <4> QED
        BY <4>3, <4>4
    <3> QED
      BY <3>1, <3>2
  <2>6. m \in S
    BY <2>1, <2>5
  <2> QED
    BY <2>6 DEF m
<1>5. \A k \in 0 .. N : k \in S
  <2> HIDE DEF S
  <2> QED
    BY <1>3, <1>4, InductionTo
<1>6. G[N] = F[N] + x
  <2>1. N \in 0 .. N /\ N >= j
    OBVIOUS
  <2>2. N \in S
    BY <1>5, <2>1
  <2> QED
    BY <2>1, <2>2
<1> QED
  BY <1>1, <1>2, <1>6

\* The sum of the first numbers is no larger than that of all.
LEMMA TotalOfFirst ==
  ASSUME NEW N \in Nat, NEW s \in [1 .. N -> Nat], NEW M \in 0 .. N,
         NEW r \in [1 .. M -> Nat], \A n \in 1 .. M : r[n] = s[n]
  PROVE  Total(r) <= Total(s)
<1>1. PICK F \in [0 .. N -> Nat] :
        F[0] = 0 /\ F[N] = Total(s) /\ \A k \in 1 .. N : F[k] = F[k - 1] + s[k]
  BY TotalByNumbers
<1>2. PICK G \in [0 .. M -> Nat] :
        G[0] = 0 /\ G[M] = Total(r) /\ \A k \in 1 .. M : G[k] = G[k - 1] + r[k]
  BY TotalByNumbers, M \in Nat
<1> DEFINE S == {k \in 0 .. N : IF k <= M THEN G[k] = F[k] ELSE G[M] <= F[k]}
<1>3. 0 \in S
  BY <1>1, <1>2
<1>4. ASSUME NEW k \in 0 .. N - 1, k \in S PROVE k + 1 \in S
  <2> DEFINE m == k + 1
  <2>1. m \in 1 .. N /\ m - 1 = k /\ m \in 0 .. N /\ k \in 0 .. N /\ M \in 0 .. M
    OBVIOUS
  <2> HIDE DEF m
  <2>2. F[m] = F[k] + s[m]
    BY <1>1, <2>1
  <2>3. F[k] \in Nat /\ s[m] \in Nat /\ F[m] \in Nat /\ G[M] \in Nat
    BY <2>1
  <2>4. IF k <= M THEN G[k] = F[k] ELSE G[M] <= F[k]
    BY <1>4
  <2>5. CASE m <= M
    <3>1. m \in 1 .. M /\ k <= M
      BY <2>1, <2>5
    <3>2. G[m] = G[k] + r[m] /\ r[m] = s[m]
      BY <1>2, <2>1, <3>1
    <3>3. G[m] = F[m]
      BY <2>2, <2>4, <3>1, <3>2
    <3>4. m \in S
      BY <2>1, <2>5, <3>3
    <3> QED
      BY <3>4 DEF m
  <2>6. CASE ~(m <= M)
    <3>1. G[M] <= F[k]
      <4>1. CASE k = M
        BY <2>3, <2>4, <4>1
      <4>2. CASE k # M
        BY <2>1, <2>4, <2>6, <4>2
      <4> QED
        BY <4>1, <4>2
    <3>2. m \in S
      BY <2>1, <2>2, <2>3, <2>6, <3>1
    <3> QED
      BY <3>2 DEF m
  <2> QED
    BY <2>5, <2>6
<1>5. \A k \in 0 .. N : k \in S
  <2> HIDE DEF S
  <2> QED
    BY <1>3, <1>4, InductionTo
<1>6. G[M] <= F[N]
  <2>1. N \in 0 .. N /\ (N <= M => N = M)
    OBVIOUS
  <2>2. N \in S /\ F[N] \in Nat
    BY <1>5, <2>1
  <2> QED
    BY <2>1, <2>2
<1> QED
  BY <1>1, <1>2, <1>6

\* Sequences put behind each other are a sequence of the same elements.
LEMMA FlattenType ==
  ASSUME NEW X, NEW seqs \in Seq(Seq(X))
  PROVE  FlattenSeq(seqs) \in Seq(X)
<1> DEFINE N == Len(seqs)
           Flattens(n, f) ==
             f = [i \in 1 .. n |-> IF i = 1 THEN seqs[i] ELSE f[i - 1] \o seqs[i]]
           Defined == {n \in 0 .. N : \E f \in [1 .. n -> Seq(X)] : Flattens(n, f)}
<1>1. N \in Nat /\ \A i \in 1 .. N : seqs[i] \in Seq(X)
  OBVIOUS
<1>2. CASE N = 0
  <2>1. seqs = << >>
    BY <1>2
  <2>2. FlattenSeq(seqs) = << >>
    BY <1>2, <2>1 DEF FlattenSeq
  <2> QED
    BY <2>2
<1>3. CASE N # 0
  <2>1. 0 \in Defined
    <3> DEFINE f == [i \in 1 .. 0 |-> << >>]
    <3>1. f \in [1 .. 0 -> Seq(X)] /\ Flattens(0, f)
      OBVIOUS
    <3>2. 0 \in 0 .. N
      BY <1>1
    <3> HIDE DEF f, Flattens, N
    <3> QED
      BY <3>1, <3>2
  <2>2. ASSUME NEW n \in 0 .. N - 1, n \in Defined PROVE n + 1 \in Defined
    <3> HIDE DEF N
    <3>1. PICK g \in [1 .. n -> Seq(X)] : Flattens(n, g)
      BY <2>2
    <3> DEFINE new == IF n + 1 = 1 THEN seqs[1] ELSE g[n] \o seqs[n + 1]
               f == [i \in 1 .. n + 1 |-> IF i = n + 1 THEN new ELSE g[i]]
    <3>2. n \in Nat /\ n + 1 \in 1 .. N /\ n + 1 \in 0 .. N /\ seqs[n + 1] \in Seq(X)
      BY <1>1
    <3>3. new \in Seq(X)
      <4>1. CASE n = 0
        BY <3>2, <4>1
      <4>2. CASE n # 0
        <5>1. g[n] \in Seq(X)
          BY <3>2, <4>2
        <5> QED
          BY <3>2, <4>2, <5>1
      <4> QED
        BY <4>1, <4>2
    <3>4. f \in [1 .. n + 1 -> Seq(X)]
      <4>1. ASSUME NEW i \in 1 .. n + 1, i # n + 1 PROVE g[i] \in Seq(X)
        BY <3>2, <4>1
      <4> HIDE DEF new
      <4> QED
        BY <3>3, <4>1
    <3>5. ASSUME NEW i \in 1 .. n + 1
          PROVE  f[i] = IF i = 1 THEN seqs[i] ELSE f[i - 1] \o seqs[i]
      <4>1. CASE i = n + 1
        <5>1. f[i] = new
          BY <4>1
        <5>2. i # 1 => i - 1 \in 1 .. n + 1 /\ i - 1 # n + 1 /\ i - 1 = n
          BY <3>2, <4>1
        <5>3. i # 1 => f[i - 1] = g[n]
          BY <5>2
        <5> QED
          BY <4>1, <5>1, <5>3
      <4>2. CASE i # n + 1
        <5>1. i \in 1 .. n /\ i - 1 # n + 1 /\ (i # 1 => i - 1 \in 1 .. n + 1)
          BY <3>2, <4>2
        <5>2. g[i] = IF i = 1 THEN seqs[i] ELSE g[i - 1] \o seqs[i]
          BY <3>1, <5>1
        <5>3. f[i] = g[i] /\ (i # 1 => f[i - 1] = g[i - 1])
          BY <4>2, <5>1
        <5> QED
          BY <5>2, <5>3
      <4> QED
        BY <4>1, <4>2
    <3>6. Flattens(n + 1, f)
      <4>1. f = [i \in 1 .. n + 1 |-> f[i]]
        OBVIOUS
      <4> HIDE DEF f
      <4> QED
        BY <3>5, <4>1
    <3> HIDE DEF f, Flattens
    <3> QED
      BY <3>2, <3>4, <3>6
  <2>3. N \in Defined
    <3>1. \A n \in 0 .. N : n \in Defined
      <4> HIDE DEF Defined, N
      <4> QED
        BY <1>1, <2>1, <2>2, InductionTo
    <3> HIDE DEF Defined, N
    <3> QED
      BY <1>1, <3>1
  <2> DEFINE flatten == CHOOSE f : Flattens(N, f)
  <2>4. Flattens(N, flatten)
    <3>1. \E f : Flattens(N, f)
      BY <2>3
    <3> HIDE DEF Flattens, N
    <3> QED
      BY <3>1, Zenon
  <2>5. FlattenSeq(seqs) = flatten[N]
    BY <1>3 DEF FlattenSeq
  <2> HIDE DEF flatten
  <2> DEFINE S == {n \in 0 .. N : n # 0 => flatten[n] \in Seq(X)}
  <2>6. 0 \in S
    BY <1>1
  <2>7. ASSUME NEW n \in 0 .. N - 1, n \in S PROVE n + 1 \in S
    <3>1. n + 1 \in 1 .. N /\ n + 1 \in 0 .. N /\ (n + 1) - 1 = n
      BY <1>1
    <3>2. flatten[n + 1] = IF n + 1 = 1 THEN seqs[n + 1] ELSE flatten[n] \o seqs[n + 1]
      BY <2>4, <3>1
    <3>3. n # 0 => flatten[n] \in Seq(X)
      BY <2>7
    <3>4. seqs[n + 1] \in Seq(X)
      BY <1>1, <3>1
    <3>5. flatten[n + 1] \in Seq(X)
      <4> HIDE DEF N
      <4> QED
        BY <3>1, <3>2, <3>3, <3>4
    <3> QED
      BY <3>1, <3>5
  <2>8. \A n \in 0 .. N : n \in S
    <3> HIDE DEF S, N
    <3> QED
      BY <1>1, <2>6, <2>7, InductionTo
  <2> QED
    BY <1>1, <1>3, <2>5, <2>8
<1> QED
  BY <1>2, <1>3

\* What SelectInSeq finds is the first of those that pass the test.
LEMMA FirstOf ==
  ASSUME NEW N \in Nat, NEW I, I \subseteq 1 .. N, NEW k, k = IF I # {} THEN Min(I) ELSE 0
  PROVE  /\ k \in 0 .. N /\ (k = 0 <=> I = {})
         /\ k # 0 => k \in I /\ \A i \in I : k <= i
<1>1. I \subseteq Nat
  OBVIOUS
<1>2. I # {} => Min(I) \in I /\ \A i \in I : Min(I) <= i
  BY <1>1, MinIs
<1>3. CASE I = {}
  BY <1>3
<1>4. CASE I # {}
  <2>1. k \in I /\ \A i \in I : k <= i
    BY <1>2, <1>4
  <2>2. k \in 1 .. N
    BY <2>1
  <2> QED
    BY <1>4, <2>1, <2>2
<1> QED
  BY <1>3, <1>4

-----------------------------------------------------------------------------
(* Blocks of instructions *)

Blocks(X, I) == [label : X, instrs : Seq(I)]
InstrsOf(blocks) == UNION {Range(blocks[k].instrs) : k \in DOMAIN blocks}

\* The lengths of a block and of the blocks.
LEMMA LengthsType ==
  ASSUME NEW I, \A i \in I : i.length \in Nat, NEW instrs \in Seq(I)
  PROVE  Lengths(instrs) \in [1 .. Len(instrs) -> Nat] /\ Total(Lengths(instrs)) \in Nat
<1> DEFINE s == Lengths(instrs)
           N == Len(instrs)
<1>1. N \in Nat /\ s \in [1 .. N -> Nat]
  BY DEF Lengths
<1> HIDE DEF s, N
<1>2. Total(s) \in Nat
  BY <1>1, TotalType
<1> QED
  BY <1>1, <1>2 DEF s, N

\* The bytes of one instruction.
LEMMA LengthOfOne ==
  ASSUME NEW instr, instr.length \in Nat
  PROVE  Total(Lengths(<<instr>>)) = instr.length
<1> DEFINE s == Lengths(<<instr>>)
<1>1. s \in [1 .. 1 -> Nat] /\ s[1] = instr.length
  BY DEF Lengths
<1> HIDE DEF s
<1>2. PICK F \in [0 .. 1 -> Nat] : /\ F[0] = 0 /\ F[1] = Total(s)
                                   /\ \A k \in 1 .. 1 : F[k] = F[k - 1] + s[k]
  BY <1>1, TotalByNumbers, 1 \in Nat
<1>3. F[1] = F[0] + s[1]
  BY <1>2
<1> QED
  BY <1>1, <1>2, <1>3 DEF s

\* An instruction appended adds its length.
LEMMA LengthOfMore ==
  ASSUME NEW I, \A i \in I : i.length \in Nat, NEW instrs \in Seq(I), NEW instr \in I
  PROVE  Total(Lengths(Append(instrs, instr))) = Total(Lengths(instrs)) + instr.length
<1> DEFINE s == Lengths(instrs)
           r == Lengths(Append(instrs, instr))
           N == Len(instrs)
<1>1. N \in Nat /\ Append(instrs, instr) \in Seq(I) /\ Len(Append(instrs, instr)) = N + 1
  OBVIOUS
<1>2. s \in [1 .. N -> Nat] /\ r \in [1 .. N + 1 -> Nat]
  BY <1>1, LengthsType
<1>3. r[N + 1] = instr.length /\ \A k \in 1 .. N : r[k] = s[k]
  BY <1>1 DEF Lengths
<1> HIDE DEF s, r, N
<1>4. Total(r) = Total(s) + r[N + 1]
  BY <1>1, <1>2, <1>3, TotalAppend
<1> QED
  BY <1>3, <1>4 DEF s, r

\* The sizes of blocks and their sum are numbers.
LEMMA SizesType ==
  ASSUME NEW X, NEW I, \A i \in I : i.length \in Nat, NEW blocks \in Seq(Blocks(X, I))
  PROVE  /\ [k \in DOMAIN blocks |-> Total(Lengths(blocks[k].instrs))] \in [1 .. Len(blocks) -> Nat]
         /\ SizeOf(blocks) \in Nat
<1> DEFINE s == [k \in DOMAIN blocks |-> Total(Lengths(blocks[k].instrs))]
<1>1. ASSUME NEW k \in DOMAIN blocks PROVE Total(Lengths(blocks[k].instrs)) \in Nat
  <2>1. blocks[k] \in Blocks(X, I)
    OBVIOUS
  <2>2. blocks[k].instrs \in Seq(I)
    BY <2>1 DEF Blocks
  <2> QED
    BY <2>2, LengthsType
<1>2. s \in [1 .. Len(blocks) -> Nat]
  BY <1>1
<1>3. Total(s) \in Nat
  <2> HIDE DEF s
  <2> QED
    BY <1>2, TotalType
<1> QED
  BY <1>2, <1>3 DEF SizeOf

\* A block more, without instructions.
LEMMA BlockAdded ==
  ASSUME NEW X, NEW I, NEW blocks \in Seq(Blocks(X, I)), NEW label \in X
  PROVE  LET new == NewBlock(blocks, label) IN
         /\ new \in Seq(Blocks(X, I))
         /\ LabelsOf(new) = LabelsOf(blocks) \union {label}
         /\ InstrsOf(new) = InstrsOf(blocks)
         /\ (\A i \in I : i.length \in Nat) => SizeOf(new) = SizeOf(blocks)
<1> DEFINE b == [label |-> label, instrs |-> << >>]
           new == Append(blocks, b)
           N == Len(blocks)
<1>1. b \in Blocks(X, I) /\ N \in Nat
  BY DEF Blocks
<1>2. /\ new \in Seq(Blocks(X, I)) /\ Len(new) = N + 1 /\ new[N + 1] = b
      /\ \A k \in 1 .. N : new[k] = blocks[k]
  <2> HIDE DEF b
  <2> QED
    BY <1>1
<1>3. DOMAIN blocks = 1 .. N /\ DOMAIN new = 1 .. N + 1
  <2> HIDE DEF new
  <2> QED
    BY <1>2
<1>4. \A k : k \in 1 .. N + 1 <=> k \in 1 .. N \/ k = N + 1
  BY <1>1
<1>5. LabelsOf(new) = LabelsOf(blocks) \union {label}
  <2>1. b.label = label
    OBVIOUS
  <2> HIDE DEF new, b, N
  <2>2. \A l : l \in LabelsOf(new) <=> l \in LabelsOf(blocks) \union {label}
    BY <1>2, <1>3, <1>4, <2>1 DEF LabelsOf
  <2> QED
    BY <2>2, Zenon
<1>6. InstrsOf(new) = InstrsOf(blocks)
  <2>1. Range(b.instrs) = {}
    BY DEF Range
  <2> HIDE DEF new, b, N
  <2>2. \A i : i \in InstrsOf(new) <=> i \in InstrsOf(blocks)
    BY <1>2, <1>3, <1>4, <2>1 DEF InstrsOf
  <2> QED
    BY <2>2, Zenon
<1>7. ASSUME \A i \in I : i.length \in Nat PROVE SizeOf(new) = SizeOf(blocks)
  <2> DEFINE s == [k \in DOMAIN blocks |-> Total(Lengths(blocks[k].instrs))]
             r == [k \in DOMAIN new |-> Total(Lengths(new[k].instrs))]
  <2>1. s \in [1 .. N -> Nat] /\ r \in [1 .. Len(new) -> Nat]
    <3> HIDE DEF new
    <3> QED
      BY <1>2, <1>7, SizesType
  <2>2. Total(Lengths(b.instrs)) = 0
    <3>1. Lengths(b.instrs) \in [1 .. 0 -> Nat]
      BY DEF Lengths
    <3>2. PICK F \in [0 .. 0 -> Nat] : F[0] = 0 /\ F[0] = Total(Lengths(b.instrs))
      BY <3>1, TotalByNumbers, 0 \in Nat
    <3> QED
      BY <3>2
  <2> HIDE DEF new, b, N
  <2>3. r[N + 1] = 0
    BY <1>1, <1>2, <1>3, <2>2
  <2>4. \A k \in 1 .. N : r[k] = s[k]
    BY <1>2, <1>3, <1>4
  <2>5. Total(r) = Total(s) + r[N + 1]
    <3> HIDE DEF r, s
    <3> QED
      BY <1>1, <1>2, <2>1, <2>4, TotalAppend
  <2>6. Total(s) \in Nat
    <3> HIDE DEF s
    <3> QED
      BY <1>1, <2>1, TotalType
  <2>7. SizeOf(new) = Total(r) /\ SizeOf(blocks) = Total(s)
    BY DEF SizeOf
  <2> HIDE DEF r, s
  <2> QED
    BY <2>3, <2>5, <2>6, <2>7
<1> HIDE DEF new
<1> QED
  BY <1>2, <1>5, <1>6, <1>7 DEF NewBlock, new

\* An instruction more, in the block of a label.
LEMMA InstrAdded ==
  ASSUME NEW X, NEW I, NEW blocks \in Seq(Blocks(X, I)), NEW label \in X, NEW instr \in I
  PROVE  LET new == AddTo(blocks, label, instr) IN
         /\ new \in Seq(Blocks(X, I))
         /\ LabelsOf(new) = LabelsOf(blocks) \union {label}
         /\ InstrsOf(new) = InstrsOf(blocks) \union {instr}
         /\ (\A i \in I : i.length \in Nat) => SizeOf(new) = SizeOf(blocks) + instr.length
<1> DEFINE j == SelectInSeq(blocks, LAMBDA b : b.label = label)
           N == Len(blocks)
           new == AddTo(blocks, label, instr)
<1>1. N \in Nat /\ DOMAIN blocks = 1 .. N
  OBVIOUS
<1>2. /\ j \in 0 .. N /\ (j = 0 <=> label \notin LabelsOf(blocks))
      /\ j # 0 => blocks[j].label = label
  <2> DEFINE I0 == {i \in 1 .. Len(blocks) : blocks[i].label = label}
  <2>1. j = IF I0 # {} THEN Min(I0) ELSE 0
    BY DEF SelectInSeq
  <2>2. I0 = {} <=> label \notin LabelsOf(blocks)
    BY DEF LabelsOf
  <2>3. I0 \subseteq 1 .. N
    OBVIOUS
  <2> HIDE DEF j, I0, N
  <2>4. j \in 0 .. N /\ (j = 0 <=> I0 = {}) /\ (j # 0 => j \in I0)
    BY <1>1, <2>1, <2>3, FirstOf
  <2> QED
    BY <2>2, <2>4 DEF I0
<1>3. new = IF j = 0 THEN Append(blocks, [label |-> label, instrs |-> <<instr>>])
            ELSE [blocks EXCEPT ![j].instrs = Append(@, instr)]
  BY DEF AddTo
<1> HIDE DEF j, new, N
<1>4. CASE j = 0
  <2> DEFINE b == [label |-> label, instrs |-> <<instr>>]
  <2>1. b \in Blocks(X, I) /\ b.label = label /\ Range(b.instrs) = {instr} /\ b.instrs = <<instr>>
    BY DEF Blocks, Range
  <2>2. new = Append(blocks, b)
    BY <1>3, <1>4
  <2> HIDE DEF b
  <2>3. /\ new \in Seq(Blocks(X, I)) /\ Len(new) = N + 1 /\ new[N + 1] = b
        /\ DOMAIN new = 1 .. N + 1 /\ \A k \in 1 .. N : new[k] = blocks[k]
    BY <2>1, <2>2 DEF N
  <2>4. \A k : k \in 1 .. N + 1 <=> k \in 1 .. N \/ k = N + 1
    BY <1>1
  <2>5. LabelsOf(new) = LabelsOf(blocks) \union {label}
    <3>1. \A l : l \in LabelsOf(new) <=> l \in LabelsOf(blocks) \union {label}
      BY <1>1, <2>1, <2>3, <2>4 DEF LabelsOf
    <3> QED
      BY <3>1, Zenon
  <2>6. InstrsOf(new) = InstrsOf(blocks) \union {instr}
    <3>1. \A i : i \in InstrsOf(new) <=> i \in InstrsOf(blocks) \union {instr}
      BY <1>1, <2>1, <2>3, <2>4 DEF InstrsOf
    <3> QED
      BY <3>1, Zenon
  <2>7. ASSUME \A i \in I : i.length \in Nat PROVE SizeOf(new) = SizeOf(blocks) + instr.length
    <3> DEFINE s == [k \in DOMAIN blocks |-> Total(Lengths(blocks[k].instrs))]
               r == [k \in DOMAIN new |-> Total(Lengths(new[k].instrs))]
    <3>1. s \in [1 .. N -> Nat] /\ r \in [1 .. N + 1 -> Nat]
      BY <2>3, <2>7, SizesType DEF N
    <3>2. Total(Lengths(<<instr>>)) = instr.length
      BY <2>7, LengthOfOne
    <3>3. r[N + 1] = instr.length
      <4>1. N + 1 \in DOMAIN new /\ new[N + 1].instrs = <<instr>>
        BY <1>1, <2>1, <2>3
      <4> QED
        BY <3>2, <4>1
    <3>4. \A k \in 1 .. N : r[k] = s[k]
      BY <1>1, <2>3, <2>4
    <3>5. SizeOf(new) = Total(r) /\ SizeOf(blocks) = Total(s)
      BY DEF SizeOf
    <3> HIDE DEF r, s
    <3>6. Total(r) = Total(s) + r[N + 1]
      BY <1>1, <3>1, <3>4, TotalAppend
    <3> QED
      BY <3>3, <3>5, <3>6
  <2> QED
    BY <2>3, <2>5, <2>6, <2>7 DEF new
<1>5. CASE j # 0
  <2> DEFINE old == blocks[j]
             b == [old EXCEPT !.instrs = Append(@, instr)]
  <2>1. j \in 1 .. N
    BY <1>1, <1>2, <1>5
  <2>2. old \in Blocks(X, I) /\ old.label = label
    BY <1>1, <1>2, <1>5, <2>1
  <2>3. old.instrs \in Seq(I)
    BY <2>2 DEF Blocks
  <2>4. b \in Blocks(X, I) /\ b.label = label /\ b.instrs = Append(old.instrs, instr)
    <3>1. Append(old.instrs, instr) \in Seq(I)
      BY <2>3
    <3>2. old \in [label : X, instrs : Seq(I)]
      BY <2>2 DEF Blocks
    <3> HIDE DEF old
    <3>3. old.label \in X /\ DOMAIN old = {"label", "instrs"}
      BY <3>2
    <3>4. ASSUME NEW q \in Seq(I)
          PROVE  LET c == [old EXCEPT !.instrs = q]
                 IN  c \in [label : X, instrs : Seq(I)] /\ c.label = old.label /\ c.instrs = q
      BY <3>2, <3>3, <3>4
    <3>5. b = [old EXCEPT !.instrs = Append(old.instrs, instr)]
      OBVIOUS
    <3> HIDE DEF b
    <3> QED
      BY <2>2, <3>1, <3>4, <3>5 DEF Blocks
  <2>5. new = [blocks EXCEPT ![j] = b]
    BY <1>3, <1>5
  <2> HIDE DEF b
  <2>6. /\ new \in Seq(Blocks(X, I)) /\ Len(new) = N /\ new[j] = b
        /\ DOMAIN new = 1 .. N /\ \A k \in 1 .. N : k # j => new[k] = blocks[k]
    BY <1>1, <2>1, <2>4, <2>5 DEF N
  <2>7. LabelsOf(new) = LabelsOf(blocks) \union {label}
    <3>1. \A k \in 1 .. N : new[k].label = blocks[k].label
      BY <2>2, <2>4, <2>6
    <3>2. LabelsOf(new) = LabelsOf(blocks)
      BY <1>1, <2>6, <3>1 DEF LabelsOf
    <3>3. label \in LabelsOf(blocks)
      BY <1>2, <1>5
    <3> QED
      BY <3>2, <3>3
  <2>8. InstrsOf(new) = InstrsOf(blocks) \union {instr}
    <3>1. Range(b.instrs) = Range(old.instrs) \union {instr}
      <4> DEFINE q == old.instrs
                 p == b.instrs
                 M == Len(q)
      <4>1. /\ M \in Nat /\ DOMAIN q = 1 .. M /\ DOMAIN p = 1 .. M + 1
            /\ p[M + 1] = instr /\ \A k \in 1 .. M : p[k] = q[k]
        BY <2>3, <2>4
      <4> HIDE DEF p, q, M
      <4>2. \A k : k \in 1 .. M + 1 <=> k \in 1 .. M \/ k = M + 1
        BY <4>1
      <4>3. \A i : i \in Range(p) <=> i \in Range(q) \union {instr}
        BY <4>1, <4>2 DEF Range
      <4>4. Range(p) = Range(q) \union {instr}
        BY <4>3, Zenon
      <4> QED
        BY <4>4 DEF p, q
    <3> HIDE DEF old
    <3>2. \A i : i \in InstrsOf(new) <=> i \in InstrsOf(blocks) \union {instr}
      BY <1>1, <2>1, <2>6, <3>1 DEF InstrsOf, old
    <3> QED
      BY <3>2, Zenon
  <2>9. ASSUME \A i \in I : i.length \in Nat PROVE SizeOf(new) = SizeOf(blocks) + instr.length
    <3> DEFINE s == [k \in DOMAIN blocks |-> Total(Lengths(blocks[k].instrs))]
               r == [k \in DOMAIN new |-> Total(Lengths(new[k].instrs))]
    <3>1. s \in [1 .. N -> Nat] /\ r \in [1 .. N -> Nat]
      BY <2>6, <2>9, SizesType DEF N
    <3>2. Total(Lengths(b.instrs)) = Total(Lengths(old.instrs)) + instr.length
      BY <2>3, <2>4, <2>9, LengthOfMore
    <3>3. r[j] = s[j] + instr.length /\ instr.length \in Nat
      BY <1>1, <2>1, <2>6, <2>9, <3>2
    <3>4. \A k \in 1 .. N : k # j => r[k] = s[k]
      BY <1>1, <2>6
    <3>5. SizeOf(new) = Total(r) /\ SizeOf(blocks) = Total(s)
      BY DEF SizeOf
    <3> HIDE DEF r, s
    <3>6. Total(r) = Total(s) + instr.length
      BY <1>1, <2>1, <3>1, <3>3, <3>4, TotalRaise
    <3> QED
      BY <3>5, <3>6
  <2> QED
    BY <2>6, <2>7, <2>8, <2>9 DEF new
<1> QED
  BY <1>4, <1>5

\* The blocks before one are no longer than all of them.
LEMMA BlocksBefore ==
  ASSUME NEW X, NEW I, \A i \in I : i.length \in Nat, NEW blocks \in Seq(Blocks(X, I)),
         NEW m \in 0 .. Len(blocks)
  PROVE  /\ SubSeq(blocks, 1, m) \in Seq(Blocks(X, I))
         /\ SizeOf(SubSeq(blocks, 1, m)) \in Nat
         /\ SizeOf(SubSeq(blocks, 1, m)) <= SizeOf(blocks)
<1> DEFINE first == SubSeq(blocks, 1, m)
           s == [k \in DOMAIN blocks |-> Total(Lengths(blocks[k].instrs))]
           r == [k \in DOMAIN first |-> Total(Lengths(first[k].instrs))]
           N == Len(blocks)
<1>1. /\ first \in Seq(Blocks(X, I)) /\ Len(first) = m /\ DOMAIN first = 1 .. m
      /\ \A k \in 1 .. m : first[k] = blocks[k]
      /\ N \in Nat /\ DOMAIN blocks = 1 .. N /\ m \in 0 .. N
  OBVIOUS
<1> HIDE DEF first, N
<1>2. s \in [1 .. N -> Nat] /\ r \in [1 .. m -> Nat] /\ SizeOf(first) \in Nat
  BY <1>1, SizesType DEF N
<1>3. \A k \in 1 .. m : r[k] = s[k]
  BY <1>1
<1>4. SizeOf(first) = Total(r) /\ SizeOf(blocks) = Total(s)
  BY DEF SizeOf
<1> HIDE DEF r, s
<1>5. Total(r) <= Total(s)
  BY <1>1, <1>2, <1>3, TotalOfFirst
<1> QED
  BY <1>1, <1>2, <1>4, <1>5 DEF first

-----------------------------------------------------------------------------
(* What the object holds of a text: labels, instructions and lines of it only *)

\* The instruction lines that are read, what is kept of them, and the names of blocks.
Readable(line) ==
  /\ line.kind = "instr"
  /\ line.mnemonic \in DOMAIN instrEncodings
  /\ OperandsFit(instrEncodings[line.mnemonic], line.src1.type, line.src2.type)
  /\ LengthIsNumber(line)

Codes(t) == {Encoded(t[n]) : n \in {m \in DOMAIN t : Readable(t[m])}}
Names(t) == {"0", "1"} \union DefinedLabels(t)
Vectors(t) == [addr : {VectorAddr[s] : s \in DOMAIN VectorAddr}, instr : Codes(t)]
LineErrors(t) == {Error("line", t[n], "") : n \in DOMAIN t}

\* Objects that hold lines of a text, with these labels and one of these errors; and
\* those that the text is parsed with.
ObjectsWith(t, labels, errors) ==
  [sectionDict : SUBSET Sections,
   midInstrDict : Seq(Blocks(Names(t), Codes(t))),
   bootInstructions : Seq(Blocks(Names(t), Codes(t))),
   excpVectors : Seq(Vectors(t)),
   currentLabel : Names(t), bootLabel : Names(t),
   currentSection : Sections \union {"none"},
   labelDict : {labels},
   error : errors]

Objects(t, labels) == ObjectsWith(t, labels, {NoError} \union LineErrors(t))

IsText(t) == Len(t) \in Nat /\ DOMAIN t = 1 .. Len(t) /\ \A n \in DOMAIN t : IsLine(t[n])

\* Lines differ in their kinds.
LEMMA KindOfLine ==
  ASSUME NEW line, IsLine(line)
  PROVE  /\ line.kind \in {"comment", "junk", "section", "label", "instr"}
         /\ line.kind = "section" => line.name \in Sections /\ line = Section(line.name)
         /\ line.kind = "label" => IsLabel(line.name)
         /\ line.kind = "instr" => IsOperand(line.src1) /\ IsOperand(line.src2)
<1>1. CASE line \in {Comment, Junk}
  BY <1>1 DEF Comment, Junk
<1>2. CASE \E s \in Sections : line = Section(s)
  BY <1>2 DEF Section
<1> QED
  BY <1>1, <1>2 DEF IsLine

\* The vectors are not the boot, code or data section.
LEMMA OtherSections ==
  \A s \in DOMAIN VectorAddr : s \notin {".boot", ".code", ".data", "none"}
  BY DEF VectorAddr

\* What is known of an instruction that was read.
LEMMA OpcodeIs ==
  ASSUME NEW m \in DOMAIN instrEncodings
  PROVE  /\ instrEncodings[m].opcode \in {NoOpcode} \union (0 .. 63)
         /\ \E item \in Config : /\ instrEncodings[m].opcode = item.opcode
                                 /\ instrEncodings[m].src2 = Sources(item.src2)
<1>1. \E i \in Config : i.mnemonic = m
  BY DEF instrEncodings
<1> DEFINE item == CHOOSE i \in Config : i.mnemonic = m
<1>2. item \in Config
  BY <1>1
<1>3. m \in {i.mnemonic : i \in Config}
  BY <1>1
<1>4. instrEncodings[m] = [opcode |-> item.opcode, src1 |-> Sources(item.src1),
                           src2 |-> Sources(item.src2)]
  BY <1>3 DEF instrEncodings
<1> HIDE DEF item
<1>5. instrEncodings[m].opcode = item.opcode /\ instrEncodings[m].src2 = Sources(item.src2)
  BY <1>4
<1> QED
  BY <1>2, <1>5, ConfigAssumption

\* What is known of an instruction kept: its opcode, operands and length.
LEMMA CodesType ==
  ASSUME NEW t, IsText(t), NEW i \in Codes(t)
  PROVE  /\ i.opcode \in {NoOpcode} \union (0 .. 63)
         /\ IsOperand(i.src1) /\ IsOperand(i.src2)
         /\ i.length \in Nat
<1>1. PICK n \in DOMAIN t : Readable(t[n]) /\ i = Encoded(t[n])
  BY DEF Codes
<1> DEFINE line == t[n]
           enc == instrEncodings[line.mnemonic]
<1>2. /\ i.opcode = enc.opcode /\ i.src1 = line.src1 /\ i.src2 = line.src2
      /\ i.length = InstrLen(enc, line.src1, line.src2)
  BY <1>1 DEF Encoded
<1>3. IsOperand(line.src1) /\ IsOperand(line.src2)
  BY <1>1, KindOfLine DEF IsText, Readable
<1>4. enc.opcode \in {NoOpcode} \union (0 .. 63)
  BY <1>1, OpcodeIs DEF Readable
<1>5. InstrLen(enc, line.src1, line.src2) \in Nat
  <2>1. line.src2.value \in Nat
    BY <1>3 DEF IsOperand
  <2> HIDE DEF enc, line
  <2> QED
    BY <2>1 DEF InstrLen
<1> QED
  BY <1>2, <1>3, <1>4, <1>5

\* A vector gets an instruction: its first one, or another in place of it.
VectorSetTo(vectors, addr, v, new) ==
  \/ /\ \A k \in DOMAIN vectors : vectors[k].addr # addr
     /\ new = Append(vectors, v)
  \/ \E j \in DOMAIN vectors :
       /\ vectors[j].addr = addr /\ DOMAIN new = DOMAIN vectors
       /\ new[j] = v
       /\ \A k \in DOMAIN vectors : k # j => new[k] = vectors[k]

\* A word of a vector replaces the one the vector has, or is a new one (pyasm.py 222-227).
LEMMA VectorSet ==
  ASSUME NEW X, NEW I, NEW vectors \in Seq([addr : X, instr : I]), NEW addr \in X, NEW instr \in I
  PROVE  /\ SetVector(vectors, addr, instr) \in Seq([addr : X, instr : I])
         /\ VectorSetTo(vectors, addr, [addr |-> addr, instr |-> instr],
                        SetVector(vectors, addr, instr))
<1> DEFINE N == Len(vectors)
           I0 == {i \in 1 .. Len(vectors) : vectors[i].addr = addr}
           j == SelectInSeq(vectors, LAMBDA v : v.addr = addr)
           v == [addr |-> addr, instr |-> instr]
           new == SetVector(vectors, addr, instr)
<1>1. N \in Nat /\ DOMAIN vectors = 1 .. N /\ v \in [addr : X, instr : I]
  OBVIOUS
<1>2. j = IF I0 # {} THEN Min(I0) ELSE 0
  BY DEF SelectInSeq
<1>3. new = IF j = 0 THEN Append(vectors, v) ELSE [vectors EXCEPT ![j].instr = instr]
  BY DEF SetVector
<1>4. I0 \subseteq 1 .. N
  OBVIOUS
<1> HIDE DEF j, new, N, v
<1>5. j \in 0 .. N /\ (j = 0 <=> I0 = {}) /\ (j # 0 => j \in I0)
  <2> HIDE DEF I0
  <2> QED
    BY <1>1, <1>2, <1>4, FirstOf
<1>6. CASE j = 0
  <2>1. \A k \in DOMAIN vectors : vectors[k].addr # addr
    BY <1>1, <1>5, <1>6 DEF N
  <2>2. new = Append(vectors, v)
    BY <1>3, <1>6
  <2>3. new \in Seq([addr : X, instr : I])
    BY <1>1, <2>2
  <2> QED
    BY <2>1, <2>2, <2>3 DEF new, v, VectorSetTo
<1>7. CASE j # 0
  <2>1. j \in 1 .. N /\ vectors[j].addr = addr
    BY <1>1, <1>5, <1>7
  <2>2. vectors[j] \in [addr : X, instr : I]
    <3> DEFINE V == [addr : X, instr : I]
    <3>1. vectors \in Seq(V)
      OBVIOUS
    <3> HIDE DEF V
    <3>2. vectors[j] \in V
      BY <1>1, <2>1, <3>1 DEF N
    <3> QED
      BY <3>2 DEF V
  <2>3. [vectors[j] EXCEPT !.instr = instr] = v
    BY <2>1, <2>2 DEF v
  <2>4. new = [vectors EXCEPT ![j] = v]
    BY <1>3, <1>7, <2>3
  <2>5. new \in Seq([addr : X, instr : I]) /\ DOMAIN new = DOMAIN vectors /\ new[j] = v
    BY <1>1, <2>1, <2>4
  <2>6. \A k \in DOMAIN vectors : k # j => new[k] = vectors[k]
    BY <2>4
  <2>7. j \in DOMAIN vectors
    BY <1>1, <2>1
  <2> QED
    BY <2>1, <2>5, <2>6, <2>7 DEF new, v, VectorSetTo
<1> QED
  BY <1>6, <1>7

\* A line keeps the object of its type: what blocks and vectors hold was read from lines
\* of the text, and an error is about one.
LEMMA ParseLineType ==
  ASSUME NEW t, IsText(t), NEW labels, NEW a \in Objects(t, labels), NEW n \in DOMAIN t
  PROVE  ParseLine(a, t[n]) \in Objects(t, labels)
<1> DEFINE line == t[n]
<1>1. IsLine(line)
  BY DEF IsText
<1>2. Reject(a, line) \in Objects(t, labels)
  <2>1. Error("line", line, "") \in LineErrors(t)
    BY DEF LineErrors
  <2> HIDE DEF line
  <2> QED
    BY <2>1 DEF Reject, Objects, ObjectsWith
<1>3. CASE line.kind = "section"
  <2>1. line.name \in Sections
    BY <1>1, <1>3, KindOfLine
  <2>2. EnterSection(a, line) \in Objects(t, labels)
    <3> HIDE DEF line
    <3> QED
      BY <1>2, <2>1 DEF EnterSection, Objects, ObjectsWith
  <2> HIDE DEF line
  <2> QED
    BY <1>3, <2>2 DEF ParseLine, line
<1>4. CASE line.kind = "label"
  <2>1. line.name \in Names(t)
    BY <1>4 DEF Names, DefinedLabels, LabelLines
  <2>2. /\ NewBlock(a.bootInstructions, line.name) \in Seq(Blocks(Names(t), Codes(t)))
        /\ NewBlock(a.midInstrDict, line.name) \in Seq(Blocks(Names(t), Codes(t)))
    BY <2>1, BlockAdded DEF Objects, ObjectsWith
  <2>3. DefineLabel(a, line) \in Objects(t, labels)
    <3> HIDE DEF line
    <3> QED
      BY <1>2, <2>1, <2>2 DEF DefineLabel, LabelPlaced, Objects, ObjectsWith
  <2> QED
    BY <1>4, <2>3 DEF ParseLine
<1>5. CASE line.kind = "instr"
  <2>1. AddInstr(a, line) \in Objects(t, labels)
    <3>1. CASE Readable(line)
      <4> DEFINE i == Encoded(line)
      <4>1. i \in Codes(t)
        BY <3>1 DEF Codes
      <4>2. /\ AddTo(a.bootInstructions, a.bootLabel, i) \in Seq(Blocks(Names(t), Codes(t)))
            /\ AddTo(a.midInstrDict, a.currentLabel, i) \in Seq(Blocks(Names(t), Codes(t)))
        <5> HIDE DEF i
        <5> QED
          BY <4>1, InstrAdded DEF Objects, ObjectsWith
      <4>3. ASSUME NEW s \in DOMAIN VectorAddr
            PROVE  SetVector(a.excpVectors, VectorAddr[s], i) \in Seq(Vectors(t))
        <5> HIDE DEF i
        <5> DEFINE X == {VectorAddr[r] : r \in DOMAIN VectorAddr}
        <5>1. a.excpVectors \in Seq([addr : X, instr : Codes(t)])
          BY DEF Objects, ObjectsWith, Vectors
        <5>2. VectorAddr[s] \in X
          OBVIOUS
        <5>3. Vectors(t) = [addr : X, instr : Codes(t)]
          BY DEF Vectors
        <5> HIDE DEF X
        <5> QED
          BY <4>1, <5>1, <5>2, <5>3, VectorSet
      <4>4. PlaceInstr(a, line, i) \in Objects(t, labels)
        <5> HIDE DEF i, line
        <5>1. CASE a.currentSection = ".boot"
          <6> DEFINE q == AddTo(a.bootInstructions, a.bootLabel, i)
          <6>1. PlaceInstr(a, line, i) = [a EXCEPT !.bootInstructions = q]
            BY <5>1, OtherSections DEF PlaceInstr
          <6>2. q \in Seq(Blocks(Names(t), Codes(t)))
            BY <4>2
          <6> HIDE DEF q
          <6> QED
            BY <6>1, <6>2 DEF Objects, ObjectsWith
        <5>2. ASSUME a.currentSection # ".boot",
                     \/ a.currentSection = ".code"
                     \/ a.currentSection = ".data" /\ i.opcode = NoOpcode
              PROVE  PlaceInstr(a, line, i) \in Objects(t, labels)
          <6> DEFINE q == AddTo(a.midInstrDict, a.currentLabel, i)
          <6>1. PlaceInstr(a, line, i) = [a EXCEPT !.midInstrDict = q]
            BY <5>2, OtherSections DEF PlaceInstr
          <6>2. q \in Seq(Blocks(Names(t), Codes(t)))
            BY <4>2
          <6> HIDE DEF q
          <6> QED
            BY <6>1, <6>2 DEF Objects, ObjectsWith
        <5>3. ASSUME a.currentSection \in DOMAIN VectorAddr, i.opcode = NoOpcode
              PROVE  PlaceInstr(a, line, i) \in Objects(t, labels)
          <6>1. a.currentSection \notin {".boot", ".code", ".data"}
            BY <5>3, OtherSections
          <6>2. PlaceInstr(a, line, i) =
                  [a EXCEPT !.excpVectors = SetVector(@, VectorAddr[a.currentSection], i)]
            BY <5>3, <6>1 DEF PlaceInstr
          <6>3. SetVector(a.excpVectors, VectorAddr[a.currentSection], i) \in Seq(Vectors(t))
            BY <4>3, <5>3
          <6> QED
            BY <6>2, <6>3 DEF Objects, ObjectsWith
        <5>4. ASSUME a.currentSection # ".boot", a.currentSection # ".code",
                     ~(a.currentSection = ".data" /\ i.opcode = NoOpcode),
                     ~(a.currentSection \in DOMAIN VectorAddr /\ i.opcode = NoOpcode)
              PROVE  PlaceInstr(a, line, i) \in Objects(t, labels)
          BY <1>2, <5>4 DEF PlaceInstr
        <5> QED
          BY <5>1, <5>2, <5>3, <5>4
      <4> QED
        BY <3>1, <4>4 DEF AddInstr, Readable
    <3>2. CASE ~Readable(line)
      BY <1>2, <1>5, <3>2 DEF AddInstr, Readable
    <3> QED
      BY <3>1, <3>2
  <2> QED
    BY <1>5, <2>1 DEF ParseLine
<1>6. CASE line.kind = "comment"
  BY <1>6 DEF ParseLine
<1>7. CASE line.kind = "junk"
  BY <1>2, <1>7 DEF ParseLine
<1> QED
  BY <1>1, <1>3, <1>4, <1>5, <1>6, <1>7, KindOfLine

-----------------------------------------------------------------------------
(* Parsing keeps the type of the object *)

\* Parsing keeps the type of the object.
LEMMA ParsedType ==
  ASSUME NEW t, IsText(t), NEW labels, NEW a \in Objects(t, labels)
  PROVE  Parsed(a, t) \in Objects(t, labels)
<1> DEFINE N == Len(t)
<1>1. N \in Nat /\ DOMAIN t = 1 .. N
  BY DEF IsText
<1>2. PICK F : ParseStates(a, t, N, F)
  BY <1>1, ParsedByLines
<1>0. /\ F[0] = a /\ F[N] = Parsed(a, t)
      /\ \A k \in 1 .. N : F[k] = ParseLine(F[k - 1], t[k])
  BY <1>2 DEF ParseStates
<1> HIDE DEF N
<1> DEFINE S == {k \in 0 .. N : F[k] \in Objects(t, labels)}
<1>3. 0 \in S
  BY <1>1, <1>0
<1>4. ASSUME NEW k \in 0 .. N - 1, k \in S PROVE k + 1 \in S
  <2>1. k + 1 \in 1 .. N /\ k + 1 \in 0 .. N /\ (k + 1) - 1 = k
    BY <1>1
  <2>2. F[k + 1] = ParseLine(F[k], t[k + 1])
    BY <1>0, <2>1
  <2>3. F[k + 1] \in Objects(t, labels)
    BY <1>1, <1>4, <2>1, <2>2, ParseLineType
  <2> QED
    BY <2>1, <2>3
<1>5. \A k \in 0 .. N : k \in S
  <2> HIDE DEF S
  <2> QED
    BY <1>1, <1>3, <1>4, InductionTo
<1>6. N \in 0 .. N
  BY <1>1
<1> QED
  BY <1>0, <1>5, <1>6

\* A reset object can parse any text.
LEMMA ResetType ==
  ASSUME NEW t0, NEW labels, NEW errors, NEW old \in ObjectsWith(t0, labels, errors), NEW t
  PROVE  LET a == Reset(old) IN
         /\ a \in Objects(t, labels)
         /\ a.sectionDict = {} /\ a.midInstrDict = << >> /\ a.bootInstructions = << >>
         /\ a.excpVectors = << >> /\ a.currentLabel = "0" /\ a.bootLabel = "1"
         /\ a.currentSection = old.currentSection /\ a.error = NoError
<1>1. "0" \in Names(t) /\ "1" \in Names(t)
  BY DEF Names
<1>2. old.currentSection \in Sections \union {"none"} /\ old.labelDict = labels
  BY DEF ObjectsWith
<1>4. /\ Reset(old).sectionDict = {} /\ Reset(old).midInstrDict = << >>
      /\ Reset(old).bootInstructions = << >> /\ Reset(old).excpVectors = << >>
  BY DEF Reset, ObjectsWith
<1>5. /\ Reset(old).currentLabel = "0" /\ Reset(old).bootLabel = "1"
      /\ Reset(old).currentSection = old.currentSection /\ Reset(old).error = NoError
  BY DEF Reset, ObjectsWith
<1>6. Reset(old).labelDict = labels
  BY <1>2 DEF Reset, ObjectsWith
<1>3. Reset(old) \in Objects(t, labels)
  <2> DEFINE a1 == [old EXCEPT !.sectionDict = {}]
             a2 == [a1 EXCEPT !.midInstrDict = << >>]
             a3 == [a2 EXCEPT !.bootInstructions = << >>]
             a4 == [a3 EXCEPT !.excpVectors = << >>]
             a5 == [a4 EXCEPT !.currentLabel = "0"]
             a6 == [a5 EXCEPT !.bootLabel = "1"]
             a7 == [a6 EXCEPT !.error = NoError]
             Fields == {"sectionDict", "midInstrDict", "bootInstructions", "excpVectors",
                        "currentLabel", "bootLabel", "currentSection", "labelDict", "error"}
  <2>1. Reset(old) = a7
    BY DEF Reset
  <2>2. DOMAIN old = Fields
    BY DEF ObjectsWith
  <2>3. a7 = [f \in Fields |-> a7[f]] /\ DOMAIN a7 = Fields
    BY <2>2
  <2> HIDE DEF a7, Fields
  <2> DEFINE B == Seq(Blocks(Names(t), Codes(t)))
             V == Seq(Vectors(t))
             W == Names(t)
             E == {NoError} \union LineErrors(t)
  <2>4. << >> \in B /\ << >> \in V /\ "0" \in W /\ "1" \in W /\ NoError \in E
    BY <1>1
  <2>5. Objects(t, labels) =
          [sectionDict : SUBSET Sections, midInstrDict : B, bootInstructions : B,
           excpVectors : V, currentLabel : W, bootLabel : W,
           currentSection : Sections \union {"none"}, labelDict : {labels}, error : E]
    BY DEF Objects, ObjectsWith
  <2> HIDE DEF B, V, W, E
  <2>6. /\ a7.sectionDict \in SUBSET Sections /\ a7.midInstrDict \in B
        /\ a7.bootInstructions \in B /\ a7.excpVectors \in V
    BY <1>4, <2>1, <2>4
  <2>7. /\ a7.currentLabel \in W /\ a7.bootLabel \in W
        /\ a7.currentSection \in Sections \union {"none"}
        /\ a7.labelDict \in {labels} /\ a7.error \in E
    BY <1>2, <1>5, <1>6, <2>1, <2>4
  <2>8. a7 \in Objects(t, labels)
    BY <2>3, <2>5, <2>6, <2>7 DEF Fields
  <2> QED
    BY <2>1, <2>8
<1> QED
  BY <1>3, <1>4, <1>5

\* Labels solved are addresses of the area, if it has room for the blocks.
LEMMA LabelsSolved ==
  ASSUME NEW X, NEW I, \A i \in I : i.length \in Nat, NEW blocks \in Seq(Blocks(X, I)),
         NEW start \in Nat, NEW end \in Nat, ~TooLarge(blocks, start, end)
  PROVE  /\ DOMAIN SolveLabels(blocks, start) = LabelsOf(blocks)
         /\ \A l \in LabelsOf(blocks) : SolveLabels(blocks, start)[l] \in start .. end
<1> DEFINE N == Len(blocks)
<1>1. N \in Nat /\ DOMAIN blocks = 1 .. N
  OBVIOUS
<1>2. ASSUME NEW l \in LabelsOf(blocks)
      PROVE  SolveLabels(blocks, start)[l] \in start .. end
  <2> DEFINE I0 == {i \in 1 .. Len(blocks) : blocks[i].label = l}
             j == SelectInSeq(blocks, LAMBDA b : b.label = l)
  <2>1. j = IF I0 # {} THEN Min(I0) ELSE 0
    BY DEF SelectInSeq
  <2>2. I0 # {}
    BY DEF LabelsOf
  <2>3. I0 \subseteq 1 .. N
    OBVIOUS
  <2>4. SolveLabels(blocks, start)[l] = start + SizeOf(SubSeq(blocks, 1, j - 1))
    BY DEF SolveLabels
  <2> HIDE DEF j, I0, N
  <2>5. j \in 1 .. N
    <3>1. j \in I0
      BY <1>1, <2>1, <2>2, <2>3, FirstOf
    <3> QED
      BY <2>3, <3>1
  <2>6. j - 1 \in 0 .. Len(blocks)
    BY <1>1, <2>5 DEF N
  <2>7. /\ SizeOf(SubSeq(blocks, 1, j - 1)) \in Nat
        /\ SizeOf(SubSeq(blocks, 1, j - 1)) <= SizeOf(blocks)
    BY <2>6, BlocksBefore
  <2>8. start + SizeOf(blocks) <= end /\ SizeOf(blocks) \in Nat
    BY SizesType DEF TooLarge
  <2> QED
    BY <2>4, <2>7, <2>8
<1> QED
  BY <1>2 DEF SolveLabels

-----------------------------------------------------------------------------
(* Writing the file *)

FileLines == [header : BOOLEAN, value : Nat]
Writable(t) == [addr : Nat, instrs : Seq(Codes(t))]
InstrsToWrite(a) ==
  InstrsOf(a.bootInstructions) \union InstrsOf(a.midInstrDict)
    \union {a.excpVectors[k].instr : k \in DOMAIN a.excpVectors}

\* The words of an instruction whose labels are solved are numbers.
LEMMA WordsType ==
  ASSUME NEW labels, \A l \in DOMAIN labels : labels[l] \in Nat,
         NEW i, i.opcode \in {NoOpcode} \union (0 .. 63), IsOperand(i.src1), IsOperand(i.src2),
         Unsolved(labels, i) = {}
  PROVE  InstrWords(labels, i) \in Seq(Nat)
<1>1. ASSUME NEW o, IsOperand(o), o.label # "" => o.label \in DOMAIN labels
      PROVE  /\ SrcIntVal(labels, o) \in Nat /\ SrcEncoding(o) \in Nat
             /\ ParamWords(labels, o) \in Seq(Nat)
  <2>1. o.value \in Nat /\ o.type \in SrcType
    BY <1>1 DEF IsOperand
  <2>2. SrcIntVal(labels, o) \in Nat
    BY <1>1, <2>1 DEF SrcIntVal
  <2>3. SrcEncoding(o) \in Nat
    BY <2>1 DEF SrcEncoding, SrcType
  <2> QED
    BY <2>2, <2>3 DEF ParamWords
<1>2. /\ i.src1.label # "" => i.src1.label \in DOMAIN labels
      /\ i.src2.label # "" => i.src2.label \in DOMAIN labels
  BY DEF Unsolved
<1>3. /\ SrcIntVal(labels, i.src1) \in Nat
      /\ SrcEncoding(i.src1) \in Nat /\ SrcEncoding(i.src2) \in Nat
      /\ ParamWords(labels, i.src1) \in Seq(Nat) /\ ParamWords(labels, i.src2) \in Seq(Nat)
  BY <1>1, <1>2
<1>4. CASE i.opcode # NoOpcode
  <2> DEFINE w == i.opcode * 1024 + SrcEncoding(i.src1) * 32 + SrcEncoding(i.src2)
  <2>1. w \in Nat
    <3> DEFINE u == i.opcode
               v == SrcEncoding(i.src1)
               p == SrcEncoding(i.src2)
    <3>1. u \in Nat /\ v \in Nat /\ p \in Nat
      <4>1. i.opcode \in Nat
        <5>1. i.opcode \in 0 .. 63
          BY <1>4, Zenon
        <5> QED
          BY <5>1
      <4> QED
        BY <1>3, <4>1
    <3>2. w = u * 1024 + v * 32 + p
      OBVIOUS
    <3> HIDE DEF u, v, p, w
    <3> QED
      BY <3>1, <3>2
  <2>2. InstrWords(labels, i) = <<w>> \o ParamWords(labels, i.src1) \o ParamWords(labels, i.src2)
    BY <1>4 DEF InstrWords
  <2> HIDE DEF w
  <2> QED
    BY <1>3, <2>1, <2>2
<1>5. ASSUME i.opcode = NoOpcode, i.src2.type = "null" PROVE InstrWords(labels, i) \in Seq(Nat)
  <2>1. InstrWords(labels, i) = <<SrcIntVal(labels, i.src1)>>
    BY <1>5 DEF InstrWords
  <2> QED
    BY <1>3, <2>1
<1>6. ASSUME i.opcode = NoOpcode, i.src2.type # "null" PROVE InstrWords(labels, i) \in Seq(Nat)
  <2>1. InstrWords(labels, i) = [n \in 1 .. i.src2.value |-> SrcIntVal(labels, i.src1)]
    BY <1>6 DEF InstrWords
  <2>2. i.src2.value \in Nat
    BY DEF IsOperand
  <2> QED
    BY <1>3, <2>1, <2>2
<1> QED
  BY <1>4, <1>5, <1>6

\* A block is written line by line; the label it ends at is one of an instruction of it.
LEMMA BlockWritten ==
  ASSUME NEW t, IsText(t), NEW labels, \A l \in DOMAIN labels : labels[l] \in Nat,
         NEW b \in Writable(t)
  PROVE  /\ BlockLines(labels, b) \in Seq(FileLines)
         /\ \/ /\ FirstUnsolved(labels, b) = ""
               /\ \A i \in Range(b.instrs) : Unsolved(labels, i) = {}
            \/ \E i \in Range(b.instrs) : FirstUnsolved(labels, b) \in Unsolved(labels, i)
<1> DEFINE N == Len(b.instrs)
           I0 == {n \in 1 .. Len(b.instrs) : Unsolved(labels, b.instrs[n]) # {}}
           bad == SelectInSeq(b.instrs, LAMBDA i : Unsolved(labels, i) # {})
           upTo == IF bad = 0 THEN Len(b.instrs) ELSE bad - 1
           seqs == [n \in 1 .. upTo |-> InstrWords(labels, b.instrs[n])]
           words == FlattenSeq(seqs)
<1>1. b.addr \in Nat /\ b.instrs \in Seq(Codes(t))
  BY DEF Writable
<1>2. N \in Nat /\ DOMAIN b.instrs = 1 .. N /\ \A n \in 1 .. N : b.instrs[n] \in Codes(t)
  BY <1>1
<1>3. bad = IF I0 # {} THEN Min(I0) ELSE 0
  BY DEF SelectInSeq
<1>4. /\ bad \in 0 .. N /\ (bad = 0 <=> I0 = {})
      /\ bad # 0 => bad \in I0 /\ \A n \in I0 : bad <= n
  <2>1. I0 \subseteq 1 .. N
    OBVIOUS
  <2> HIDE DEF I0, bad, N
  <2> QED
    BY <1>2, <1>3, <2>1, FirstOf
<1>5. BlockLines(labels, b) = <<At(b.addr)>> \o [n \in DOMAIN words |-> Word(words[n])]
  BY DEF BlockLines
<1>6. words \in Seq(Nat)
  <2>1. upTo \in Nat /\ upTo <= N
    <3> HIDE DEF bad, N
    <3> QED
      BY <1>2, <1>4 DEF N
  <2>2. ASSUME NEW n \in 1 .. upTo PROVE InstrWords(labels, b.instrs[n]) \in Seq(Nat)
    <3>1. n \in 1 .. N /\ n \notin I0
      <4>1. n \in 1 .. N
        <5> HIDE DEF upTo, N
        <5> QED
          BY <1>2, <2>1
      <4>2. bad # 0 => ~(bad <= n)
        <5>1. bad # 0 => upTo = bad - 1 /\ bad \in Nat
          <6> HIDE DEF bad, N
          <6> QED
            BY <1>2, <1>4
        <5> HIDE DEF upTo, bad
        <5> QED
          BY <2>1, <5>1
      <4> HIDE DEF bad, I0, N
      <4> QED
        BY <1>4, <4>1, <4>2
    <3>2. Unsolved(labels, b.instrs[n]) = {}
      BY <3>1
    <3>3. b.instrs[n] \in Codes(t)
      BY <1>2, <3>1
    <3> QED
      BY <3>2, <3>3, CodesType, WordsType
  <2>3. seqs \in Seq(Seq(Nat))
    <3> HIDE DEF upTo
    <3> QED
      BY <2>1, <2>2
  <2> HIDE DEF seqs
  <2> QED
    BY <2>3, FlattenType
<1>7. BlockLines(labels, b) \in Seq(FileLines)
  <2> HIDE DEF words
  <2>1. At(b.addr) \in FileLines /\ \A n \in DOMAIN words : Word(words[n]) \in FileLines
    BY <1>1, <1>6 DEF At, Word, FileLines
  <2>2. [n \in DOMAIN words |-> Word(words[n])] \in Seq(FileLines)
    BY <1>6, <2>1
  <2> QED
    BY <1>5, <2>1, <2>2
<1>8. CASE bad = 0
  <2>1. FirstUnsolved(labels, b) = ""
    BY <1>8 DEF FirstUnsolved
  <2>2. \A i \in Range(b.instrs) : Unsolved(labels, i) = {}
    <3>1. I0 = {}
      BY <1>4, <1>8
    <3> QED
      BY <1>2, <3>1 DEF Range
  <2> QED
    BY <1>7, <2>1, <2>2
<1>9. CASE bad # 0
  <2> DEFINE i == b.instrs[bad]
  <2>1. bad \in I0
    BY <1>4, <1>9
  <2>2. bad \in 1 .. N /\ Unsolved(labels, i) # {}
    BY <2>1
  <2>3. i \in Range(b.instrs)
    BY <1>2, <2>2 DEF Range
  <2>4. FirstUnsolved(labels, b) =
          IF i.src1.label \in Unsolved(labels, i) THEN i.src1.label ELSE i.src2.label
    BY <1>9 DEF FirstUnsolved
  <2> HIDE DEF i
  <2>5. FirstUnsolved(labels, b) \in Unsolved(labels, i)
    BY <2>2, <2>4 DEF Unsolved
  <2> QED
    BY <1>7, <2>3, <2>5
<1> QED
  BY <1>8, <1>9

\* A function over the first numbers is a sequence.
LEMMA FunctionIsSeq ==
  ASSUME NEW W, NEW M \in Nat, NEW f \in [1 .. M -> W]
  PROVE  f \in Seq(W)
  OBVIOUS

\* What is in two sequences of blocks is in one or in the other.
LEMMA InstrsOfBoth ==
  ASSUME NEW W, NEW p \in Seq(W), NEW q \in Seq(W)
  PROVE  InstrsOf(p \o q) = InstrsOf(p) \union InstrsOf(q)
<1> DEFINE r == p \o q
           M == Len(p)
           N == Len(q)
<1>1. /\ M \in Nat /\ N \in Nat /\ DOMAIN p = 1 .. M /\ DOMAIN q = 1 .. N /\ DOMAIN r = 1 .. M + N
      /\ \A k \in 1 .. M : r[k] = p[k]
      /\ \A k \in 1 .. N : r[M + k] = q[k]
  OBVIOUS
<1> HIDE DEF M, N, r
<1>2. /\ \A k \in 1 .. M : k \in 1 .. M + N
      /\ \A k \in 1 .. N : M + k \in 1 .. M + N
      /\ \A k \in 1 .. M + N : k \in 1 .. M \/ (k - M \in 1 .. N /\ k = M + (k - M))
  BY <1>1
<1>3. ASSUME NEW i, NEW k \in DOMAIN r, i \in Range(r[k].instrs)
      PROVE  \/ \E j \in DOMAIN p : i \in Range(p[j].instrs)
             \/ \E j \in DOMAIN q : i \in Range(q[j].instrs)
  <2>1. CASE k \in 1 .. M
    BY <1>1, <1>3, <2>1
  <2>2. CASE k \notin 1 .. M
    <3>1. k - M \in 1 .. N /\ k = M + (k - M)
      BY <1>1, <1>2, <2>2
    <3>2. r[k] = q[k - M]
      BY <1>1, <3>1
    <3> QED
      BY <1>1, <1>3, <3>1, <3>2
  <2> QED
    BY <2>1, <2>2
<1>4. ASSUME NEW i, NEW j \in DOMAIN p, i \in Range(p[j].instrs)
      PROVE  \E k \in DOMAIN r : i \in Range(r[k].instrs)
  BY <1>1, <1>2, <1>4
<1>5. ASSUME NEW i, NEW j \in DOMAIN q, i \in Range(q[j].instrs)
      PROVE  \E k \in DOMAIN r : i \in Range(r[k].instrs)
  <2>1. M + j \in DOMAIN r /\ r[M + j] = q[j]
    BY <1>1, <1>2
  <2> QED
    BY <1>5, <2>1
<1>6. InstrsOf(r) = InstrsOf(p) \union InstrsOf(q)
  BY <1>3, <1>4, <1>5 DEF InstrsOf
<1> QED
  BY <1>6 DEF r

\* The blocks of an object are written: all of them, or up to an instruction of them
\* with a label that has no address.
WrittenAs(labels, a, r) ==
  /\ r.opened /\ r.file \in Seq(FileLines)
  /\ \/ r.asm = a /\ \A i \in InstrsToWrite(a) : Unsolved(labels, i) = {}
     \/ \E i \in InstrsToWrite(a) : \E l \in Unsolved(labels, i) :
          r.asm = [a EXCEPT !.error = Error("label", Comment, l)]

\* What writing does: an object with the same parts, without an error when every
\* instruction can be written, else with the label of one that cannot (pyasm.py 360-374).
LEMMA WrittenIs ==
  ASSUME NEW t, IsText(t), NEW labels, \A l \in DOMAIN labels : labels[l] \in Nat,
         NEW a \in ObjectsWith(t, labels, {NoError}),
         LabelsOf(a.midInstrDict) \subseteq DOMAIN labels
  PROVE  WrittenAs(labels, a, Written(a))
<1> DEFINE W == Writable(t)
           boot == [k \in DOMAIN a.bootInstructions |->
                      [addr |-> bootStartAddr, instrs |-> a.bootInstructions[k].instrs]]
           vect == [k \in DOMAIN a.excpVectors |->
                      [addr |-> a.excpVectors[k].addr, instrs |-> <<a.excpVectors[k].instr>>]]
           mid == [k \in DOMAIN a.midInstrDict |->
                     [addr |-> a.labelDict[a.midInstrDict[k].label],
                      instrs |-> a.midInstrDict[k].instrs]]
           blocks == BlocksToWrite(a)
<1>1. /\ a.bootInstructions \in Seq(Blocks(Names(t), Codes(t)))
      /\ a.midInstrDict \in Seq(Blocks(Names(t), Codes(t)))
      /\ a.excpVectors \in Seq(Vectors(t)) /\ a.labelDict = labels
  BY DEF ObjectsWith
<1>2. boot \in Seq(W) /\ InstrsOf(boot) = InstrsOf(a.bootInstructions)
  <2>1. ASSUME NEW k \in DOMAIN a.bootInstructions
        PROVE  boot[k] \in W /\ boot[k].instrs = a.bootInstructions[k].instrs
    <3>1. a.bootInstructions[k] \in Blocks(Names(t), Codes(t))
      BY <1>1
    <3> QED
      BY <3>1, AreasAssumption DEF Writable, Blocks
  <2>2. DOMAIN boot = DOMAIN a.bootInstructions
    OBVIOUS
  <2>3. boot \in Seq(W)
    <3> DEFINE M == Len(a.bootInstructions)
    <3>1. M \in Nat /\ boot \in [1 .. M -> W]
      <4>1. DOMAIN a.bootInstructions = 1 .. M /\ M \in Nat
        BY <1>1
      <4> HIDE DEF W, M
      <4> QED
        BY <2>1, <4>1
    <3> HIDE DEF W, M, boot
    <3> QED
      BY <3>1, FunctionIsSeq
  <2> HIDE DEF boot
  <2> QED
    BY <2>1, <2>2, <2>3 DEF InstrsOf
<1>3. mid \in Seq(W) /\ InstrsOf(mid) = InstrsOf(a.midInstrDict)
  <2>1. ASSUME NEW k \in DOMAIN a.midInstrDict
        PROVE  mid[k] \in W /\ mid[k].instrs = a.midInstrDict[k].instrs
    <3>1. a.midInstrDict[k] \in Blocks(Names(t), Codes(t))
      BY <1>1
    <3>2. a.midInstrDict[k].label \in DOMAIN labels
      BY DEF LabelsOf
    <3>3. a.labelDict[a.midInstrDict[k].label] \in Nat
      BY <1>1, <3>2
    <3> QED
      BY <3>1, <3>3 DEF Writable, Blocks
  <2>2. DOMAIN mid = DOMAIN a.midInstrDict
    OBVIOUS
  <2>3. mid \in Seq(W)
    <3> DEFINE M == Len(a.midInstrDict)
    <3>1. M \in Nat /\ mid \in [1 .. M -> W]
      <4>1. DOMAIN a.midInstrDict = 1 .. M /\ M \in Nat
        BY <1>1
      <4> HIDE DEF W, M
      <4> QED
        BY <2>1, <4>1
    <3> HIDE DEF W, M, mid
    <3> QED
      BY <3>1, FunctionIsSeq
  <2> HIDE DEF mid
  <2> QED
    BY <2>1, <2>2, <2>3 DEF InstrsOf
<1>4. vect \in Seq(W) /\ InstrsOf(vect) = {a.excpVectors[k].instr : k \in DOMAIN a.excpVectors}
  <2>1. ASSUME NEW k \in DOMAIN a.excpVectors
        PROVE  vect[k] \in W /\ Range(vect[k].instrs) = {a.excpVectors[k].instr}
    <3> DEFINE v == a.excpVectors[k]
    <3>1. v \in Vectors(t)
      BY <1>1
    <3>2. v.addr \in Nat /\ v.instr \in Codes(t)
      BY <3>1 DEF Vectors, VectorAddr
    <3>3. vect[k] = [addr |-> v.addr, instrs |-> <<v.instr>>]
      OBVIOUS
    <3> HIDE DEF v
    <3>4. vect[k] \in W /\ vect[k].instrs = <<v.instr>>
      BY <3>2, <3>3 DEF Writable
    <3>5. Range(<<v.instr>>) = {v.instr}
      BY DEF Range
    <3> QED
      BY <3>4, <3>5 DEF v
  <2>2. DOMAIN vect = DOMAIN a.excpVectors
    OBVIOUS
  <2>3. vect \in Seq(W)
    <3> DEFINE M == Len(a.excpVectors)
    <3>1. M \in Nat /\ vect \in [1 .. M -> W]
      <4>1. DOMAIN a.excpVectors = 1 .. M /\ M \in Nat
        BY <1>1
      <4> HIDE DEF W, M
      <4> QED
        BY <2>1, <4>1
    <3> HIDE DEF W, M, vect
    <3> QED
      BY <3>1, FunctionIsSeq
  <2> HIDE DEF vect
  <2>4. InstrsOf(vect) = {a.excpVectors[k].instr : k \in DOMAIN a.excpVectors}
    <3>1. \A k \in DOMAIN vect : Range(vect[k].instrs) = {a.excpVectors[k].instr}
      BY <2>1, <2>2
    <3> HIDE DEF vect
    <3> QED
      BY <2>2, <3>1 DEF InstrsOf
  <2> QED
    BY <2>3, <2>4
<1>5. blocks = boot \o vect \o mid
  BY DEF BlocksToWrite
<1> HIDE DEF boot, vect, mid, blocks, W
<1>6. blocks \in Seq(W) /\ InstrsOf(blocks) = InstrsToWrite(a)
  <2> DEFINE two == boot \o vect
  <2>1. boot \in Seq(W) /\ vect \in Seq(W) /\ mid \in Seq(W)
    BY <1>2, <1>3, <1>4
  <2>2. two \in Seq(W) /\ blocks = two \o mid
    BY <1>5, <2>1
  <2>3. InstrsOf(two) = InstrsOf(boot) \union InstrsOf(vect)
    BY <2>1, InstrsOfBoth
  <2> HIDE DEF two
  <2>4. InstrsOf(blocks) = InstrsOf(two) \union InstrsOf(mid)
    BY <2>1, <2>2, InstrsOfBoth
  <2>5. blocks \in Seq(W)
    BY <2>1, <2>2
  <2> QED
    BY <1>2, <1>3, <1>4, <2>3, <2>4, <2>5, Zenon DEF InstrsToWrite
<1> DEFINE N == Len(blocks)
           I0 == {k \in 1 .. Len(blocks) : FirstUnsolved(a.labelDict, blocks[k]) # ""}
           bad == SelectInSeq(blocks, LAMBDA b : FirstUnsolved(a.labelDict, b) # "")
           upTo == IF bad = 0 THEN Len(blocks) ELSE bad
           seqs == [k \in 1 .. upTo |-> BlockLines(a.labelDict, blocks[k])]
<1>7. N \in Nat /\ DOMAIN blocks = 1 .. N /\ \A k \in 1 .. N : blocks[k] \in W
  BY <1>6
<1>8. bad = IF I0 # {} THEN Min(I0) ELSE 0
  BY DEF SelectInSeq
<1>9. bad \in 0 .. N /\ (bad = 0 <=> I0 = {}) /\ (bad # 0 => bad \in I0)
  <2>1. I0 \subseteq 1 .. N
    OBVIOUS
  <2> HIDE DEF I0, bad, N
  <2> QED
    BY <1>7, <1>8, <2>1, FirstOf
<1>10. Written(a) = [asm |-> IF bad = 0 THEN a
                     ELSE [a EXCEPT !.error =
                             Error("label", Comment, FirstUnsolved(a.labelDict, blocks[bad]))],
                     opened |-> TRUE, file |-> FlattenSeq(seqs)]
  BY DEF Written, blocks
<1>11. FlattenSeq(seqs) \in Seq(FileLines)
  <2>1. upTo \in 0 .. N
    <3>1. upTo = IF bad = 0 THEN N ELSE bad
      OBVIOUS
    <3> HIDE DEF bad, N, upTo, I0, seqs
    <3>2. N \in 0 .. N /\ bad \in 0 .. N
      BY <1>7, <1>9
    <3> QED
      BY <3>1, <3>2, Zenon
  <2>2. ASSUME NEW k \in 1 .. upTo PROVE BlockLines(a.labelDict, blocks[k]) \in Seq(FileLines)
    <3>1. k \in 1 .. N
      <4> HIDE DEF upTo, N
      <4> QED
        BY <1>7, <2>1
    <3>2. blocks[k] \in Writable(t)
      BY <1>7, <3>1 DEF W
    <3> QED
      BY <1>1, <3>2, BlockWritten
  <2>3. seqs \in Seq(Seq(FileLines))
    <3>1. upTo \in Nat
      <4> HIDE DEF upTo, N
      <4> QED
        BY <1>7, <2>1
    <3> HIDE DEF upTo
    <3> QED
      BY <2>2, <3>1
  <2> HIDE DEF seqs
  <2> QED
    BY <2>3, FlattenType
<1>12. CASE bad = 0
  <2>1. ASSUME NEW i \in InstrsToWrite(a) PROVE Unsolved(labels, i) = {}
    <3>1. PICK k \in 1 .. N : i \in Range(blocks[k].instrs)
      BY <1>6, <1>7 DEF InstrsOf
    <3>2. FirstUnsolved(labels, blocks[k]) = ""
      BY <1>1, <1>9, <1>12
    <3>3. blocks[k] \in Writable(t)
      BY <1>7 DEF W
    <3>4. \A j \in Range(blocks[k].instrs) : "" \notin Unsolved(labels, j)
      BY DEF Unsolved
    <3> QED
      BY <3>1, <3>2, <3>3, <3>4, BlockWritten
  <2>2. Written(a).asm = a /\ Written(a).opened /\ Written(a).file = FlattenSeq(seqs)
    <3> HIDE DEF seqs, bad
    <3> QED
      BY <1>10, <1>12
  <2> QED
    BY <1>11, <2>1, <2>2 DEF WrittenAs
<1>13. CASE bad # 0
  <2> DEFINE l == FirstUnsolved(labels, blocks[bad])
  <2>1. bad \in 1 .. N /\ l # ""
    BY <1>1, <1>9, <1>13
  <2>2. blocks[bad] \in Writable(t)
    BY <1>7, <2>1 DEF W
  <2>3. PICK i \in Range(blocks[bad].instrs) : l \in Unsolved(labels, i)
    <3> HIDE DEF bad
    <3> QED
      BY <2>1, <2>2, BlockWritten
  <2>4. i \in InstrsToWrite(a)
    <3> HIDE DEF bad
    <3>1. i \in InstrsOf(blocks)
      BY <1>7, <2>1, <2>3 DEF InstrsOf
    <3> QED
      BY <1>6, <3>1
  <2>5. /\ Written(a).asm = [a EXCEPT !.error = Error("label", Comment, l)]
        /\ Written(a).opened /\ Written(a).file = FlattenSeq(seqs)
    <3> HIDE DEF seqs, bad
    <3> QED
      BY <1>1, <1>10, <1>13
  <2> HIDE DEF l
  <2> QED
    BY <1>11, <2>3, <2>4, <2>5 DEF WrittenAs
<1> QED
  BY <1>12, <1>13

-----------------------------------------------------------------------------
(* Solving the labels *)

\* Labels with the addresses of an area or of none.
InRange(labels) == \A l \in DOMAIN labels : labels[l] \in codeStartAddr .. memoryEnd

\* An object with its labels or its error replaced.
LEMMA LabelsReplaced ==
  ASSUME NEW t, NEW labels, NEW errors, NEW a \in ObjectsWith(t, labels, errors), NEW new,
         NEW b, b = [a EXCEPT !.labelDict = new]
  PROVE  /\ b \in ObjectsWith(t, new, errors)
         /\ b.sectionDict = a.sectionDict /\ b.midInstrDict = a.midInstrDict
         /\ b.bootInstructions = a.bootInstructions /\ b.excpVectors = a.excpVectors
         /\ b.currentSection = a.currentSection /\ b.labelDict = new /\ b.error = a.error
        /\ b.currentLabel = a.currentLabel /\ b.bootLabel = a.bootLabel
  BY DEF ObjectsWith

\* Setting the error changes nothing else.
LEMMA ErrorReplaced ==
  ASSUME NEW t, NEW labels, NEW errors, NEW a \in ObjectsWith(t, labels, errors), NEW e,
         NEW b, b = [a EXCEPT !.error = e]
  PROVE  /\ b \in ObjectsWith(t, labels, {e})
         /\ b.sectionDict = a.sectionDict /\ b.midInstrDict = a.midInstrDict
         /\ b.bootInstructions = a.bootInstructions /\ b.excpVectors = a.excpVectors
         /\ b.currentSection = a.currentSection /\ b.labelDict = labels /\ b.error = e
  BY DEF ObjectsWith

\* New labels are added to those there are.
LEMMA LabelsAdded ==
  ASSUME NEW new, NEW labels
  PROVE  /\ DOMAIN Updated(labels, new) = DOMAIN labels \union DOMAIN new
         /\ InRange(new) /\ InRange(labels) => InRange(Updated(labels, new))
  BY DEF InRange, Updated

\* The checks between parsing and writing: one of the errors, or the labels of all blocks.
SolvedWith(t, labels, a, new, s) ==
  \/ /\ ".boot" \notin a.sectionDict
     /\ s \in ObjectsWith(t, new, {Error("boot", Comment, "")})
  \/ /\ \/ TooLarge(a.bootInstructions, bootStartAddr, memoryEnd)
        \/ TooLarge(a.midInstrDict, codeStartAddr, bootStartAddr)
     /\ s \in ObjectsWith(t, new, {Error("size", Comment, "")})
  \/ /\ ".boot" \in a.sectionDict
     /\ ~TooLarge(a.bootInstructions, bootStartAddr, memoryEnd)
     /\ ~TooLarge(a.midInstrDict, codeStartAddr, bootStartAddr)
     /\ DOMAIN new = DOMAIN labels \union LabelsOf(a.bootInstructions)
                       \union LabelsOf(a.midInstrDict)
     /\ s = [a EXCEPT !.labelDict = new]

\* What the checks between parsing and writing do (pyasm.py 348-353).
LEMMA SolvedIs ==
  ASSUME NEW t, IsText(t), NEW labels, InRange(labels),
         NEW a \in ObjectsWith(t, labels, {NoError})
  PROVE  \E new :
           /\ InRange(new)
           /\ DOMAIN new \subseteq DOMAIN labels \union LabelsOf(a.bootInstructions)
                                     \union LabelsOf(a.midInstrDict)
           /\ SolvedWith(t, labels, a, new, Solved(a))
<1> DEFINE boot == SolveLabels(a.bootInstructions, bootStartAddr)
           mid == SolveLabels(a.midInstrDict, codeStartAddr)
           b == WithLabels(a, boot)
<1>1. a.error = NoError /\ a.labelDict = labels
  BY DEF ObjectsWith
<1>2. /\ a.bootInstructions \in Seq(Blocks(Names(t), Codes(t)))
      /\ a.midInstrDict \in Seq(Blocks(Names(t), Codes(t)))
  BY DEF ObjectsWith
<1>3. \A i \in Codes(t) : i.length \in Nat
  BY CodesType
<1>4. /\ codeStartAddr \in Nat /\ bootStartAddr \in Nat /\ memoryEnd \in Nat
      /\ codeStartAddr < bootStartAddr /\ bootStartAddr < memoryEnd
  BY AreasAssumption
<1>5. CASE ".boot" \notin a.sectionDict
  <2>1. Solved(a) = [a EXCEPT !.error = Error("boot", Comment, "")]
    BY <1>1, <1>5 DEF Solved
  <2>2. SolvedWith(t, labels, a, labels, Solved(a))
    <3>1. Solved(a) \in ObjectsWith(t, labels, {Error("boot", Comment, "")})
      <4> DEFINE e == Error("boot", Comment, "")
                 s == Solved(a)
      <4>1. s = [a EXCEPT !.error = e]
        BY <2>1
      <4> HIDE DEF e, s
      <4>2. s \in ObjectsWith(t, labels, {e})
        BY <4>1, ErrorReplaced
      <4> QED
        BY <4>2 DEF e, s
    <3> QED
      BY <1>5, <3>1 DEF SolvedWith
  <2> QED
    BY <2>2
<1>6. CASE ".boot" \in a.sectionDict /\ TooLarge(a.bootInstructions, bootStartAddr, memoryEnd)
  <2>1. Solved(a) = [a EXCEPT !.error = Error("size", Comment, "")]
    BY <1>1, <1>6 DEF Solved
  <2>2. SolvedWith(t, labels, a, labels, Solved(a))
    <3>1. Solved(a) \in ObjectsWith(t, labels, {Error("size", Comment, "")})
      <4> DEFINE e == Error("size", Comment, "")
                 s == Solved(a)
      <4>1. s = [a EXCEPT !.error = e]
        BY <2>1
      <4> HIDE DEF e, s
      <4>2. s \in ObjectsWith(t, labels, {e})
        BY <4>1, ErrorReplaced
      <4> QED
        BY <4>2 DEF e, s
    <3> QED
      BY <1>6, <3>1 DEF SolvedWith
  <2> QED
    BY <2>2
<1>7. CASE ".boot" \in a.sectionDict /\ ~TooLarge(a.bootInstructions, bootStartAddr, memoryEnd)
  <2>1. DOMAIN boot = LabelsOf(a.bootInstructions) /\ InRange(boot)
    <3>1. /\ DOMAIN boot = LabelsOf(a.bootInstructions)
          /\ \A l \in LabelsOf(a.bootInstructions) : boot[l] \in bootStartAddr .. memoryEnd
      BY <1>2, <1>3, <1>4, <1>7, LabelsSolved
    <3> HIDE DEF boot
    <3>2. \A x \in bootStartAddr .. memoryEnd : x \in codeStartAddr .. memoryEnd
      BY <1>4
    <3> QED
      BY <3>1, <3>2 DEF InRange
  <2> DEFINE l1 == Updated(labels, boot)
             l2 == Updated(l1, mid)
  <2>2. b = [a EXCEPT !.labelDict = l1]
    BY <1>1 DEF WithLabels
  <2>3. InRange(l1) /\ DOMAIN l1 = DOMAIN labels \union LabelsOf(a.bootInstructions)
    <3> HIDE DEF boot
    <3> QED
      BY <2>1, LabelsAdded
  <2> HIDE DEF b, l1, boot
  <2>4. b \in ObjectsWith(t, l1, {NoError}) /\ b.labelDict = l1
    BY <2>2, LabelsReplaced
  <2>5. CASE TooLarge(a.midInstrDict, codeStartAddr, bootStartAddr)
    <3>1. Solved(a) = [b EXCEPT !.error = Error("size", Comment, "")]
      BY <1>1, <1>7, <2>5 DEF Solved, b, boot
    <3>2. Solved(a) \in ObjectsWith(t, l1, {Error("size", Comment, "")})
      <4> DEFINE e == Error("size", Comment, "")
                 s == Solved(a)
      <4>1. s = [b EXCEPT !.error = e]
        BY <3>1
      <4> HIDE DEF e, s
      <4>2. s \in ObjectsWith(t, l1, {e})
        BY <2>4, <4>1, ErrorReplaced
      <4> QED
        BY <4>2 DEF e, s
    <3>3. SolvedWith(t, labels, a, l1, Solved(a))
      BY <2>5, <3>2 DEF SolvedWith
    <3> QED
      BY <2>3, <3>3
  <2>6. CASE ~TooLarge(a.midInstrDict, codeStartAddr, bootStartAddr)
    <3>1. Solved(a) = WithLabels(b, mid)
      BY <1>1, <1>7, <2>6 DEF Solved, b, boot
    <3>2. DOMAIN mid = LabelsOf(a.midInstrDict) /\ InRange(mid)
      <4>1. /\ DOMAIN mid = LabelsOf(a.midInstrDict)
            /\ \A l \in LabelsOf(a.midInstrDict) : mid[l] \in codeStartAddr .. bootStartAddr
        BY <1>2, <1>3, <1>4, <2>6, LabelsSolved
      <4> HIDE DEF mid
      <4>2. \A x \in codeStartAddr .. bootStartAddr : x \in codeStartAddr .. memoryEnd
        BY <1>4
      <4> QED
        BY <4>1, <4>2 DEF InRange
    <3> HIDE DEF mid
    <3>3. InRange(l2) /\ DOMAIN l2 = DOMAIN l1 \union LabelsOf(a.midInstrDict)
      BY <2>3, <3>2, LabelsAdded
    <3>4. Solved(a) = [b EXCEPT !.labelDict = l2]
      BY <2>4, <3>1 DEF WithLabels
    <3> HIDE DEF l2
    <3>5. Solved(a) = [a EXCEPT !.labelDict = l2]
      BY <2>2, <3>4 DEF ObjectsWith
    <3>6. SolvedWith(t, labels, a, l2, Solved(a))
      BY <1>7, <2>3, <2>6, <3>3, <3>5 DEF SolvedWith
    <3> QED
      BY <2>3, <3>3, <3>6
  <2> QED
    BY <2>5, <2>6
<1> QED
  BY <1>5, <1>6, <1>7

-----------------------------------------------------------------------------
(* Assembling a text *)

\* What assembling makes of a text, once it is parsed to p: a line was rejected, or the
\* checks before writing reject it, or it is written with these labels.
RejectedLine(t, p, r) ==
  /\ p.error \in LineErrors(t)
  /\ r.asm = p /\ ~r.opened /\ r.file = << >>

RejectedSections(t, p, new, r) ==
  /\ p.error = NoError
  /\ \/ /\ ".boot" \notin p.sectionDict
        /\ r.asm \in ObjectsWith(t, new, {Error("boot", Comment, "")})
     \/ /\ \/ TooLarge(p.bootInstructions, bootStartAddr, memoryEnd)
           \/ TooLarge(p.midInstrDict, codeStartAddr, bootStartAddr)
        /\ r.asm \in ObjectsWith(t, new, {Error("size", Comment, "")})
  /\ ~r.opened /\ r.file = << >>

WrittenWith(t, p, labels, new, r) ==
  /\ p.error = NoError
  /\ ".boot" \in p.sectionDict
  /\ ~TooLarge(p.bootInstructions, bootStartAddr, memoryEnd)
  /\ ~TooLarge(p.midInstrDict, codeStartAddr, bootStartAddr)
  /\ DOMAIN new = DOMAIN labels \union LabelsOf(p.bootInstructions) \union LabelsOf(p.midInstrDict)
  /\ r.opened /\ r.file \in Seq(FileLines)
  /\ \/ /\ r.asm \in ObjectsWith(t, new, {NoError})
        /\ \A i \in InstrsToWrite(p) : Unsolved(new, i) = {}
     \/ \E i \in InstrsToWrite(p) : \E l \in Unsolved(new, i) :
          r.asm \in ObjectsWith(t, new, {Error("label", Comment, l)})

\* The labels of blocks and the instructions to write are of the text.
LEMMA PartsOfText ==
  ASSUME NEW t, NEW labels, NEW errors, NEW p \in ObjectsWith(t, labels, errors)
  PROVE  /\ LabelsOf(p.bootInstructions) \subseteq Names(t)
         /\ LabelsOf(p.midInstrDict) \subseteq Names(t)
         /\ InstrsToWrite(p) \subseteq Codes(t)
<1>1. /\ p.bootInstructions \in Seq(Blocks(Names(t), Codes(t)))
      /\ p.midInstrDict \in Seq(Blocks(Names(t), Codes(t)))
      /\ p.excpVectors \in Seq(Vectors(t))
  BY DEF ObjectsWith
<1>2. ASSUME NEW blocks \in Seq(Blocks(Names(t), Codes(t)))
      PROVE  LabelsOf(blocks) \subseteq Names(t) /\ InstrsOf(blocks) \subseteq Codes(t)
  <2>1. \A k \in DOMAIN blocks : blocks[k] \in Blocks(Names(t), Codes(t))
    OBVIOUS
  <2>2. ASSUME NEW k \in DOMAIN blocks
        PROVE  blocks[k].label \in Names(t) /\ Range(blocks[k].instrs) \subseteq Codes(t)
    <3>1. blocks[k].label \in Names(t) /\ blocks[k].instrs \in Seq(Codes(t))
      BY <2>1 DEF Blocks
    <3>2. Range(blocks[k].instrs) \subseteq Codes(t)
      BY <3>1 DEF Range
    <3> QED
      BY <3>1, <3>2
  <2> QED
    BY <2>2 DEF LabelsOf, InstrsOf
<1>3. {p.excpVectors[k].instr : k \in DOMAIN p.excpVectors} \subseteq Codes(t)
  <2>1. \A k \in DOMAIN p.excpVectors : p.excpVectors[k] \in Vectors(t)
    BY <1>1
  <2> QED
    BY <2>1 DEF Vectors
<1> QED
  BY <1>1, <1>2, <1>3 DEF InstrsToWrite

\* What assembling does: a line is rejected, or the sections are, or the blocks are
\* written (pyasm.py 333-374).
LEMMA AssembleIs ==
  ASSUME NEW t, IsText(t), NEW labels, InRange(labels),
         NEW a \in Objects(t, labels), a.error = NoError
  PROVE  LET p == Parsed(a, t)
             r == Assemble(a, t)
         IN  /\ p \in Objects(t, labels)
             /\ \E new :
                  /\ InRange(new) /\ DOMAIN new \subseteq DOMAIN labels \union Names(t)
                  /\ \/ new = labels /\ RejectedLine(t, p, r)
                     \/ RejectedSections(t, p, new, r)
                     \/ WrittenWith(t, p, labels, new, r)
<1> DEFINE p == Parsed(a, t)
           r == Assemble(a, t)
           Outcome(new) == \/ new = labels /\ RejectedLine(t, p, r)
                           \/ RejectedSections(t, p, new, r)
                           \/ WrittenWith(t, p, labels, new, r)
<1>1. p \in Objects(t, labels)
  BY ParsedType
<1>2. r = IF Solved(p).error = NoError THEN Written(Solved(p))
          ELSE [asm |-> Solved(p), opened |-> FALSE, file |-> << >>]
  BY DEF Assemble
<1> HIDE DEF p, r
<1>3. p.error \in {NoError} \union LineErrors(t)
  BY <1>1 DEF Objects, ObjectsWith
<1> SUFFICES \E new : /\ InRange(new) /\ DOMAIN new \subseteq DOMAIN labels \union Names(t)
                      /\ Outcome(new)
  BY <1>1 DEF p, r
<1>4. CASE p.error # NoError
  <2>1. Solved(p) = p
    BY <1>4 DEF Solved
  <2>2. r.asm = p /\ ~r.opened /\ r.file = << >>
    BY <1>2, <1>4, <2>1
  <2>3. Outcome(labels)
    BY <1>3, <1>4, <2>2 DEF RejectedLine
  <2> HIDE DEF Outcome
  <2> QED
    BY <2>3
<1>5. CASE p.error = NoError
  <2>1. p \in ObjectsWith(t, labels, {NoError})
    BY <1>1, <1>5 DEF Objects, ObjectsWith
  <2>2. PICK new :
           /\ InRange(new)
           /\ DOMAIN new \subseteq DOMAIN labels \union LabelsOf(p.bootInstructions)
                                     \union LabelsOf(p.midInstrDict)
           /\ SolvedWith(t, labels, p, new, Solved(p))
    BY <2>1, SolvedIs
  <2>3. DOMAIN new \subseteq DOMAIN labels \union Names(t)
    <3>1. /\ LabelsOf(p.bootInstructions) \subseteq Names(t)
          /\ LabelsOf(p.midInstrDict) \subseteq Names(t)
      <4> DEFINE E == {NoError}
      <4>1. p \in ObjectsWith(t, labels, E)
        BY <2>1
      <4> HIDE DEF E
      <4> QED
        BY <4>1, PartsOfText
    <3>2. DOMAIN new \subseteq DOMAIN labels \union LabelsOf(p.bootInstructions)
                                 \union LabelsOf(p.midInstrDict)
      BY <2>2
    <3> QED
      BY <3>1, <3>2
  <2>4. ASSUME NEW kind \in {"boot", "size"},
               Solved(p) \in ObjectsWith(t, new, {Error(kind, Comment, "")})
        PROVE  r.asm = Solved(p) /\ ~r.opened /\ r.file = << >>
    <3>1. Solved(p).error # NoError
      <4>1. Solved(p).error = Error(kind, Comment, "")
        BY <2>4 DEF ObjectsWith
      <4>2. Error(kind, Comment, "") # NoError
        BY <2>4 DEF Error, NoError
      <4> QED
        BY <4>1, <4>2
    <3> QED
      BY <1>2, <3>1
  <2>5. CASE /\ ".boot" \notin p.sectionDict
             /\ Solved(p) \in ObjectsWith(t, new, {Error("boot", Comment, "")})
    <3>1. RejectedSections(t, p, new, r)
      BY <1>5, <2>4, <2>5 DEF RejectedSections
    <3> QED
      BY <2>2, <2>3, <3>1
  <2>6. CASE /\ \/ TooLarge(p.bootInstructions, bootStartAddr, memoryEnd)
                \/ TooLarge(p.midInstrDict, codeStartAddr, bootStartAddr)
             /\ Solved(p) \in ObjectsWith(t, new, {Error("size", Comment, "")})
    <3>1. RejectedSections(t, p, new, r)
      BY <1>5, <2>4, <2>6 DEF RejectedSections
    <3> QED
      BY <2>2, <2>3, <3>1
  <2>7. CASE /\ ".boot" \in p.sectionDict
             /\ ~TooLarge(p.bootInstructions, bootStartAddr, memoryEnd)
             /\ ~TooLarge(p.midInstrDict, codeStartAddr, bootStartAddr)
             /\ DOMAIN new = DOMAIN labels \union LabelsOf(p.bootInstructions)
                               \union LabelsOf(p.midInstrDict)
             /\ Solved(p) = [p EXCEPT !.labelDict = new]
    <3> DEFINE s == Solved(p)
    <3>1. s = [p EXCEPT !.labelDict = new]
      BY <2>7
    <3> HIDE DEF s
    <3>2. /\ s \in ObjectsWith(t, new, {NoError})
          /\ s.midInstrDict = p.midInstrDict /\ s.bootInstructions = p.bootInstructions
          /\ s.excpVectors = p.excpVectors /\ s.error = NoError
      BY <1>5, <2>1, <3>1, LabelsReplaced
    <3>3. r = Written(s)
      BY <1>2, <3>2 DEF s
    <3>4. InstrsToWrite(s) = InstrsToWrite(p)
      BY <3>2 DEF InstrsToWrite
    <3>5. \A l \in DOMAIN new : new[l] \in Nat
      <4>1. \A x \in codeStartAddr .. memoryEnd : x \in Nat
        BY AreasAssumption
      <4> QED
        BY <2>2, <4>1 DEF InRange
    <3>6. LabelsOf(s.midInstrDict) \subseteq DOMAIN new
      BY <2>7, <3>2
    <3>7. WrittenAs(new, s, r)
      BY <3>2, <3>3, <3>5, <3>6, WrittenIs
    <3>8. \/ /\ r.asm \in ObjectsWith(t, new, {NoError})
             /\ \A i \in InstrsToWrite(p) : Unsolved(new, i) = {}
          \/ \E i \in InstrsToWrite(p) : \E l \in Unsolved(new, i) :
               r.asm \in ObjectsWith(t, new, {Error("label", Comment, l)})
      <4>1. ASSUME NEW l, r.asm = [s EXCEPT !.error = Error("label", Comment, l)]
            PROVE  r.asm \in ObjectsWith(t, new, {Error("label", Comment, l)})
        <5> DEFINE e == Error("label", Comment, l)
                   b == r.asm
        <5>1. b = [s EXCEPT !.error = e]
          BY <4>1
        <5> HIDE DEF e, b
        <5>2. b \in ObjectsWith(t, new, {e})
          BY <3>2, <5>1, ErrorReplaced
        <5> QED
          BY <5>2 DEF e, b
      <4> QED
        BY <3>2, <3>4, <3>7, <4>1 DEF WrittenAs
    <3>9. WrittenWith(t, p, labels, new, r)
      BY <1>5, <2>7, <3>7, <3>8 DEF WrittenWith, WrittenAs
    <3> QED
      BY <2>2, <2>3, <3>9
  <2> QED
    BY <2>2, <2>5, <2>6, <2>7 DEF SolvedWith
<1> QED
  BY <1>4, <1>5

-----------------------------------------------------------------------------
(* From one text to the next *)

ErrorKinds == {"none", "line", "boot", "size", "label"}

\* An object an earlier text, or none, has left: its labels are of that text and have
\* addresses; a new object has no label and no section.
Left(old, before) ==
  \E t, labels, e :
    /\ old \in ObjectsWith(t, labels, {e}) /\ e.kind \in ErrorKinds
    /\ InRange(labels) /\ DOMAIN labels \ {"0", "1"} \subseteq before.labels
    /\ ~before.any => DOMAIN labels = {} /\ old.currentSection = "none"

\* What is typed or given is a text of the grammar.
LEMMA TextsAreTexts ==
  ASSUME NEW t \in Seq(TextLines)
  PROVE  IsText(t)
<1>1. \A n \in DOMAIN t : t[n] \in TextLines
  OBVIOUS
<1> QED
  BY <1>1, TextsAssumption DEF IsText

\* A new object is one that no earlier text left anything in.
LEMMA FreshIsLeft ==
  ASSUME NEW labels
  PROVE  Left(FreshAssembler, [any |-> FALSE, labels |-> labels])
<1> DEFINE t == << >>
           none == << >>
<1>1. DOMAIN none = {} /\ InRange(none)
  BY DEF InRange
<1>2. "0" \in Names(t) /\ "1" \in Names(t)
  BY DEF Names
<1>3. FreshAssembler \in ObjectsWith(t, none, {NoError}) /\ FreshAssembler.currentSection = "none"
  BY <1>2 DEF FreshAssembler, ObjectsWith
<1>4. NoError.kind \in ErrorKinds
  BY DEF NoError, ErrorKinds
<1> HIDE DEF t, none
<1> QED
  BY <1>1, <1>3, <1>4 DEF Left

\* What assembling a text with an object of an earlier one makes: an object of this
\* text, and an error that is about a line or an instruction of it.
LEMMA AssembledIs ==
  ASSUME NEW t, IsText(t), NEW old, NEW before, Left(old, before)
  PROVE  LET r == Assemble(Reset(old), t) IN
         /\ r.file \in Seq(FileLines)
         /\ r.asm.error.kind = "line" => \E n \in DOMAIN t : r.asm.error.line = t[n]
         /\ r.asm.error.kind = "label" =>
              \E i \in Codes(t) : r.asm.error.label \in {i.src1.label, i.src2.label}
         /\ Left(r.asm, [any |-> TRUE, labels |-> before.labels \union DefinedLabels(t)])
<1> DEFINE a == Reset(old)
           p == Parsed(a, t)
           r == Assemble(a, t)
<1>1. PICK t0, labels, e0 :
        /\ old \in ObjectsWith(t0, labels, {e0}) /\ InRange(labels)
        /\ DOMAIN labels \ {"0", "1"} \subseteq before.labels
  BY DEF Left
<1>2. a \in Objects(t, labels) /\ a.error = NoError
  BY <1>1, ResetType
<1> HIDE DEF a
<1>3. p \in Objects(t, labels)
  BY <1>1, <1>2, AssembleIs
<1>4. PICK new : /\ InRange(new) /\ DOMAIN new \subseteq DOMAIN labels \union Names(t)
                 /\ \/ new = labels /\ RejectedLine(t, p, r)
                    \/ RejectedSections(t, p, new, r)
                    \/ WrittenWith(t, p, labels, new, r)
  BY <1>1, <1>2, AssembleIs
<1> HIDE DEF p, r
<1>5. r.file \in Seq(FileLines)
  <2>1. r.file = << >> \/ r.file \in Seq(FileLines)
    BY <1>4, Zenon DEF RejectedLine, RejectedSections, WrittenWith
  <2>2. << >> \in Seq(FileLines)
    OBVIOUS
  <2> QED
    BY <2>1, <2>2, Zenon
<1>6. \E e : /\ r.asm \in ObjectsWith(t, new, {e}) /\ e.kind \in ErrorKinds
             /\ e.kind = "line" => \E n \in DOMAIN t : e.line = t[n]
             /\ e.kind = "label" => \E i \in Codes(t) : e.label \in {i.src1.label, i.src2.label}
  <2>1. CASE new = labels /\ RejectedLine(t, p, r)
    <3>1. r.asm \in ObjectsWith(t, new, {p.error})
      <4>1. r.asm = p /\ new = labels
        BY <2>1 DEF RejectedLine
      <4>2. p \in ObjectsWith(t, labels, {p.error})
        BY <1>3 DEF Objects, ObjectsWith
      <4> QED
        BY <4>1, <4>2
    <3>2. p.error.kind = "line" /\ \E n \in DOMAIN t : p.error.line = t[n]
      <4>1. p.error \in LineErrors(t)
        BY <2>1 DEF RejectedLine
      <4>2. PICK n \in DOMAIN t : p.error = Error("line", t[n], "")
        BY <4>1 DEF LineErrors
      <4>3. Error("line", t[n], "").kind = "line" /\ Error("line", t[n], "").line = t[n]
        BY DEF Error
      <4> QED
        BY <4>2, <4>3
    <3> QED
      BY <3>1, <3>2 DEF ErrorKinds
  <2>2. CASE RejectedSections(t, p, new, r)
    <3>1. PICK kind \in {"boot", "size"} : r.asm \in ObjectsWith(t, new, {Error(kind, Comment, "")})
      BY <2>2 DEF RejectedSections
    <3>2. Error(kind, Comment, "").kind = kind
      BY DEF Error
    <3> QED
      BY <3>1, <3>2 DEF ErrorKinds
  <2>3. CASE WrittenWith(t, p, labels, new, r)
    <3>1. CASE r.asm \in ObjectsWith(t, new, {NoError})
      <4>1. NoError.kind = "none"
        BY DEF NoError
      <4> QED
        BY <3>1, <4>1 DEF ErrorKinds
    <3>2. CASE \E i \in InstrsToWrite(p) : \E l \in Unsolved(new, i) :
                 r.asm \in ObjectsWith(t, new, {Error("label", Comment, l)})
      <4>1. PICK i \in InstrsToWrite(p) : \E l \in Unsolved(new, i) :
              r.asm \in ObjectsWith(t, new, {Error("label", Comment, l)})
        BY <3>2
      <4>5. PICK l \in Unsolved(new, i) : r.asm \in ObjectsWith(t, new, {Error("label", Comment, l)})
        BY <4>1
      <4>2. i \in Codes(t)
        BY <1>3, <4>1, PartsOfText DEF Objects
      <4>3. l \in {i.src1.label, i.src2.label}
        BY <4>5 DEF Unsolved
      <4>4. Error("label", Comment, l).kind = "label" /\ Error("label", Comment, l).label = l
        BY DEF Error
      <4> QED
        BY <4>2, <4>3, <4>4, <4>5 DEF ErrorKinds
    <3> QED
      BY <2>3, <3>1, <3>2 DEF WrittenWith
  <2> QED
    BY <1>4, <2>1, <2>2, <2>3
<1>7. PICK e : /\ r.asm \in ObjectsWith(t, new, {e}) /\ e.kind \in ErrorKinds
               /\ e.kind = "line" => \E n \in DOMAIN t : e.line = t[n]
               /\ e.kind = "label" => \E i \in Codes(t) : e.label \in {i.src1.label, i.src2.label}
  BY <1>6
<1>8. r.asm.error = e
  BY <1>7 DEF ObjectsWith
<1>9. Left(r.asm, [any |-> TRUE, labels |-> before.labels \union DefinedLabels(t)])
  <2>1. DOMAIN new \ {"0", "1"} \subseteq before.labels \union DefinedLabels(t)
    BY <1>1, <1>4 DEF Names
  <2> QED
    BY <1>4, <1>7, <2>1 DEF Left
<1> QED
  BY <1>5, <1>7, <1>8, <1>9 DEF r, a

-----------------------------------------------------------------------------
(* The inductive invariant, the types and the mark *)

\* While a text is typed the object is as an earlier text left it; then it is what
\* assembling the text makes of such an object, and the mark is of its error; without
\* one, the file is what was written then.
IInv ==
  /\ typed \in 0 .. MaxTyped
  /\ text \in Seq(TextLines)
  /\ phase \in {"typing", "converted"}
  /\ file \in Seq(FileLines)
  /\ marked.kind \in {"none", "line", "label"}
  /\ phase = "typing" => Left(asm, earlier)
  /\ phase = "converted" =>
       /\ \E old :
            /\ Left(old, earlier) /\ asm = Assemble(Reset(old), text).asm
            /\ asm.error = NoError => file = Assemble(Reset(old), text).file
       /\ HasPattern(asm.error) => marked = asm.error

\* Whatever is marked has an expression to find it by.
LEMMA MarkKept ==
  ASSUME NEW mark, mark.kind \in {"none", "line", "label"}, NEW error
  PROVE  MarkInvalid(mark, error).kind \in {"none", "line", "label"}
  BY DEF MarkInvalid, HasPattern

\* The state an earlier text leaves.
LEMMA EarlierText ==
  ASSUME NEW t \in EarlierTexts
  PROVE  /\ Left(AfterText(t).asm, [any |-> TRUE, labels |-> DefinedLabels(t)])
         /\ AfterText(t).file \in Seq(FileLines)
<1> DEFINE none == {}
           before == [any |-> FALSE, labels |-> none]
           D == DefinedLabels(t)
<1>1. IsText(t)
  BY TextsAssumption, TextsAreTexts
<1>2. Left(FreshAssembler, before)
  BY FreshIsLeft
<1>3. before.labels \union D = D
  OBVIOUS
<1> HIDE DEF before, D
<1>4. /\ Assemble(Reset(FreshAssembler), t).file \in Seq(FileLines)
      /\ Left(Assemble(Reset(FreshAssembler), t).asm, [any |-> TRUE, labels |-> before.labels \union D])
  BY <1>1, <1>2, AssembledIs DEF D
<1> QED
  BY <1>3, <1>4 DEF AfterText, D

\* Without an error, the file was opened and written.
LEMMA AcceptedOpened ==
  ASSUME NEW a, NEW t, Assemble(a, t).asm.error = NoError
  PROVE  Assemble(a, t).opened
<1> DEFINE s == Solved(Parsed(a, t))
           r == Assemble(a, t)
<1>1. r = IF s.error = NoError THEN Written(s) ELSE [asm |-> s, opened |-> FALSE, file |-> << >>]
  BY DEF Assemble
<1>2. r.asm.error = NoError
  OBVIOUS
<1>3. Written(s).opened
  BY DEF Written
<1> HIDE DEF s, r
<1>4. r.opened
  BY <1>1, <1>2, <1>3
<1> QED
  BY <1>4 DEF r

\* The inductive invariant holds.
LEMMA IInvHolds == Spec => []IInv
<1>1. Init => IInv
  <2> SUFFICES ASSUME Init PROVE IInv
    OBVIOUS
  <2>1. /\ typed \in 0 .. MaxTyped /\ phase = "typing" /\ phase # "converted"
        /\ text \in Seq(TextLines)
    BY TypingAssumption, TextsAssumption DEF Init
  <2>2. CASE /\ asm = FreshAssembler /\ earlier = [any |-> FALSE, labels |-> {}]
             /\ file = << >> /\ marked = NoMark
    <3>1. Left(asm, earlier)
      BY <2>2, FreshIsLeft
    <3>2. marked.kind \in {"none", "line", "label"}
      BY <2>2 DEF NoMark, NoError
    <3>3. file \in Seq(FileLines)
      BY <2>2
    <3> QED
      BY <2>1, <3>1, <3>2, <3>3 DEF IInv
  <2>3. ASSUME NEW t \in EarlierTexts, asm = AfterText(t).asm,
               earlier = [any |-> TRUE, labels |-> DefinedLabels(t)],
               file = AfterText(t).file,
               marked = MarkInvalid(NoMark, AfterText(t).asm.error)
        PROVE  IInv
    <3>1. Left(asm, earlier) /\ file \in Seq(FileLines)
      BY <2>3, EarlierText
    <3>2. NoMark.kind \in {"none", "line", "label"}
      BY DEF NoMark, NoError
    <3>3. marked.kind \in {"none", "line", "label"}
      BY <2>3, <3>2, MarkKept
    <3> QED
      BY <2>1, <3>1, <3>3 DEF IInv
  <2> QED
    BY <2>2, <2>3 DEF Init
<1>2. IInv /\ [Next]_vars => IInv'
  <2> SUFFICES ASSUME IInv, [Next]_vars PROVE IInv'
    OBVIOUS
  <2>1. ASSUME NEW line \in Lines, Type(line) PROVE IInv'
    <3>1. /\ phase = "typing" /\ typed < MaxTyped /\ typed' = typed + 1
          /\ text' = Append(text, line)
          /\ asm' = asm /\ earlier' = earlier /\ phase' = phase /\ file' = file /\ marked' = marked
      BY <2>1 DEF Type
    <3>2. typed' \in 0 .. MaxTyped
      BY <3>1, TypingAssumption DEF IInv
    <3>3. line \in TextLines
      BY DEF TextLines
    <3>4. text' \in Seq(TextLines)
      BY <3>1, <3>3 DEF IInv
    <3> QED
      BY <3>1, <3>2, <3>4 DEF IInv
  <2>2. CASE Convert
    <3> DEFINE r == Assemble(Reset(asm), text)
    <3>1. /\ phase = "typing" /\ phase' = "converted" /\ asm' = r.asm
          /\ file' = IF r.opened THEN r.file ELSE file
          /\ marked' = IF r.asm.error = NoError THEN NoMark ELSE MarkInvalid(marked, r.asm.error)
          /\ typed' = typed /\ text' = text /\ earlier' = earlier
      BY <2>2 DEF Convert
    <3>2. IsText(text) /\ Left(asm, earlier)
      BY <3>1, TextsAreTexts DEF IInv
    <3>3. r.file \in Seq(FileLines)
      BY <3>2, AssembledIs
    <3>8. asm'.error = NoError => file' = r.file
      BY <3>1, AcceptedOpened
    <3>4. \E old :
            /\ Left(old, earlier') /\ asm' = Assemble(Reset(old), text').asm
            /\ asm'.error = NoError => file' = Assemble(Reset(old), text').file
      BY <3>1, <3>2, <3>8
    <3> HIDE DEF r
    <3>5. file' \in Seq(FileLines)
      BY <3>1, <3>3 DEF IInv
    <3>6. marked'.kind \in {"none", "line", "label"}
      <4>1. NoMark.kind = "none"
        BY DEF NoMark, NoError
      <4>2. MarkInvalid(marked, r.asm.error).kind \in {"none", "line", "label"}
        BY MarkKept DEF IInv
      <4> QED
        BY <3>1, <4>1, <4>2
    <3>7. HasPattern(asm'.error) => marked' = asm'.error
      <4>1. ~HasPattern(NoError)
        BY DEF HasPattern, NoError
      <4> QED
        BY <3>1, <4>1 DEF MarkInvalid
    <3> QED
      BY <3>1, <3>4, <3>5, <3>6, <3>7 DEF IInv
  <2>3. CASE UNCHANGED vars
    BY <2>3 DEF vars, IInv, HasPattern
  <2> QED
    BY <2>1, <2>2, <2>3 DEF Next
<1> QED
  BY <1>1, <1>2, PTL DEF Spec

\* Whatever is typed, and whatever text was assembled before, the object's error and
\* the mark are of their kinds, the file's lines hold numbers and every label an
\* address from the program's start to the end of memory (pyasm.py 88-230, 333-374).
THEOREM AssemblingTypeCorrect == Spec => []TypeOK
<1>1. IInv => TypeOK
  <2> SUFFICES ASSUME IInv PROVE TypeOK
    OBVIOUS
  <2>1. \E before : Left(asm, before)
    <3>1. CASE phase = "typing"
      BY <3>1 DEF IInv
    <3>2. CASE phase = "converted"
      <4>1. PICK old : Left(old, earlier) /\ asm = Assemble(Reset(old), text).asm
        BY <3>2 DEF IInv
      <4>2. IsText(text)
        BY TextsAreTexts DEF IInv
      <4> QED
        BY <4>1, <4>2, AssembledIs
    <3> QED
      BY <3>1, <3>2 DEF IInv
  <2>2. PICK t, labels, e : /\ asm \in ObjectsWith(t, labels, {e}) /\ e.kind \in ErrorKinds
                            /\ InRange(labels)
    BY <2>1 DEF Left
  <2>3. asm.labelDict = labels /\ asm.error = e
    BY <2>2 DEF ObjectsWith
  <2>4. \A n \in DOMAIN file : file[n].header \in BOOLEAN /\ file[n].value \in Nat
    <3>1. \A n \in DOMAIN file : file[n] \in FileLines
      BY DEF IInv
    <3> QED
      BY <3>1 DEF FileLines
  <2> QED
    BY <2>2, <2>3, <2>4 DEF IInv, TypeOK, ErrorKinds, InRange
<1> QED
  BY <1>1, IInvHolds, PTL

\* Every text rejected for a line or a label has a line the mark is shown on
\* (InputTab.py 254-262, 365-371; pyasm.py 88-230, 271-280).
THEOREM RejectedIsMarkedHolds == Spec => []RejectedIsMarked
<1>1. IInv => RejectedIsMarked
  <2> SUFFICES ASSUME IInv, phase = "converted", HasPattern(asm.error)
               PROVE  MarkedLines(text, marked) # {}
    BY DEF RejectedIsMarked, Converted
  <2>1. PICK old : Left(old, earlier) /\ asm = Assemble(Reset(old), text).asm
    BY DEF IInv
  <2>2. IsText(text) /\ marked = asm.error
    BY TextsAreTexts DEF IInv
  <2>3. /\ asm.error.kind = "line" => \E n \in DOMAIN text : asm.error.line = text[n]
        /\ asm.error.kind = "label" =>
             \E i \in Codes(text) : asm.error.label \in {i.src1.label, i.src2.label}
    BY <2>1, <2>2, AssembledIs
  <2>4. CASE asm.error.kind = "line"
    <3>1. PICK n \in DOMAIN text : asm.error.line = text[n]
      BY <2>3, <2>4
    <3>2. n \in MarkedLines(text, marked)
      BY <2>2, <2>4, <3>1 DEF MarkedLines
    <3> QED
      BY <3>2
  <2>5. CASE asm.error.kind = "label"
    <3>1. PICK i \in Codes(text) : asm.error.label \in {i.src1.label, i.src2.label}
      BY <2>3, <2>5
    <3>2. PICK n \in DOMAIN text : Readable(text[n]) /\ i = Encoded(text[n])
      BY DEF Codes
    <3>3. i.src1 = text[n].src1 /\ i.src2 = text[n].src2 /\ text[n].kind = "instr"
      BY <3>2 DEF Encoded, Readable
    <3>4. n \in MarkedLines(text, marked)
      BY <2>2, <2>5, <3>1, <3>3 DEF MarkedLines
    <3> QED
      BY <3>4
  <2> QED
    BY <2>4, <2>5 DEF HasPattern
<1> QED
  BY <1>1, IInvHolds, PTL

-----------------------------------------------------------------------------
(* What the first lines of a text say *)

\* What the first k lines of a text hold: sections, labels, the words outside the
\* vectors, and of each vector its last word so far.
SectionsTo(t, k) == {t[n].name : n \in {m \in 1 .. k : t[m].kind = "section"}}
NamesTo(t, k) == {t[n].name : n \in {m \in 1 .. k : t[m].kind = "label"}}
IsVectorLine(t, n) == t[n].kind = "instr" /\ SectionOf(t, n) \in DOMAIN VectorAddr
PlainTo(t, k) ==
  {Encoded(t[n]) : n \in {m \in 1 .. k : t[m].kind = "instr" /\ ~IsVectorLine(t, m)}}
LiveTo(t, k) ==
  {n \in 1 .. k : /\ IsVectorLine(t, n)
                  /\ \A m \in 1 .. k :
                       IsVectorLine(t, m) /\ SectionOf(t, m) = SectionOf(t, n) => m <= n}
VectorOf(t, n) == [addr |-> VectorAddr[SectionOf(t, n)], instr |-> Encoded(t[n])]
VectorsTo(t, k) == {VectorOf(t, n) : n \in LiveTo(t, k)}

\* One number more.
LEMMA OneMore ==
  ASSUME NEW k \in Nat
  PROVE  1 .. k + 1 = (1 .. k) \union {k + 1} /\ \A n \in 1 .. k : n \in Nat /\ n <= k + 1 /\ n # k + 1
  OBVIOUS

\* The section of a line is the section line it is, or that of the line before.
LEMMA SectionStep ==
  ASSUME NEW t, NEW k \in Nat
  PROVE  /\ SectionOf(t, 0) = "none"
         /\ t[k + 1].kind = "section" => SectionOf(t, k + 1) = t[k + 1].name
         /\ t[k + 1].kind # "section" => SectionOf(t, k + 1) = SectionOf(t, k)
<1> DEFINE S(n) == {m \in 1 .. n : t[m].kind = "section"}
<1>1. \A n : SectionOf(t, n) = IF S(n) = {} THEN "none" ELSE t[Max(S(n))].name
  BY DEF SectionOf
<1>2. S(0) = {}
  OBVIOUS
<1>3. S(k + 1) = IF t[k + 1].kind = "section" THEN S(k) \union {k + 1} ELSE S(k)
  BY OneMore
<1>4. S(k) \subseteq 1 .. k
  OBVIOUS
<1> HIDE DEF S
<1>5. ASSUME t[k + 1].kind = "section" PROVE SectionOf(t, k + 1) = t[k + 1].name
  <2> DEFINE m == k + 1
  <2>1. S(m) = S(k) \union {m}
    BY <1>3, <1>5
  <2>2. S(m) \subseteq Int /\ m \in S(m) /\ \A y \in S(m) : m >= y
    BY <1>4, <2>1
  <2> HIDE DEF m
  <2>3. Max(S(m)) = m
    BY <2>2, MaxIs
  <2>4. SectionOf(t, m) = t[m].name
    BY <1>1, <2>2, <2>3
  <2> QED
    BY <2>4 DEF m
<1>6. ASSUME t[k + 1].kind # "section" PROVE SectionOf(t, k + 1) = SectionOf(t, k)
  <2>1. S(k + 1) = S(k)
    BY <1>3, <1>6
  <2> QED
    BY <1>1, <2>1
<1> QED
  BY <1>1, <1>2, <1>5, <1>6

\* The section of a line is one of the grammar, or none.
LEMMA SectionType ==
  ASSUME NEW t, IsText(t), NEW n \in 0 .. Len(t)
  PROVE  SectionOf(t, n) \in Sections \union {"none"}
<1> DEFINE N == Len(t)
           S == {k \in 0 .. N : SectionOf(t, k) \in Sections \union {"none"}}
<1>1. N \in Nat /\ DOMAIN t = 1 .. N
  BY DEF IsText
<1> HIDE DEF N
<1>2. 0 \in S
  BY <1>1, SectionStep
<1>3. ASSUME NEW k \in 0 .. N - 1, k \in S PROVE k + 1 \in S
  <2> DEFINE m == k + 1
  <2>1. k \in Nat /\ m \in 0 .. N /\ m \in 1 .. N
    BY <1>1
  <2>2. IsLine(t[m])
    BY <1>1, <2>1 DEF IsText
  <2>3. /\ t[m].kind = "section" => SectionOf(t, m) = t[m].name
        /\ t[m].kind # "section" => SectionOf(t, m) = SectionOf(t, k)
    BY <2>1, SectionStep
  <2> HIDE DEF m
  <2>4. SectionOf(t, m) \in Sections \union {"none"}
    BY <1>3, <2>2, <2>3, KindOfLine
  <2> QED
    BY <2>1, <2>4 DEF m
<1>4. \A k \in 0 .. N : k \in S
  <2> HIDE DEF S
  <2> QED
    BY <1>1, <1>2, <1>3, InductionTo
<1> QED
  BY <1>4 DEF N

\* What one more line adds.
LEMMA OneMoreLine ==
  ASSUME NEW t, NEW k \in Nat
  PROVE  /\ SectionsTo(t, k + 1) = IF t[k + 1].kind = "section"
                                   THEN SectionsTo(t, k) \union {t[k + 1].name} ELSE SectionsTo(t, k)
         /\ NamesTo(t, k + 1) = IF t[k + 1].kind = "label"
                                THEN NamesTo(t, k) \union {t[k + 1].name} ELSE NamesTo(t, k)
         /\ PlainTo(t, k + 1) = IF t[k + 1].kind = "instr" /\ ~IsVectorLine(t, k + 1)
                                THEN PlainTo(t, k) \union {Encoded(t[k + 1])} ELSE PlainTo(t, k)
<1> DEFINE m == k + 1
<1>1. \A n : n \in 1 .. m <=> n \in 1 .. k \/ n = m
  BY OneMore
<1>2. m = k + 1
  OBVIOUS
<1> HIDE DEF m
<1>3. /\ SectionsTo(t, m) = IF t[m].kind = "section"
                            THEN SectionsTo(t, k) \union {t[m].name} ELSE SectionsTo(t, k)
      /\ NamesTo(t, m) = IF t[m].kind = "label"
                         THEN NamesTo(t, k) \union {t[m].name} ELSE NamesTo(t, k)
  BY <1>1 DEF SectionsTo, NamesTo
<1>4. PlainTo(t, m) = IF t[m].kind = "instr" /\ ~IsVectorLine(t, m)
                      THEN PlainTo(t, k) \union {Encoded(t[m])} ELSE PlainTo(t, k)
  BY <1>1 DEF PlainTo
<1> QED
  BY <1>2, <1>3, <1>4

\* Different vectors have different addresses.
LEMMA OtherVectors ==
  \A s, r \in DOMAIN VectorAddr : VectorAddr[s] = VectorAddr[r] => s = r
  BY DEF VectorAddr

\* A line of a vector replaces the one that counted before it; another line changes
\* nothing of the vectors.
LEMMA OneMoreVector ==
  ASSUME NEW t, NEW k \in Nat
  PROVE  /\ ~IsVectorLine(t, k + 1) => VectorsTo(t, k + 1) = VectorsTo(t, k)
         /\ IsVectorLine(t, k + 1) =>
              VectorsTo(t, k + 1) =
                {v \in VectorsTo(t, k) : v.addr # VectorAddr[SectionOf(t, k + 1)]}
                  \union {VectorOf(t, k + 1)}
<1> DEFINE m == k + 1
<1>1. /\ \A n : n \in 1 .. m <=> n \in 1 .. k \/ n = m
      /\ \A n \in 1 .. k : n <= m /\ ~(m <= n) /\ n # m
      /\ m <= m /\ m \in 1 .. m
  <2>1. \A n \in 1 .. k : n <= m /\ ~(m <= n) /\ n # m
    OBVIOUS
  <2> QED
    BY <2>1, OneMore
<1>2. m = k + 1
  OBVIOUS
<1> HIDE DEF m
<1>3. ASSUME ~IsVectorLine(t, m) PROVE LiveTo(t, m) = LiveTo(t, k)
  BY <1>1, <1>3 DEF LiveTo
<1>4. ASSUME IsVectorLine(t, m)
      PROVE  LiveTo(t, m) = {n \in LiveTo(t, k) : SectionOf(t, n) # SectionOf(t, m)} \union {m}
  BY <1>1, <1>4 DEF LiveTo
<1>5. ASSUME IsVectorLine(t, m)
      PROVE  VectorsTo(t, m) = {v \in VectorsTo(t, k) : v.addr # VectorAddr[SectionOf(t, m)]}
                                 \union {VectorOf(t, m)}
  <2>1. ASSUME NEW n \in LiveTo(t, k)
        PROVE  VectorOf(t, n).addr = VectorAddr[SectionOf(t, m)]
                 <=> SectionOf(t, n) = SectionOf(t, m)
    <3>1. SectionOf(t, n) \in DOMAIN VectorAddr /\ SectionOf(t, m) \in DOMAIN VectorAddr
      BY <1>5 DEF LiveTo, IsVectorLine
    <3>2. VectorOf(t, n).addr = VectorAddr[SectionOf(t, n)]
      BY DEF VectorOf
    <3> QED
      BY <3>1, <3>2, OtherVectors
  <2> QED
    BY <1>4, <1>5, <2>1 DEF VectorsTo
<1>6. /\ ~IsVectorLine(t, m) => VectorsTo(t, m) = VectorsTo(t, k)
      /\ IsVectorLine(t, m) =>
           VectorsTo(t, m) = {v \in VectorsTo(t, k) : v.addr # VectorAddr[SectionOf(t, m)]}
                               \union {VectorOf(t, m)}
  BY <1>3, <1>5 DEF VectorsTo
<1> QED
  BY <1>2, <1>6

-----------------------------------------------------------------------------
(* Words of the areas *)

HasWord(o) == o.type \in {"imm", "addr"}

\* Counting the operands that have a word.
LEMMA OneOrTwo ==
  ASSUME NEW p, NEW q, p \in BOOLEAN, q \in BOOLEAN
  PROVE  Cardinality({k \in {1, 2} : IF k = 1 THEN p ELSE q})
           = (IF p THEN 1 ELSE 0) + (IF q THEN 1 ELSE 0)
<1> DEFINE S == {k \in {1, 2} : IF k = 1 THEN p ELSE q}
<1>1. CASE ~p /\ ~q
  <2>1. S = {}
    BY <1>1
  <2> HIDE DEF S
  <2> QED
    BY <1>1, <2>1, FS_EmptySet
<1>2. CASE p /\ ~q
  <2>1. S = {1}
    BY <1>2
  <2> HIDE DEF S
  <2>2. Cardinality({1}) = 1
    BY FS_Singleton, Zenon
  <2> QED
    BY <1>2, <2>1, <2>2
<1>3. CASE ~p /\ q
  <2>1. S = {2}
    BY <1>3
  <2> HIDE DEF S
  <2>2. Cardinality({2}) = 1
    BY FS_Singleton, Zenon
  <2> QED
    BY <1>3, <2>1, <2>2
<1>4. CASE p /\ q
  <2>1. S = {1} \union {2}
    BY <1>4
  <2> HIDE DEF S
  <2>2. IsFiniteSet({1}) /\ Cardinality({1}) = 1
    BY FS_Singleton
  <2>3. 2 \notin {1}
    OBVIOUS
  <2>4. Cardinality({1} \union {2}) = 2
    BY <2>2, <2>3, FS_AddElement
  <2> QED
    BY <1>4, <2>1, <2>4
<1> QED
  BY <1>1, <1>2, <1>3, <1>4

\* A line has as many words as its length counts bytes for, two each.
LEMMA LengthIsWords ==
  ASSUME NEW line, IsLine(line), line.kind = "instr"
  PROVE  /\ WordsOf(line) \in Nat
         /\ Readable(line) => Encoded(line).length = 2 * WordsOf(line)
<1> DEFINE o1 == line.src1
           o2 == line.src2
           enc == instrEncodings[line.mnemonic]
           data == enc.opcode = NoOpcode
           words == IF data THEN (IF o2.type = "imm" THEN o2.value ELSE 1)
                    ELSE 1 + ((IF HasWord(o1) THEN 1 ELSE 0) + (IF HasWord(o2) THEN 1 ELSE 0))
<1>1. o2.value \in Nat
  BY KindOfLine DEF IsOperand
<1>2. WordsOf(line) = words
  <2>1. {k \in {1, 2} : (IF k = 1 THEN line.src1 ELSE line.src2).type \in {"imm", "addr"}}
          = {k \in {1, 2} : IF k = 1 THEN HasWord(o1) ELSE HasWord(o2)}
    BY DEF HasWord
  <2>2. HasWord(o1) \in BOOLEAN /\ HasWord(o2) \in BOOLEAN
    BY DEF HasWord
  <2>3. Cardinality({k \in {1, 2} : IF k = 1 THEN HasWord(o1) ELSE HasWord(o2)})
          = (IF HasWord(o1) THEN 1 ELSE 0) + (IF HasWord(o2) THEN 1 ELSE 0)
    BY <2>2, OneOrTwo
  <2> QED
    BY <2>1, <2>3 DEF WordsOf, IsData
<1>3. Encoded(line).length = InstrLen(enc, o1, o2)
  BY DEF Encoded
<1>4. InstrLen(enc, o1, o2) = 2 * words /\ words \in Nat
  <2> DEFINE w1 == HasWord(o1)
             w2 == HasWord(o2)
             n == o2.value
  <2>1. InstrLen(enc, o1, o2) = IF data THEN (IF o2.type = "imm" THEN 2 * n ELSE 2)
                                ELSE 2 + (IF w1 THEN 2 ELSE 0) + (IF w2 THEN 2 ELSE 0)
    <3>1. CASE data
      BY <3>1 DEF InstrLen
    <3>2. CASE ~data
      <4>1. w1 <=> o1.type \in {"addr", "imm"}
        BY DEF HasWord
      <4>2. w2 <=> o2.type \in {"addr", "imm"}
        BY DEF HasWord
      <4>3. InstrLen(enc, o1, o2) = 2 + (IF o1.type \in {"addr", "imm"} THEN 2 ELSE 0)
                                      + (IF o2.type \in {"addr", "imm"} THEN 2 ELSE 0)
        BY <3>2 DEF InstrLen
      <4> QED
        BY <3>2, <4>1, <4>2, <4>3
    <3> QED
      BY <3>1, <3>2
  <2>2. words = IF data THEN (IF o2.type = "imm" THEN n ELSE 1)
                ELSE 1 + ((IF w1 THEN 1 ELSE 0) + (IF w2 THEN 1 ELSE 0))
    OBVIOUS
  <2>3. n \in Nat
    BY <1>1
  <2> HIDE DEF data, w1, w2, n, words, enc, o1
  <2> QED
    BY <2>1, <2>2, <2>3
<1> QED
  BY <1>2, <1>3, <1>4

\* The words of an area up to a line, and up to the next one.
WordsIn(t, area, n) ==
  IF t[n].kind = "instr" /\ AreaOf(t, n) = area THEN WordsOf(t[n]) ELSE 0

\* No line, no word.
LEMMA NoWords ==
  ASSUME NEW t, NEW area
  PROVE  AreaWords(t, area, 1) = 0
<1> DEFINE s == [n \in 1 .. 0 |-> IF n \in InstrLines(t) /\ AreaOf(t, n) = area
                                 THEN WordsOf(t[n]) ELSE 0]
<1>1. AreaWords(t, area, 1) = Total(s)
  <2>1. 1 - 1 = 0
    OBVIOUS
  <2> QED
    BY <2>1 DEF AreaWords
<1>2. s \in [1 .. 0 -> Nat]
  OBVIOUS
<1> HIDE DEF s
<1>3. PICK F \in [0 .. 0 -> Nat] : F[0] = 0 /\ F[0] = Total(s)
  BY <1>2, TotalByNumbers
<1> QED
  BY <1>1, <1>3

\* The words of an area grow by those of the next line.
LEMMA AreaWordsStep ==
  ASSUME NEW t, IsText(t), NEW area, NEW k \in 0 .. Len(t) - 1
  PROVE  /\ AreaWords(t, area, k + 1) \in Nat
         /\ WordsIn(t, area, k + 1) \in Nat
         /\ AreaWords(t, area, k + 2) = AreaWords(t, area, k + 1) + WordsIn(t, area, k + 1)
<1> DEFINE N == Len(t)
           f(m) == [n \in 1 .. m |-> IF n \in InstrLines(t) /\ AreaOf(t, n) = area
                                     THEN WordsOf(t[n]) ELSE 0]
<1>1. N \in Nat /\ DOMAIN t = 1 .. N
  BY DEF IsText
<1>2. ASSUME NEW n \in 1 .. N
      PROVE  /\ WordsIn(t, area, n) \in Nat
             /\ WordsIn(t, area, n) = IF n \in InstrLines(t) /\ AreaOf(t, n) = area
                                      THEN WordsOf(t[n]) ELSE 0
  <2>1. IsLine(t[n])
    BY <1>1 DEF IsText
  <2>2. WordsIn(t, area, n) \in Nat
    BY <2>1, LengthIsWords DEF WordsIn
  <2>3. n \in InstrLines(t) <=> t[n].kind = "instr"
    BY <1>1 DEF InstrLines
  <2> QED
    BY <2>2, <2>3 DEF WordsIn
<1> HIDE DEF N
<1>3. ASSUME NEW m \in 0 .. N
      PROVE  /\ f(m) \in [1 .. m -> Nat] /\ AreaWords(t, area, m + 1) = Total(f(m))
             /\ \A n \in 1 .. m : f(m)[n] = WordsIn(t, area, n)
  <2>1. (m + 1) - 1 = m /\ \A n \in 1 .. m : n \in 1 .. N
    BY <1>1
  <2>2. AreaWords(t, area, m + 1) = Total(f(m))
    <3> DEFINE e == m + 1
    <3>1. AreaWords(t, area, e) = Total(f(e - 1))
      BY DEF AreaWords
    <3>2. e - 1 = m
      BY <2>1
    <3> QED
      BY <3>1, <3>2
  <2>3. \A n \in 1 .. m : f(m)[n] = WordsIn(t, area, n) /\ f(m)[n] \in Nat
    BY <1>2, <2>1
  <2> QED
    BY <2>2, <2>3
<1>4. k \in 0 .. N /\ k + 1 \in 0 .. N /\ k + 1 \in 1 .. N /\ (k + 1) + 1 = k + 2 /\ k \in Nat
      /\ \A n \in 1 .. k : n \in 1 .. k + 1
  BY <1>1 DEF N
<1>5. Total(f(k)) \in Nat /\ Total(f(k + 1)) = Total(f(k)) + WordsIn(t, area, k + 1)
  <2> DEFINE s == f(k)
             r == f(k + 1)
  <2>1. /\ s \in [1 .. k -> Nat] /\ r \in [1 .. k + 1 -> Nat]
        /\ \A n \in 1 .. k : r[n] = s[n]
        /\ r[k + 1] = WordsIn(t, area, k + 1)
    <3>1. s \in [1 .. k -> Nat] /\ \A n \in 1 .. k : s[n] = WordsIn(t, area, n)
      BY <1>3, <1>4
    <3>2. r \in [1 .. k + 1 -> Nat] /\ \A n \in 1 .. k + 1 : r[n] = WordsIn(t, area, n)
      BY <1>3, <1>4
    <3> HIDE DEF s, r
    <3>3. k + 1 \in 1 .. k + 1
      BY <1>4
    <3> QED
      BY <1>4, <3>1, <3>2, <3>3
  <2> HIDE DEF s, r
  <2>2. Total(s) \in Nat
    BY <1>4, <2>1, TotalType
  <2>3. Total(r) = Total(s) + r[k + 1]
    BY <1>4, <2>1, TotalAppend
  <2>4. Total(r) = Total(s) + WordsIn(t, area, k + 1)
    BY <2>1, <2>3
  <2> QED
    BY <2>2, <2>4 DEF s, r
<1> QED
  BY <1>2, <1>3, <1>4, <1>5

-----------------------------------------------------------------------------
(* Legal lines *)

\* A line is legal after the lines before it.
LegalSoFar(t, n) ==
  /\ t[n].kind # "junk"
  /\ t[n].kind = "section" => t[n].name \notin SectionsTo(t, n - 1)
  /\ t[n].kind = "label" => SectionOf(t, n) # "none" /\ t[n].name \notin NamesTo(t, n - 1)
  /\ t[n].kind = "instr" =>
       /\ Readable(t[n]) /\ SectionOf(t, n) # "none"
       /\ SectionOf(t, n) \in {".boot", ".code"} \/ IsData(t[n])

\* The second operand of data is a number, and only a number may have a label.
LEMMA ReadableIs ==
  ASSUME NEW line, IsLine(line), line.kind = "instr"
  PROVE  Readable(line) <=>
           /\ line.mnemonic \in DOMAIN instrEncodings
           /\ OperandsFit(instrEncodings[line.mnemonic], line.src1.type, line.src2.type)
           /\ IsData(line) => line.src2.label = ""
<1> DEFINE enc == instrEncodings[line.mnemonic]
<1>1. ASSUME line.mnemonic \in DOMAIN instrEncodings, IsData(line), line.src2.label # "",
             OperandsFit(enc, line.src1.type, line.src2.type)
      PROVE  line.src2.type = "imm"
  <2>1. PICK item \in Config : enc.opcode = item.opcode /\ enc.src2 = Sources(item.src2)
    BY <1>1, OpcodeIs
  <2>2. \A s \in item.src2 : s[1] = "imm"
    BY <1>1, <2>1, ConfigAssumption DEF IsData
  <2>3. DOMAIN Sources(item.src2) \subseteq {"null", "imm"}
    BY <2>2 DEF Sources
  <2>4. line.src2.type \in {"null", "imm"}
    BY <1>1, <2>1, <2>3 DEF OperandsFit
  <2>5. line.src2.type \in {"imm", "addr"}
    BY <1>1, KindOfLine DEF IsOperand
  <2> QED
    BY <2>4, <2>5
<1> QED
  BY <1>1 DEF Readable, LengthIsNumber, IsData

\* What it means for a line to be legal, kind by kind.
LEMMA LegalLineIs ==
  ASSUME NEW t, IsText(t), NEW n \in DOMAIN t
  PROVE  LegalLine(t, n) <=>
           /\ t[n].kind # "junk"
           /\ t[n].kind = "section" => \A m \in DOMAIN t : t[m] = t[n] => m = n
           /\ t[n].kind = "label" =>
                /\ SectionOf(t, n) # "none"
                /\ \A m \in LabelLines(t) : t[m].name = t[n].name => m = n
           /\ t[n].kind = "instr" =>
                /\ Readable(t[n]) /\ SectionOf(t, n) # "none"
                /\ SectionOf(t, n) \in {".boot", ".code"} \/ IsData(t[n])
<1>1. IsLine(t[n])
  BY DEF IsText
<1>2. t[n].kind \in {"comment", "junk", "section", "label", "instr"}
  BY <1>1, KindOfLine
<1>3. CASE t[n].kind \in {"comment", "junk"}
  BY <1>3 DEF LegalLine
<1>4. CASE t[n].kind = "section"
  BY <1>4 DEF LegalLine
<1>5. CASE t[n].kind = "label"
  BY <1>5 DEF LegalLine
<1>6. CASE t[n].kind = "instr"
  <2>1. LegalLine(t, n) <=>
          /\ t[n].mnemonic \in DOMAIN instrEncodings
          /\ OperandsFit(instrEncodings[t[n].mnemonic], t[n].src1.type, t[n].src2.type)
          /\ IsData(t[n]) => t[n].src2.label = ""
          /\ SectionOf(t, n) # "none"
          /\ SectionOf(t, n) \in {".boot", ".code"} \/ IsData(t[n])
    BY <1>6 DEF LegalLine
  <2> QED
    BY <1>1, <1>6, <2>1, ReadableIs
<1> QED
  BY <1>2, <1>3, <1>4, <1>5, <1>6

\* All lines are legal if each is after the lines before it.
LEMMA AllLegal ==
  ASSUME NEW t, IsText(t)
  PROVE  (\A n \in DOMAIN t : LegalLine(t, n)) <=> \A n \in 1 .. Len(t) : LegalSoFar(t, n)
<1> DEFINE N == Len(t)
<1>1. N \in Nat /\ DOMAIN t = 1 .. N /\ \A n \in 1 .. N : IsLine(t[n])
  BY DEF IsText
<1> HIDE DEF N
<1>2. ASSUME NEW n \in 1 .. N, NEW m \in 1 .. n - 1
      PROVE  m \in 1 .. N /\ m # n
  BY <1>1
<1>3. ASSUME NEW n \in 1 .. N, NEW m \in 1 .. N, m # n
      PROVE  m \in 1 .. n - 1 \/ n \in 1 .. m - 1
  BY <1>1, <1>3
<1>4. ASSUME NEW n \in 1 .. N, NEW m \in 1 .. N, t[m] = t[n], t[n].kind = "section", m # n,
             LegalSoFar(t, n), LegalSoFar(t, m)
      PROVE  FALSE
  <2>1. t[n].name \notin SectionsTo(t, n - 1) /\ t[n].name \notin SectionsTo(t, m - 1)
    BY <1>4 DEF LegalSoFar
  <2> QED
    BY <1>3, <1>4, <2>1 DEF SectionsTo
<1>5. ASSUME NEW n \in 1 .. N, NEW m \in 1 .. N, t[m].kind = "label", t[n].kind = "label",
             t[m].name = t[n].name, m # n, LegalSoFar(t, n), LegalSoFar(t, m)
      PROVE  FALSE
  <2>1. t[n].name \notin NamesTo(t, n - 1) /\ t[n].name \notin NamesTo(t, m - 1)
    BY <1>5 DEF LegalSoFar
  <2> QED
    BY <1>3, <1>5, <2>1 DEF NamesTo
<1>6. ASSUME \A n \in 1 .. N : LegalSoFar(t, n), NEW n \in 1 .. N
      PROVE  LegalLine(t, n)
  <2>1. LegalSoFar(t, n)
    BY <1>6
  <2>2. t[n].kind = "section" => \A m \in DOMAIN t : t[m] = t[n] => m = n
    BY <1>1, <1>4, <1>6
  <2>3. t[n].kind = "label" => \A m \in LabelLines(t) : t[m].name = t[n].name => m = n
    BY <1>1, <1>5, <1>6 DEF LabelLines
  <2> QED
    BY <1>1, <2>1, <2>2, <2>3, LegalLineIs DEF LegalSoFar
<1>7. ASSUME NEW n \in 1 .. N, LegalLine(t, n)
      PROVE  LegalSoFar(t, n)
  <2>1. /\ t[n].kind # "junk"
        /\ t[n].kind = "section" => \A m \in DOMAIN t : t[m] = t[n] => m = n
        /\ t[n].kind = "label" =>
             /\ SectionOf(t, n) # "none"
             /\ \A m \in LabelLines(t) : t[m].name = t[n].name => m = n
        /\ t[n].kind = "instr" =>
             /\ Readable(t[n]) /\ SectionOf(t, n) # "none"
             /\ SectionOf(t, n) \in {".boot", ".code"} \/ IsData(t[n])
    BY <1>1, <1>7, LegalLineIs
  <2>2. ASSUME t[n].kind = "section" PROVE t[n].name \notin SectionsTo(t, n - 1)
    <3> SUFFICES ASSUME NEW m \in 1 .. n - 1, t[m].kind = "section", t[m].name = t[n].name
                 PROVE  FALSE
      BY DEF SectionsTo
    <3>1. m \in 1 .. N /\ m # n
      BY <1>2
    <3>2. t[m] = Section(t[m].name) /\ t[n] = Section(t[n].name)
      BY <1>1, <2>2, <3>1, KindOfLine
    <3> QED
      BY <1>1, <2>1, <2>2, <3>1, <3>2
  <2>3. ASSUME t[n].kind = "label" PROVE t[n].name \notin NamesTo(t, n - 1)
    <3> SUFFICES ASSUME NEW m \in 1 .. n - 1, t[m].kind = "label", t[m].name = t[n].name
                 PROVE  FALSE
      BY DEF NamesTo
    <3>1. m \in 1 .. N /\ m # n
      BY <1>2
    <3> QED
      BY <1>1, <2>1, <2>3, <3>1 DEF LabelLines
  <2> QED
    BY <2>1, <2>2, <2>3 DEF LegalSoFar
<1> QED
  BY <1>1, <1>6, <1>7 DEF N

-----------------------------------------------------------------------------
(* One line parsed *)

\* No two vectors have the same address.
OneEach(vectors) ==
  \A i, j \in DOMAIN vectors : vectors[i].addr = vectors[j].addr => i = j

\* There is still one word of each vector: the new one, and the other vectors' as they were.
LEMMA VectorReplaced ==
  ASSUME NEW X, NEW I, NEW vectors \in Seq([addr : X, instr : I]), OneEach(vectors),
         NEW addr \in X, NEW instr \in I
  PROVE  /\ OneEach(SetVector(vectors, addr, instr))
         /\ Range(SetVector(vectors, addr, instr))
              = {v \in Range(vectors) : v.addr # addr} \union {[addr |-> addr, instr |-> instr]}
<1> DEFINE new == SetVector(vectors, addr, instr)
           v0 == [addr |-> addr, instr |-> instr]
           N == Len(vectors)
<1>1. N \in Nat /\ DOMAIN vectors = 1 .. N
  OBVIOUS
<1>2. VectorSetTo(vectors, addr, v0, new)
  BY VectorSet, Zenon
<1>3. v0.addr = addr
  OBVIOUS
<1> HIDE DEF v0
<1>4. ASSUME \A k \in DOMAIN vectors : vectors[k].addr # addr, new = Append(vectors, v0)
      PROVE  /\ OneEach(new)
             /\ Range(new) = {v \in Range(vectors) : v.addr # addr} \union {v0}
  <2>1. /\ DOMAIN new = 1 .. N + 1 /\ new[N + 1] = v0
        /\ \A k \in 1 .. N : new[k] = vectors[k]
    BY <1>4
  <2>2. 1 .. N + 1 = (1 .. N) \union {N + 1} /\ \A k \in 1 .. N : k # N + 1
    BY <1>1
  <2> HIDE DEF new, N
  <2>3. OneEach(new)
    BY <1>1, <1>3, <1>4, <2>1, <2>2 DEF OneEach
  <2>4. Range(new) = Range(vectors) \union {v0}
    BY <1>1, <2>1, <2>2 DEF Range
  <2>5. \A v \in Range(vectors) : v.addr # addr
    BY <1>4 DEF Range
  <2> QED
    BY <2>3, <2>4, <2>5
<1>5. ASSUME NEW j \in DOMAIN vectors, vectors[j].addr = addr, DOMAIN new = DOMAIN vectors,
             new[j] = v0, \A k \in DOMAIN vectors : k # j => new[k] = vectors[k]
      PROVE  /\ OneEach(new)
             /\ Range(new) = {v \in Range(vectors) : v.addr # addr} \union {v0}
  <2> HIDE DEF new, N
  <2>1. \A k \in DOMAIN vectors : vectors[k].addr = addr <=> k = j
    BY <1>5 DEF OneEach
  <2>2. OneEach(new)
    BY <1>3, <1>5, <2>1 DEF OneEach
  <2>3. Range(new) = {v \in Range(vectors) : v.addr # addr} \union {v0}
    BY <1>5, <2>1 DEF Range
  <2> QED
    BY <2>2, <2>3
<1>6. OneEach(new) /\ Range(new) = {v \in Range(vectors) : v.addr # addr} \union {v0}
  BY <1>2, <1>4, <1>5 DEF VectorSetTo
<1> QED
  BY <1>6 DEF v0
SameSections(p, q) == q.sectionDict = p.sectionDict /\ q.currentSection = p.currentSection
SameLabels(p, q) == q.bootLabel = p.bootLabel /\ q.currentLabel = p.currentLabel
SameBlocks(p, q) ==
  q.bootInstructions = p.bootInstructions /\ q.midInstrDict = p.midInstrDict

\* A rejected line leaves an error.
LEMMA Rejects ==
  ASSUME NEW t, NEW labels, NEW p \in Objects(t, labels), NEW line
  PROVE  Reject(p, line).error # NoError
<1>1. Reject(p, line).error = Error("line", line, "")
  BY DEF Reject, Objects, ObjectsWith
<1>2. Error("line", line, "").kind # NoError.kind
  BY DEF Error, NoError
<1> QED
  BY <1>1, <1>2

\* What each kind of line does to an object without an error.
LEMMA SectionLineIs ==
  ASSUME NEW t, NEW labels, NEW p \in Objects(t, labels), p.error = NoError, NEW line,
         line.kind = "section", NEW q, q = ParseLine(p, line)
  PROVE  IF line.name \in p.sectionDict THEN q.error # NoError
         ELSE /\ q.error = NoError /\ q.excpVectors = p.excpVectors
              /\ q.sectionDict = p.sectionDict \union {line.name}
              /\ q.currentSection = line.name
              /\ SameLabels(p, q) /\ SameBlocks(p, q)
<1>1. q = EnterSection(p, line)
  BY DEF ParseLine
<1>2. CASE line.name \in p.sectionDict
  BY <1>1, <1>2, Rejects DEF EnterSection
<1>3. CASE line.name \notin p.sectionDict
  <2>1. q = [p EXCEPT !.sectionDict = @ \union {line.name}, !.currentSection = line.name]
    BY <1>1, <1>3 DEF EnterSection
  <2> QED
    BY <1>3, <2>1 DEF Objects, ObjectsWith, SameLabels, SameBlocks
<1> QED
  BY <1>2, <1>3

\* A label begins a block in the boot section or in the program, unless it is known or
\* no section has begun (pyasm.py 113-123).
LEMMA LabelLineIs ==
  ASSUME NEW t, NEW labels, NEW p \in Objects(t, labels), p.error = NoError, NEW line,
         line.kind = "label", NEW q, q = ParseLine(p, line)
  PROVE  IF \/ line.name \in LabelsOf(p.bootInstructions) \union LabelsOf(p.midInstrDict)
            \/ p.currentSection = "none"
         THEN q.error # NoError
         ELSE /\ q.error = NoError /\ q.excpVectors = p.excpVectors /\ SameSections(p, q)
              /\ \/ /\ p.currentSection = ".boot"
                    /\ q.bootInstructions = NewBlock(p.bootInstructions, line.name)
                    /\ q.bootLabel = line.name
                    /\ q.midInstrDict = p.midInstrDict /\ q.currentLabel = p.currentLabel
                 \/ /\ p.currentSection # ".boot"
                    /\ q.midInstrDict = NewBlock(p.midInstrDict, line.name)
                    /\ q.currentLabel = line.name
                    /\ q.bootInstructions = p.bootInstructions /\ q.bootLabel = p.bootLabel
<1>1. q = DefineLabel(p, line)
  BY DEF ParseLine
<1>2. CASE \/ line.name \in LabelsOf(p.bootInstructions) \union LabelsOf(p.midInstrDict)
           \/ p.currentSection = "none"
  BY <1>1, <1>2, Rejects DEF DefineLabel
<1>3. CASE ~ \/ line.name \in LabelsOf(p.bootInstructions) \union LabelsOf(p.midInstrDict)
             \/ p.currentSection = "none"
  <2>1. q = LabelPlaced(p, line)
    BY <1>1, <1>3 DEF DefineLabel
  <2>2. CASE p.currentSection = ".boot"
    <3>1. q = [p EXCEPT !.bootLabel = line.name, !.bootInstructions = NewBlock(@, line.name)]
      BY <2>1, <2>2 DEF LabelPlaced
    <3> QED
      BY <1>3, <2>2, <3>1 DEF Objects, ObjectsWith, SameSections
  <2>3. CASE p.currentSection # ".boot"
    <3>1. q = [p EXCEPT !.currentLabel = line.name, !.midInstrDict = NewBlock(@, line.name)]
      BY <2>1, <2>3 DEF LabelPlaced
    <3> QED
      BY <1>3, <2>3, <3>1 DEF Objects, ObjectsWith, SameSections
  <2> QED
    BY <2>2, <2>3
<1> QED
  BY <1>2, <1>3

\* An instruction goes to the block or the vector of its section, unless its operands
\* do not fit or it may not be there (pyasm.py 161-230).
LEMMA InstrLineIs ==
  ASSUME NEW t, NEW labels, NEW p \in Objects(t, labels), p.error = NoError, NEW line,
         line.kind = "instr", NEW q, q = ParseLine(p, line),
         NEW s, s = p.currentSection
  PROVE  IF \/ ~Readable(line)
            \/ ~(s \in {".boot", ".code"} \/ (s # "none" /\ Encoded(line).opcode = NoOpcode))
         THEN q.error # NoError
         ELSE /\ q.error = NoError /\ SameSections(p, q) /\ SameLabels(p, q)
              /\ \/ /\ s = ".boot"
                    /\ q.bootInstructions = AddTo(p.bootInstructions, p.bootLabel, Encoded(line))
                    /\ q.midInstrDict = p.midInstrDict /\ q.excpVectors = p.excpVectors
                 \/ /\ s \in {".code", ".data"}
                    /\ q.midInstrDict = AddTo(p.midInstrDict, p.currentLabel, Encoded(line))
                    /\ q.bootInstructions = p.bootInstructions /\ q.excpVectors = p.excpVectors
                 \/ /\ s \in DOMAIN VectorAddr
                    /\ q.excpVectors = SetVector(p.excpVectors, VectorAddr[s], Encoded(line))
                    /\ SameBlocks(p, q)
<1> DEFINE i == Encoded(line)
           data == i.opcode = NoOpcode
<1>1. q = AddInstr(p, line)
  BY DEF ParseLine
<1>2. s \in {".boot", ".code", ".data", "none"} \union DOMAIN VectorAddr
  BY DEF Objects, ObjectsWith, Sections
<1>3. CASE ~Readable(line)
  <2>1. q = Reject(p, line)
    BY <1>1, <1>3 DEF AddInstr, Readable
  <2> QED
    BY <1>3, <2>1, Rejects
<1>4. CASE Readable(line)
  <2>1. q = PlaceInstr(p, line, i)
    BY <1>1, <1>4 DEF AddInstr, Readable
  <2> HIDE DEF i
  <2>2. CASE s = ".boot"
    <3>1. q = [p EXCEPT !.bootInstructions = AddTo(@, p.bootLabel, i)]
      BY <2>1, <2>2, OtherSections DEF PlaceInstr
    <3> QED
      BY <1>4, <2>2, <3>1 DEF Objects, ObjectsWith, SameSections, SameLabels, i
  <2>3. CASE s = ".code" \/ (s = ".data" /\ data)
    <3>1. q = [p EXCEPT !.midInstrDict = AddTo(@, p.currentLabel, i)]
      BY <2>1, <2>3, OtherSections DEF PlaceInstr
    <3>2. /\ q.error = NoError /\ SameSections(p, q) /\ SameLabels(p, q)
          /\ q.midInstrDict = AddTo(p.midInstrDict, p.currentLabel, i)
          /\ q.bootInstructions = p.bootInstructions /\ q.excpVectors = p.excpVectors
      BY <3>1 DEF Objects, ObjectsWith, SameSections, SameLabels
    <3> QED
      BY <1>4, <2>3, <3>2 DEF i
  <2>4. CASE s \in DOMAIN VectorAddr /\ data
    <3>0. s \notin {".boot", ".code", ".data", "none"}
      BY <2>4, OtherSections
    <3>1. q = [p EXCEPT !.excpVectors = SetVector(@, VectorAddr[s], i)]
      BY <2>1, <2>4, <3>0 DEF PlaceInstr
    <3>2. /\ q.error = NoError /\ SameSections(p, q) /\ SameLabels(p, q)
          /\ q.excpVectors = SetVector(p.excpVectors, VectorAddr[s], i)
          /\ SameBlocks(p, q)
      BY <3>1 DEF Objects, ObjectsWith, SameSections, SameLabels, SameBlocks
    <3> QED
      BY <1>4, <2>4, <3>0, <3>2 DEF i
  <2>5. CASE s = "none" \/ (s = ".data" /\ ~data) \/ (s \in DOMAIN VectorAddr /\ ~data)
    <3>0. s \notin {".boot", ".code"} /\ (s = "none" \/ ~data)
      BY <2>5, OtherSections
    <3>1. q = Reject(p, line)
      BY <2>1, <2>5, <3>0, OtherSections DEF PlaceInstr
    <3> QED
      BY <1>4, <3>0, <3>1, Rejects DEF i
  <2> QED
    BY <1>2, <2>2, <2>3, <2>4, <2>5
<1> QED
  BY <1>3, <1>4

\* A comment changes nothing, anything else is rejected.
LEMMA OtherLineIs ==
  ASSUME NEW t, NEW labels, NEW p \in Objects(t, labels), p.error = NoError, NEW line
  PROVE  /\ line.kind = "comment" => ParseLine(p, line) = p
         /\ line.kind = "junk" => ParseLine(p, line).error # NoError
<1>1. line.kind = "comment" => ParseLine(p, line) = p
  BY DEF ParseLine
<1>2. line.kind = "junk" => ParseLine(p, line) = Reject(p, line)
  BY DEF ParseLine
<1> QED
  BY <1>1, <1>2, Rejects

-----------------------------------------------------------------------------
(* The object holds what the lines say *)

\* The object holds what the first k lines say; begun says in which section.
Holds(t, begun, k, p) ==
  /\ p.sectionDict = SectionsTo(t, k)
  /\ p.currentSection = IF SectionOf(t, k) = "none" THEN begun ELSE SectionOf(t, k)
  /\ (LabelsOf(p.bootInstructions) \union LabelsOf(p.midInstrDict)) \ {"0", "1"} = NamesTo(t, k)
  /\ p.bootLabel \in {"1"} \union NamesTo(t, k) /\ p.currentLabel \in {"0"} \union NamesTo(t, k)
  /\ SizeOf(p.bootInstructions) = 2 * AreaWords(t, ".boot", k + 1)
  /\ SizeOf(p.midInstrDict) = 2 * AreaWords(t, "program", k + 1)
  /\ InstrsOf(p.bootInstructions) \union InstrsOf(p.midInstrDict) = PlainTo(t, k)
  /\ OneEach(p.excpVectors) /\ Range(p.excpVectors) = VectorsTo(t, k)

\* Before its first section a text is as if it began in none.
Begins(t, begun) == begun = "none" \/ (begun \in Sections /\ StartsInSection(t))

\* A line that is no instruction adds no word.
LEMMA NotAnInstr ==
  ASSUME NEW t, IsText(t), NEW k \in 0 .. Len(t) - 1, t[k + 1].kind # "instr"
  PROVE  /\ \A area : AreaWords(t, area, k + 2) = AreaWords(t, area, k + 1)
         /\ PlainTo(t, k + 1) = PlainTo(t, k) /\ VectorsTo(t, k + 1) = VectorsTo(t, k)
<1>1. k \in Nat
  BY DEF IsText
<1>2. ASSUME NEW area PROVE AreaWords(t, area, k + 2) = AreaWords(t, area, k + 1)
  <2>1. /\ AreaWords(t, area, k + 1) \in Nat
        /\ AreaWords(t, area, k + 2) = AreaWords(t, area, k + 1) + WordsIn(t, area, k + 1)
    BY AreaWordsStep
  <2>2. WordsIn(t, area, k + 1) = 0
    BY DEF WordsIn
  <2> QED
    BY <2>1, <2>2
<1>3. ~IsVectorLine(t, k + 1)
  BY DEF IsVectorLine
<1> QED
  BY <1>1, <1>2, <1>3, OneMoreLine, OneMoreVector

\* The object's section is that of the line to parse.
LEMMA CurrentIs ==
  ASSUME NEW t, IsText(t), NEW begun, Begins(t, begun), NEW k \in 0 .. Len(t) - 1,
         NEW p, Holds(t, begun, k, p), t[k + 1].kind \in {"label", "instr"}
  PROVE  p.currentSection = SectionOf(t, k + 1)
<1>1. k \in Nat /\ k + 1 \in DOMAIN t
  BY DEF IsText
<1>2. SectionOf(t, k + 1) = SectionOf(t, k)
  BY <1>1, SectionStep
<1>3. CASE SectionOf(t, k) # "none"
  BY <1>2, <1>3 DEF Holds
<1>4. CASE SectionOf(t, k) = "none"
  <2>1. ~StartsInSection(t)
    BY <1>1, <1>2, <1>4 DEF StartsInSection, InstrLines, LabelLines
  <2>2. begun = "none"
    BY <2>1 DEF Begins
  <2> QED
    BY <1>2, <1>4, <2>2 DEF Holds
<1> QED
  BY <1>3, <1>4

\* A section line keeps what the object holds.
LEMMA SectionHeld ==
  ASSUME NEW t, IsText(t), NEW begun, NEW k \in 0 .. Len(t) - 1, NEW labels,
         NEW p \in Objects(t, labels), p.error = NoError, Holds(t, begun, k, p),
         t[k + 1].kind = "section", NEW q, q = ParseLine(p, t[k + 1])
  PROVE  /\ q.error = NoError <=> LegalSoFar(t, k + 1)
         /\ q.error = NoError => Holds(t, begun, k + 1, q)
<1> DEFINE m == k + 1
           line == t[m]
<1>1. k \in Nat /\ m \in DOMAIN t /\ m - 1 = k /\ m + 1 = k + 2
  BY DEF IsText
<1>2. IF line.name \in p.sectionDict THEN q.error # NoError
      ELSE /\ q.error = NoError /\ q.excpVectors = p.excpVectors
           /\ q.sectionDict = p.sectionDict \union {line.name}
           /\ q.currentSection = line.name
           /\ SameLabels(p, q) /\ SameBlocks(p, q)
  BY SectionLineIs
<1>3. LegalSoFar(t, m) <=> line.name \notin SectionsTo(t, k)
  BY <1>1 DEF LegalSoFar
<1>4. q.error = NoError <=> LegalSoFar(t, m)
  BY <1>2, <1>3 DEF Holds
<1>5. SectionOf(t, m) = line.name /\ line.name # "none"
  <2>1. IsLine(line)
    BY <1>1 DEF IsText
  <2>2. line.name \in Sections
    BY <2>1, KindOfLine
  <2> QED
    BY <1>1, <2>2, SectionStep DEF Sections, VectorAddr
<1>6. /\ SectionsTo(t, m) = SectionsTo(t, k) \union {line.name} /\ NamesTo(t, m) = NamesTo(t, k)
      /\ PlainTo(t, m) = PlainTo(t, k) /\ VectorsTo(t, m) = VectorsTo(t, k)
      /\ \A area : AreaWords(t, area, m + 1) = AreaWords(t, area, m)
  BY <1>1, OneMoreLine, NotAnInstr
<1>7. ASSUME q.error = NoError PROVE Holds(t, begun, m, q)
  <2>1. /\ q.excpVectors = p.excpVectors /\ q.sectionDict = p.sectionDict \union {line.name}
        /\ q.currentSection = line.name
        /\ q.bootLabel = p.bootLabel /\ q.currentLabel = p.currentLabel
        /\ q.bootInstructions = p.bootInstructions /\ q.midInstrDict = p.midInstrDict
    BY <1>2, <1>7 DEF SameLabels, SameBlocks
  <2> QED
    BY <1>5, <1>6, <2>1, Zenon DEF Holds
<1> QED
  BY <1>4, <1>7

\* A comment keeps what the object holds.
LEMMA CommentHeld ==
  ASSUME NEW t, IsText(t), NEW begun, NEW k \in 0 .. Len(t) - 1,
         NEW p, Holds(t, begun, k, p), t[k + 1].kind = "comment"
  PROVE  LegalSoFar(t, k + 1) /\ Holds(t, begun, k + 1, p)
<1> DEFINE m == k + 1
<1>1. k \in Nat /\ m - 1 = k /\ m + 1 = k + 2
  BY DEF IsText
<1>2. LegalSoFar(t, m)
  BY DEF LegalSoFar
<1>3. /\ SectionsTo(t, m) = SectionsTo(t, k) /\ NamesTo(t, m) = NamesTo(t, k)
      /\ PlainTo(t, m) = PlainTo(t, k) /\ VectorsTo(t, m) = VectorsTo(t, k)
      /\ \A area : AreaWords(t, area, m + 1) = AreaWords(t, area, m)
      /\ SectionOf(t, m) = SectionOf(t, k)
  BY <1>1, OneMoreLine, NotAnInstr, SectionStep
<1>4. Holds(t, begun, m, p)
  BY <1>3, Zenon DEF Holds
<1> QED
  BY <1>2, <1>4

\* A label line keeps what the object holds.
LEMMA LabelHeld ==
  ASSUME NEW t, IsText(t), NEW begun, Begins(t, begun), NEW k \in 0 .. Len(t) - 1, NEW labels,
         NEW p \in Objects(t, labels), p.error = NoError, Holds(t, begun, k, p),
         t[k + 1].kind = "label", NEW q, q = ParseLine(p, t[k + 1])
  PROVE  /\ q.error = NoError <=> LegalSoFar(t, k + 1)
         /\ q.error = NoError => Holds(t, begun, k + 1, q)
<1> DEFINE m == k + 1
           line == t[m]
           boot == p.bootInstructions
           mid == p.midInstrDict
<1>1. k \in Nat /\ m \in DOMAIN t /\ m - 1 = k /\ m + 1 = k + 2
  BY DEF IsText
<1>2. p.currentSection = SectionOf(t, m)
  BY CurrentIs
<1>3. line.name \notin {"0", "1"} /\ line.name \in Names(t)
  <2>1. IsLine(line)
    BY <1>1 DEF IsText
  <2>2. IsLabel(line.name)
    BY <2>1, KindOfLine
  <2>3. line.name \in DefinedLabels(t)
    BY <1>1 DEF DefinedLabels, LabelLines
  <2> QED
    BY <2>2, <2>3 DEF IsLabel, Names
<1>4. line.name \in LabelsOf(boot) \union LabelsOf(mid) <=> line.name \in NamesTo(t, k)
  BY <1>3 DEF Holds
<1>5. LegalSoFar(t, m) <=> SectionOf(t, m) # "none" /\ line.name \notin NamesTo(t, k)
  BY <1>1 DEF LegalSoFar
<1>6. IF line.name \in LabelsOf(boot) \union LabelsOf(mid) \/ p.currentSection = "none"
      THEN q.error # NoError
      ELSE /\ q.error = NoError /\ q.excpVectors = p.excpVectors /\ SameSections(p, q)
           /\ \/ /\ p.currentSection = ".boot"
                 /\ q.bootInstructions = NewBlock(boot, line.name) /\ q.bootLabel = line.name
                 /\ q.midInstrDict = mid /\ q.currentLabel = p.currentLabel
              \/ /\ p.currentSection # ".boot"
                 /\ q.midInstrDict = NewBlock(mid, line.name) /\ q.currentLabel = line.name
                 /\ q.bootInstructions = boot /\ q.bootLabel = p.bootLabel
  BY LabelLineIs
<1>7. q.error = NoError <=> LegalSoFar(t, m)
  BY <1>2, <1>4, <1>5, <1>6
<1>8. /\ SectionsTo(t, m) = SectionsTo(t, k) /\ NamesTo(t, m) = NamesTo(t, k) \union {line.name}
      /\ PlainTo(t, m) = PlainTo(t, k) /\ VectorsTo(t, m) = VectorsTo(t, k)
      /\ \A area : AreaWords(t, area, m + 1) = AreaWords(t, area, m)
      /\ SectionOf(t, m) = SectionOf(t, k)
  BY <1>1, OneMoreLine, NotAnInstr, SectionStep
<1>9. ASSUME NEW blocks \in {boot, mid}
      PROVE  /\ LabelsOf(NewBlock(blocks, line.name)) = LabelsOf(blocks) \union {line.name}
             /\ InstrsOf(NewBlock(blocks, line.name)) = InstrsOf(blocks)
             /\ SizeOf(NewBlock(blocks, line.name)) = SizeOf(blocks)
  <2>1. blocks \in Seq(Blocks(Names(t), Codes(t)))
    BY DEF Objects, ObjectsWith
  <2>2. \A i \in Codes(t) : i.length \in Nat
    BY CodesType
  <2> DEFINE l == line.name
  <2>3. l \in Names(t)
    BY <1>3
  <2> HIDE DEF l
  <2>4. /\ LabelsOf(NewBlock(blocks, l)) = LabelsOf(blocks) \union {l}
        /\ InstrsOf(NewBlock(blocks, l)) = InstrsOf(blocks)
        /\ SizeOf(NewBlock(blocks, l)) = SizeOf(blocks)
    BY <2>1, <2>2, <2>3, BlockAdded
  <2> QED
    BY <2>4 DEF l
<1>10. ASSUME q.error = NoError PROVE Holds(t, begun, m, q)
  <2>1. /\ q.excpVectors = p.excpVectors
        /\ q.sectionDict = p.sectionDict /\ q.currentSection = p.currentSection
    BY <1>6, <1>10 DEF SameSections
  <2>2. /\ LabelsOf(q.bootInstructions) \union LabelsOf(q.midInstrDict)
             = LabelsOf(boot) \union LabelsOf(mid) \union {line.name}
        /\ InstrsOf(q.bootInstructions) = InstrsOf(boot)
        /\ InstrsOf(q.midInstrDict) = InstrsOf(mid)
        /\ SizeOf(q.bootInstructions) = SizeOf(boot)
        /\ SizeOf(q.midInstrDict) = SizeOf(mid)
        /\ q.bootLabel \in {p.bootLabel, line.name}
        /\ q.currentLabel \in {p.currentLabel, line.name}
    <3> HIDE DEF boot, mid, line
    <3>1. CASE /\ p.currentSection = ".boot"
               /\ q.bootInstructions = NewBlock(boot, line.name) /\ q.bootLabel = line.name
               /\ q.midInstrDict = mid /\ q.currentLabel = p.currentLabel
      BY <1>9, <3>1
    <3>2. CASE /\ p.currentSection # ".boot"
               /\ q.midInstrDict = NewBlock(mid, line.name) /\ q.currentLabel = line.name
               /\ q.bootInstructions = boot /\ q.bootLabel = p.bootLabel
      BY <1>9, <3>2
    <3> QED
      BY <1>6, <1>10, <3>1, <3>2
  <2>3. /\ (LabelsOf(q.bootInstructions) \union LabelsOf(q.midInstrDict)) \ {"0", "1"} = NamesTo(t, m)
        /\ q.bootLabel \in {"1"} \union NamesTo(t, m)
        /\ q.currentLabel \in {"0"} \union NamesTo(t, m)
    <3> HIDE DEF line, m
    <3> QED
      BY <1>3, <1>8, <2>2 DEF Holds, boot, mid
  <2> QED
    BY <1>8, <2>1, <2>2, <2>3, Zenon DEF Holds
<1> QED
  BY <1>7, <1>10

\* Where an instruction is placed: the boot section, the program or a vector.
LEMMA InstrHeld ==
  ASSUME NEW t, IsText(t), NEW begun, Begins(t, begun), NEW k \in 0 .. Len(t) - 1, NEW labels,
         NEW p \in Objects(t, labels), p.error = NoError, Holds(t, begun, k, p),
         t[k + 1].kind = "instr", NEW q, q = ParseLine(p, t[k + 1])
  PROVE  /\ q.error = NoError <=> LegalSoFar(t, k + 1)
         /\ q.error = NoError => Holds(t, begun, k + 1, q)
<1> DEFINE m == k + 1
           line == t[m]
           s == SectionOf(t, m)
           i == Encoded(line)
           data == i.opcode = NoOpcode
           boot == p.bootInstructions
           mid == p.midInstrDict
<1>1. k \in Nat /\ m \in DOMAIN t /\ m - 1 = k /\ m + 1 = k + 2 /\ m \in 0 .. Len(t)
  BY DEF IsText
<1>2. s = p.currentSection /\ s \in Sections \union {"none"}
  BY <1>1, CurrentIs, SectionType
<1>3. IsLine(line) /\ (data <=> IsData(line))
  BY <1>1 DEF IsText, Encoded, IsData
<1>4. IF ~Readable(line) \/ ~(s \in {".boot", ".code"} \/ (s # "none" /\ data))
      THEN q.error # NoError
      ELSE /\ q.error = NoError /\ SameSections(p, q) /\ SameLabels(p, q)
           /\ \/ /\ s = ".boot"
                 /\ q.bootInstructions = AddTo(boot, p.bootLabel, i)
                 /\ q.midInstrDict = mid /\ q.excpVectors = p.excpVectors
              \/ /\ s \in {".code", ".data"}
                 /\ q.midInstrDict = AddTo(mid, p.currentLabel, i)
                 /\ q.bootInstructions = boot /\ q.excpVectors = p.excpVectors
              \/ /\ s \in DOMAIN VectorAddr
                 /\ q.excpVectors = SetVector(p.excpVectors, VectorAddr[s], i)
                 /\ SameBlocks(p, q)
  BY <1>2, InstrLineIs
<1>5. LegalSoFar(t, m) <=> Readable(line) /\ s # "none" /\ (s \in {".boot", ".code"} \/ data)
  BY <1>3 DEF LegalSoFar
<1>6. q.error = NoError <=> LegalSoFar(t, m)
  BY <1>4, <1>5
<1>7. /\ SectionsTo(t, m) = SectionsTo(t, k) /\ NamesTo(t, m) = NamesTo(t, k)
      /\ PlainTo(t, m) = IF s \notin DOMAIN VectorAddr THEN PlainTo(t, k) \union {i} ELSE PlainTo(t, k)
      /\ VectorsTo(t, m) = IF s \in DOMAIN VectorAddr
                           THEN {v \in VectorsTo(t, k) : v.addr # VectorAddr[s]}
                                  \union {[addr |-> VectorAddr[s], instr |-> i]}
                           ELSE VectorsTo(t, k)
      /\ SectionOf(t, m) = SectionOf(t, k)
  <2>1. IsVectorLine(t, m) <=> s \in DOMAIN VectorAddr
    BY DEF IsVectorLine
  <2>2. VectorOf(t, m) = [addr |-> VectorAddr[s], instr |-> i]
    BY DEF VectorOf
  <2> QED
    BY <1>1, <2>1, <2>2, OneMoreLine, OneMoreVector, SectionStep
<1>8. ASSUME NEW area, Readable(line)
      PROVE  /\ AreaWords(t, area, m) \in Nat
             /\ AreaOf(t, m) = area => 2 * AreaWords(t, area, m + 1) = 2 * AreaWords(t, area, m) + i.length
             /\ AreaOf(t, m) # area => AreaWords(t, area, m + 1) = AreaWords(t, area, m)
  <2> DEFINE w == WordsOf(line)
             w1 == AreaWords(t, area, m)
             w2 == AreaWords(t, area, m + 1)
  <2>1. w1 \in Nat /\ w2 = w1 + WordsIn(t, area, m)
    BY <1>1, AreaWordsStep
  <2>2. w \in Nat /\ i.length = 2 * w
    BY <1>3, <1>8, LengthIsWords
  <2>3. WordsIn(t, area, m) = IF AreaOf(t, m) = area THEN w ELSE 0
    BY DEF WordsIn
  <2> HIDE DEF w, w1, w2, i, line
  <2>4. /\ AreaOf(t, m) = area => 2 * w2 = 2 * w1 + i.length
        /\ AreaOf(t, m) # area => w2 = w1
    BY <2>1, <2>2, <2>3
  <2> QED
    BY <2>1, <2>4 DEF w1, w2
<1>9. AreaOf(t, m) = IF s = ".boot" \/ s \in DOMAIN VectorAddr THEN s ELSE "program"
  BY DEF AreaOf
<1>10. /\ ".boot" \notin DOMAIN VectorAddr /\ "program" \notin DOMAIN VectorAddr
       /\ ".code" \notin DOMAIN VectorAddr /\ ".data" \notin DOMAIN VectorAddr
  BY DEF VectorAddr
<1>11. ASSUME Readable(line), NEW blocks \in {boot, mid}, NEW label \in Names(t)
       PROVE  LET new == AddTo(blocks, label, i) IN
              /\ LabelsOf(new) = LabelsOf(blocks) \union {label}
              /\ InstrsOf(new) = InstrsOf(blocks) \union {i}
              /\ SizeOf(new) = SizeOf(blocks) + i.length
  <2>1. blocks \in Seq(Blocks(Names(t), Codes(t)))
    BY DEF Objects, ObjectsWith
  <2>2. \A j \in Codes(t) : j.length \in Nat
    BY CodesType
  <2>3. i \in Codes(t)
    BY <1>1, <1>11 DEF Codes
  <2> HIDE DEF i
  <2> QED
    BY <2>1, <2>2, <2>3, <1>11, InstrAdded
<1>12. p.bootLabel \in Names(t) /\ p.currentLabel \in Names(t)
  BY DEF Objects, ObjectsWith
<1> HIDE DEF i, s, line, boot, mid, data
<1>13. ASSUME q.error = NoError PROVE Holds(t, begun, m, q)
  <2>1. /\ Readable(line)
        /\ q.sectionDict = p.sectionDict /\ q.currentSection = p.currentSection
        /\ q.bootLabel = p.bootLabel /\ q.currentLabel = p.currentLabel
    BY <1>4, <1>13 DEF SameSections, SameLabels
  <2>2. /\ p.sectionDict = SectionsTo(t, m)
        /\ p.currentSection = IF SectionOf(t, m) = "none" THEN begun ELSE SectionOf(t, m)
        /\ p.bootLabel \in {"1"} \union NamesTo(t, m) /\ p.currentLabel \in {"0"} \union NamesTo(t, m)
        /\ (LabelsOf(boot) \union LabelsOf(mid)) \ {"0", "1"} = NamesTo(t, m)
        /\ SizeOf(boot) = 2 * AreaWords(t, ".boot", m)
        /\ SizeOf(mid) = 2 * AreaWords(t, "program", m)
        /\ InstrsOf(boot) \union InstrsOf(mid) = PlainTo(t, k)
        /\ OneEach(p.excpVectors) /\ Range(p.excpVectors) = VectorsTo(t, k)
    BY <1>7, Zenon DEF Holds, boot, mid
  <2>3. CASE /\ s = ".boot"
             /\ q.bootInstructions = AddTo(boot, p.bootLabel, i)
             /\ q.midInstrDict = mid /\ q.excpVectors = p.excpVectors
    <3>1. /\ LabelsOf(q.bootInstructions) = LabelsOf(boot) \union {p.bootLabel}
          /\ InstrsOf(q.bootInstructions) = InstrsOf(boot) \union {i}
          /\ SizeOf(q.bootInstructions) = SizeOf(boot) + i.length
      BY <1>11, <1>12, <2>1, <2>3
    <3>2. /\ SizeOf(q.bootInstructions) = 2 * AreaWords(t, ".boot", m + 1)
          /\ SizeOf(q.midInstrDict) = 2 * AreaWords(t, "program", m + 1)
      BY <1>8, <1>9, <2>1, <2>2, <2>3, <3>1
    <3>3. PlainTo(t, m) = PlainTo(t, k) \union {i} /\ VectorsTo(t, m) = VectorsTo(t, k)
      BY <1>7, <1>10, <2>3
    <3>4. (LabelsOf(q.bootInstructions) \union LabelsOf(q.midInstrDict)) \ {"0", "1"} = NamesTo(t, m)
      BY <2>2, <2>3, <3>1
    <3>5. InstrsOf(q.bootInstructions) \union InstrsOf(q.midInstrDict) = PlainTo(t, m)
      BY <2>2, <2>3, <3>1, <3>3
    <3> QED
      BY <2>1, <2>2, <2>3, <3>2, <3>3, <3>4, <3>5, Zenon DEF Holds
  <2>4. CASE /\ s \in {".code", ".data"}
             /\ q.midInstrDict = AddTo(mid, p.currentLabel, i)
             /\ q.bootInstructions = boot /\ q.excpVectors = p.excpVectors
    <3>0. AreaOf(t, m) = "program" /\ s \notin DOMAIN VectorAddr
      BY <1>9, <1>10, <2>4
    <3>1. /\ LabelsOf(q.midInstrDict) = LabelsOf(mid) \union {p.currentLabel}
          /\ InstrsOf(q.midInstrDict) = InstrsOf(mid) \union {i}
          /\ SizeOf(q.midInstrDict) = SizeOf(mid) + i.length
      BY <1>11, <1>12, <2>1, <2>4
    <3>2. /\ SizeOf(q.bootInstructions) = 2 * AreaWords(t, ".boot", m + 1)
          /\ SizeOf(q.midInstrDict) = 2 * AreaWords(t, "program", m + 1)
      BY <1>8, <3>0, <2>1, <2>2, <2>4, <3>1
    <3>3. PlainTo(t, m) = PlainTo(t, k) \union {i} /\ VectorsTo(t, m) = VectorsTo(t, k)
      BY <1>7, <3>0
    <3>4. (LabelsOf(q.bootInstructions) \union LabelsOf(q.midInstrDict)) \ {"0", "1"} = NamesTo(t, m)
      BY <2>2, <2>4, <3>1
    <3>5. InstrsOf(q.bootInstructions) \union InstrsOf(q.midInstrDict) = PlainTo(t, m)
      BY <2>2, <2>4, <3>1, <3>3
    <3> QED
      BY <2>1, <2>2, <2>4, <3>2, <3>3, <3>4, <3>5, Zenon DEF Holds
  <2>5. CASE /\ s \in DOMAIN VectorAddr
             /\ q.excpVectors = SetVector(p.excpVectors, VectorAddr[s], i)
             /\ SameBlocks(p, q)
    <3>1. q.bootInstructions = boot /\ q.midInstrDict = mid
      BY <2>5 DEF SameBlocks, boot, mid
    <3>2. AreaOf(t, m) = s /\ s # ".boot" /\ s # "program"
      BY <1>9, <1>10, <2>5
    <3>3. /\ SizeOf(q.bootInstructions) = 2 * AreaWords(t, ".boot", m + 1)
          /\ SizeOf(q.midInstrDict) = 2 * AreaWords(t, "program", m + 1)
      BY <1>8, <2>1, <2>2, <3>1, <3>2
    <3>4. /\ PlainTo(t, m) = PlainTo(t, k)
          /\ VectorsTo(t, m) = {v \in VectorsTo(t, k) : v.addr # VectorAddr[s]}
                                 \union {[addr |-> VectorAddr[s], instr |-> i]}
      BY <1>7, <2>5
    <3>5. OneEach(q.excpVectors) /\ Range(q.excpVectors) = VectorsTo(t, m)
      <4> DEFINE X == {VectorAddr[r] : r \in DOMAIN VectorAddr}
                 a == VectorAddr[s]
                 vs == p.excpVectors
      <4>1. vs \in Seq([addr : X, instr : Codes(t)])
        BY DEF Objects, ObjectsWith, Vectors
      <4>2. a \in X
        BY <2>5
      <4>3. i \in Codes(t)
        BY <1>1, <2>1 DEF Codes, i, line
      <4>4. OneEach(vs)
        BY <2>2
      <4> HIDE DEF X, a, vs
      <4>5. OneEach(SetVector(vs, a, i))
        BY <4>1, <4>2, <4>3, <4>4, VectorReplaced
      <4>6. Range(SetVector(vs, a, i)) = {v \in Range(vs) : v.addr # a} \union {[addr |-> a, instr |-> i]}
        BY <4>1, <4>2, <4>3, <4>4, VectorReplaced
      <4> QED
        BY <2>2, <2>5, <3>4, <4>5, <4>6 DEF a, vs
    <3> QED
      BY <2>1, <2>2, <3>1, <3>3, <3>4, <3>5, Zenon DEF Holds
  <2> QED
    BY <1>4, <1>13, <2>3, <2>4, <2>5
<1> QED
  BY <1>6, <1>13

\* An object as Reset leaves it, with the section begun.
Reseted(t, labels, begun, a) ==
  /\ a \in Objects(t, labels) /\ a.error = NoError
  /\ a.sectionDict = {} /\ a.midInstrDict = << >> /\ a.bootInstructions = << >>
  /\ a.excpVectors = << >> /\ a.currentLabel = "0" /\ a.bootLabel = "1"
  /\ a.currentSection = begun

\* Before the first line the object holds nothing.
LEMMA NothingHeld ==
  ASSUME NEW t, IsText(t), NEW labels, NEW begun, NEW a, Reseted(t, labels, begun, a)
  PROVE  Holds(t, begun, 0, a)
<1>1. 1 .. 0 = {}
  OBVIOUS
<1>2. /\ SectionsTo(t, 0) = {} /\ NamesTo(t, 0) = {} /\ PlainTo(t, 0) = {} /\ LiveTo(t, 0) = {}
  BY <1>1 DEF SectionsTo, NamesTo, PlainTo, LiveTo
<1>3. VectorsTo(t, 0) = {}
  BY <1>2 DEF VectorsTo
<1>4. /\ AreaWords(t, ".boot", 0 + 1) = 0 /\ AreaWords(t, "program", 0 + 1) = 0
  BY NoWords
<1>5. SizeOf(<< >>) = 0
  <2> DEFINE s == [k \in DOMAIN << >> |-> Total(Lengths((<< >>)[k].instrs))]
  <2>1. SizeOf(<< >>) = Total(s)
    BY DEF SizeOf
  <2>2. s \in [1 .. 0 -> Nat]
    OBVIOUS
  <2> HIDE DEF s
  <2>3. PICK F \in [0 .. 0 -> Nat] : F[0] = 0 /\ F[0] = Total(s)
    BY <2>2, TotalByNumbers
  <2> QED
    BY <2>1, <2>3
<1>6. LabelsOf(<< >>) = {} /\ InstrsOf(<< >>) = {} /\ Range(<< >>) = {} /\ OneEach(<< >>)
  BY DEF LabelsOf, InstrsOf, Range, OneEach
<1>7. SectionOf(t, 0) = "none"
  BY SectionStep
<1>8. 2 * 0 = 0
  OBVIOUS
<1> QED
  BY <1>2, <1>3, <1>4, <1>5, <1>6, <1>7, <1>8 DEF Holds, Reseted

\* A line parsed: its error is that it is not legal after the lines before it.
LEMMA LineHeld ==
  ASSUME NEW t, IsText(t), NEW begun, Begins(t, begun), NEW k \in 0 .. Len(t) - 1, NEW labels,
         NEW p \in Objects(t, labels), p.error = NoError, Holds(t, begun, k, p),
         NEW q, q = ParseLine(p, t[k + 1])
  PROVE  /\ q.error = NoError <=> LegalSoFar(t, k + 1)
         /\ q.error = NoError => Holds(t, begun, k + 1, q)
<1>1. k + 1 \in DOMAIN t
  BY DEF IsText
<1>2. t[k + 1].kind \in {"comment", "junk", "section", "label", "instr"}
  BY <1>1, KindOfLine DEF IsText
<1>3. CASE t[k + 1].kind = "comment"
  BY <1>3, CommentHeld, OtherLineIs
<1>4. CASE t[k + 1].kind = "junk"
  BY <1>4, OtherLineIs DEF LegalSoFar
<1>5. CASE t[k + 1].kind = "section"
  BY <1>5, SectionHeld
<1>6. CASE t[k + 1].kind = "label"
  BY <1>6, LabelHeld
<1>7. CASE t[k + 1].kind = "instr"
  BY <1>7, InstrHeld
<1> QED
  BY <1>2, <1>3, <1>4, <1>5, <1>6, <1>7

\* Parsing succeeds when every line is legal after the lines before it, and then the
\* object holds what the lines say.
LEMMA ParsedHolds ==
  ASSUME NEW t, IsText(t), NEW begun, Begins(t, begun), NEW labels,
         NEW a, Reseted(t, labels, begun, a)
  PROVE  /\ Parsed(a, t).error = NoError <=> \A n \in 1 .. Len(t) : LegalSoFar(t, n)
         /\ Parsed(a, t).error = NoError => Holds(t, begun, Len(t), Parsed(a, t))
<1> DEFINE N == Len(t)
           Good(k, p) == /\ p \in Objects(t, labels)
                         /\ p.error = NoError <=> \A n \in 1 .. k : LegalSoFar(t, n)
                         /\ p.error = NoError => Holds(t, begun, k, p)
<1>1. N \in Nat /\ DOMAIN t = 1 .. N
  BY DEF IsText
<1> HIDE DEF N, Good
<1>2. PICK F : ParseStates(a, t, N, F)
  BY <1>1, ParsedByLines
<1>0. /\ F[0] = a /\ F[N] = Parsed(a, t)
      /\ \A k \in 1 .. N : F[k] = ParseLine(F[k - 1], t[k])
  BY <1>2 DEF ParseStates
<1>3. Good(0, a)
  <2>1. \A n \in 1 .. 0 : LegalSoFar(t, n)
    OBVIOUS
  <2> QED
    BY <2>1, NothingHeld DEF Reseted, Good
<1>4. ASSUME NEW k \in 0 .. N - 1, Good(k, F[k]) PROVE Good(k + 1, F[k + 1])
  <2>1. k + 1 \in 1 .. N /\ (k + 1) - 1 = k /\ k \in Nat
    BY <1>1
  <2>2. F[k + 1] = ParseLine(F[k], t[k + 1])
    BY <1>0, <2>1
  <2>3. \A n : n \in 1 .. k + 1 <=> n \in 1 .. k \/ n = k + 1
    BY <2>1, OneMore
  <2> USE DEF Good, N
  <2> DEFINE p == F[k]
             q == F[k + 1]
             m == k + 1
  <2>4. q \in Objects(t, labels)
    BY <1>1, <1>4, <2>1, <2>2, ParseLineType
  <2>5. CASE p.error = NoError
    <3>1. /\ q.error = NoError <=> LegalSoFar(t, m)
          /\ q.error = NoError => Holds(t, begun, m, q)
      BY <1>4, <2>2, <2>5, LineHeld
    <3> QED
      BY <1>4, <2>3, <2>4, <2>5, <3>1
  <2>6. CASE p.error # NoError
    <3>1. q = p
      BY <2>2, <2>6 DEF ParseLine
    <3> QED
      BY <1>4, <2>3, <2>4, <2>6, <3>1
  <2> QED
    BY <2>5, <2>6
<1> DEFINE S == {k \in 0 .. N : Good(k, F[k])}
<1>5. 0 \in S
  BY <1>1, <1>0, <1>3
<1>6. ASSUME NEW k \in 0 .. N - 1, k \in S PROVE k + 1 \in S
  <2>1. k + 1 \in 0 .. N
    BY <1>1
  <2> QED
    BY <1>4, <1>6, <2>1
<1>7. \A k \in 0 .. N : k \in S
  <2> HIDE DEF S, N
  <2> QED
    BY <1>1, <1>5, <1>6, InductionTo
<1>8. Good(N, F[N])
  <2>1. N \in 0 .. N
    BY <1>1
  <2> QED
    BY <1>7, <2>1
<1> QED
  BY <1>0, <1>8 DEF Good, N

-----------------------------------------------------------------------------
(* Accepted texts *)

KnownLabels(t, labels) == DefinedLabels(t) \union (DOMAIN labels \ {"0", "1"})

\* The lines that count are the last ones of the vectors and all others.
LEMMA LiveIs ==
  ASSUME NEW t, IsText(t), NEW n
  PROVE  n \in LiveLines(t) <=> \/ n \in LiveTo(t, Len(t))
                                \/ n \in 1 .. Len(t) /\ t[n].kind = "instr" /\ ~IsVectorLine(t, n)
<1> DEFINE N == Len(t)
<1>0. N \in Nat /\ DOMAIN t = 1 .. N
  BY DEF IsText
<1> SUFFICES n \in LiveLines(t) <=> \/ n \in LiveTo(t, N)
                                    \/ n \in 1 .. N /\ t[n].kind = "instr" /\ ~IsVectorLine(t, n)
  OBVIOUS
<1> HIDE DEF N
<1>1. \A m : m \in InstrLines(t) <=> m \in 1 .. N /\ t[m].kind = "instr"
  BY <1>0 DEF InstrLines
<1>2. CASE n \in 1 .. N /\ IsVectorLine(t, n)
  <2>1. SectionOf(t, n) \in DOMAIN VectorAddr /\ n \in InstrLines(t)
    BY <1>1, <1>2 DEF IsVectorLine
  <2>2. n \in LiveLines(t) <=>
          \A m \in InstrLines(t) : SectionOf(t, m) = SectionOf(t, n) => m <= n
    BY <2>1 DEF LiveLines
  <2>3. \A m : m \in InstrLines(t) /\ SectionOf(t, m) = SectionOf(t, n)
                 <=> m \in 1 .. N /\ IsVectorLine(t, m) /\ SectionOf(t, m) = SectionOf(t, n)
    BY <1>1, <2>1 DEF IsVectorLine
  <2> QED
    BY <1>2, <2>2, <2>3 DEF LiveTo
<1>3. CASE ~(n \in 1 .. N /\ IsVectorLine(t, n))
  BY <1>1, <1>3 DEF LiveLines, LiveTo, IsVectorLine
<1> QED
  BY <1>2, <1>3

\* What is written is the lines that count.
LEMMA WrittenAreLive ==
  ASSUME NEW t, IsText(t), NEW begun, NEW p, Holds(t, begun, Len(t), p)
  PROVE  InstrsToWrite(p) = {Encoded(t[n]) : n \in LiveLines(t)}
<1> DEFINE N == Len(t)
<1>1. N \in Nat /\ DOMAIN t = 1 .. N
  BY DEF IsText
<1>2. /\ InstrsOf(p.bootInstructions) \union InstrsOf(p.midInstrDict) = PlainTo(t, N)
      /\ Range(p.excpVectors) = VectorsTo(t, N)
  BY DEF Holds
<1> HIDE DEF N
<1>3. {p.excpVectors[k].instr : k \in DOMAIN p.excpVectors} = {v.instr : v \in VectorsTo(t, N)}
  <2> DEFINE vs == p.excpVectors
             V == VectorsTo(t, N)
  <2>1. V = {vs[k] : k \in DOMAIN vs}
    BY <1>2 DEF Range
  <2> HIDE DEF vs, V
  <2>2. {vs[k].instr : k \in DOMAIN vs} = {v.instr : v \in V}
    BY <2>1
  <2> QED
    BY <2>2 DEF vs, V
<1>4. {v.instr : v \in VectorsTo(t, N)} = {Encoded(t[n]) : n \in LiveTo(t, N)}
  <2>1. \A n : VectorOf(t, n).instr = Encoded(t[n])
    BY DEF VectorOf
  <2>2. VectorsTo(t, N) = {VectorOf(t, n) : n \in LiveTo(t, N)}
    BY DEF VectorsTo
  <2> QED
    BY <2>1, <2>2
<1>5. \A n : n \in LiveLines(t) <=> \/ n \in LiveTo(t, N)
                                    \/ n \in 1 .. N /\ t[n].kind = "instr" /\ ~IsVectorLine(t, n)
  <2> TAKE n
  <2>1. n \in LiveLines(t) <=> \/ n \in LiveTo(t, Len(t))
                               \/ n \in 1 .. Len(t) /\ t[n].kind = "instr" /\ ~IsVectorLine(t, n)
    BY LiveIs
  <2> QED
    BY <2>1 DEF N
<1>6. PlainTo(t, N) \union {Encoded(t[n]) : n \in LiveTo(t, N)} = {Encoded(t[n]) : n \in LiveLines(t)}
  BY <1>5 DEF PlainTo
<1> QED
  BY <1>2, <1>3, <1>4, <1>6 DEF InstrsToWrite

\* All labels used are known, if no instruction to write has an unknown one.
LEMMA LabelsUsed ==
  ASSUME NEW t, IsText(t), NEW new,
         \A n \in LiveLines(t) : Readable(t[n])
  PROVE  UsedLabels(t) \subseteq DOMAIN new \ {"0", "1"}
           <=> \A n \in LiveLines(t) : Unsolved(new, Encoded(t[n])) = {}
<1>1. ASSUME NEW n \in LiveLines(t)
      PROVE  /\ Encoded(t[n]).src1 = t[n].src1 /\ Encoded(t[n]).src2 = t[n].src2
             /\ \A l \in {t[n].src1.label, t[n].src2.label} \ {""} : l \notin {"0", "1"}
  <2>1. IsLine(t[n]) /\ t[n].kind = "instr"
    BY DEF IsText, LiveLines, InstrLines
  <2>2. IsOperand(t[n].src1) /\ IsOperand(t[n].src2)
    BY <2>1, KindOfLine
  <2> QED
    BY <2>2 DEF Encoded, IsOperand, IsLabel
<1>2. ASSUME NEW n \in LiveLines(t)
      PROVE  Unsolved(new, Encoded(t[n])) = {}
               <=> {t[n].src1.label, t[n].src2.label} \ {""} \subseteq DOMAIN new \ {"0", "1"}
  BY <1>1 DEF Unsolved
<1> DEFINE S(n) == {t[n].src1.label, t[n].src2.label}
           L == LiveLines(t)
           known == DOMAIN new \ {"0", "1"}
<1>3. UsedLabels(t) = UNION {S(n) \ {""} : n \in L}
  BY DEF UsedLabels
<1>4. \A n \in L : Unsolved(new, Encoded(t[n])) = {} <=> S(n) \ {""} \subseteq known
  BY <1>2
<1> HIDE DEF S, L, known
<1>5. UsedLabels(t) \subseteq known <=> \A n \in L : S(n) \ {""} \subseteq known
  BY <1>3
<1> QED
  BY <1>4, <1>5 DEF L, known

\* An object accepts the legal texts, labels it knows included.
LEMMA AcceptedIs ==
  ASSUME NEW t, IsText(t), NEW begun, Begins(t, begun), NEW labels, InRange(labels),
         NEW a, Reseted(t, labels, begun, a)
  PROVE  Assemble(a, t).asm.error = NoError <=> LegalBesidesVectors(t, KnownLabels(t, labels))
<1> DEFINE N == Len(t)
           p == Parsed(a, t)
           r == Assemble(a, t)
           known == KnownLabels(t, labels)
<1>1. N \in Nat /\ DOMAIN t = 1 .. N /\ \A n \in 1 .. N : IsLine(t[n])
  BY DEF IsText
<1>2. /\ p.error = NoError <=> \A n \in 1 .. N : LegalSoFar(t, n)
      /\ p.error = NoError => Holds(t, begun, N, p)
  BY ParsedHolds
<1>3. a \in Objects(t, labels) /\ a.error = NoError
  BY DEF Reseted
<1>4. p \in Objects(t, labels)
  BY <1>3, ParsedType
<1>5. PICK new : /\ InRange(new) /\ DOMAIN new \subseteq DOMAIN labels \union Names(t)
                 /\ \/ new = labels /\ RejectedLine(t, p, r)
                    \/ RejectedSections(t, p, new, r)
                    \/ WrittenWith(t, p, labels, new, r)
  BY <1>3, AssembleIs
<1>6. (\A n \in DOMAIN t : LegalLine(t, n)) <=> p.error = NoError
  BY <1>2, AllLegal
<1> HIDE DEF p, r, N, known
<1>7. CASE RejectedLine(t, p, r)
  <2>1. r.asm.error # NoError /\ p.error # NoError
    <3>1. PICK n \in DOMAIN t : p.error = Error("line", t[n], "")
      BY <1>7 DEF RejectedLine, LineErrors
    <3>2. Error("line", t[n], "").kind # NoError.kind
      BY DEF Error, NoError
    <3>3. r.asm = p
      BY <1>7 DEF RejectedLine
    <3> QED
      BY <3>1, <3>2, <3>3
  <2>2. ~LegalBesidesVectors(t, known)
    BY <1>6, <2>1 DEF LegalBesidesVectors
  <2> QED
    BY <2>1, <2>2 DEF r, known
<1>8. ASSUME p.error = NoError
      PROVE  /\ \A n \in DOMAIN t : LegalLine(t, n)
             /\ (\E n \in DOMAIN t : t[n] = Section(".boot")) <=> ".boot" \in p.sectionDict
             /\ bootStartAddr + 2 * AreaWords(t, ".boot", N + 1) <= memoryEnd
                  <=> ~TooLarge(p.bootInstructions, bootStartAddr, memoryEnd)
             /\ codeStartAddr + 2 * AreaWords(t, "program", N + 1) <= bootStartAddr
                  <=> ~TooLarge(p.midInstrDict, codeStartAddr, bootStartAddr)
  <2>1. Holds(t, begun, N, p)
    BY <1>2, <1>8
  <2>2. (\E n \in DOMAIN t : t[n] = Section(".boot")) <=> ".boot" \in p.sectionDict
    <3>1. p.sectionDict = SectionsTo(t, N)
      BY <2>1 DEF Holds
    <3>2. \A n \in 1 .. N : t[n].kind = "section" => t[n] = Section(t[n].name)
      BY <1>1, KindOfLine
    <3>3. Section(".boot").kind = "section" /\ Section(".boot").name = ".boot"
      BY DEF Section
    <3> QED
      BY <1>1, <3>1, <3>2, <3>3 DEF SectionsTo
  <2>3. /\ SizeOf(p.bootInstructions) = 2 * AreaWords(t, ".boot", N + 1)
        /\ SizeOf(p.midInstrDict) = 2 * AreaWords(t, "program", N + 1)
    BY <2>1 DEF Holds
  <2>4. SizeOf(p.bootInstructions) \in Nat /\ SizeOf(p.midInstrDict) \in Nat
    <3>1. /\ p.bootInstructions \in Seq(Blocks(Names(t), Codes(t)))
          /\ p.midInstrDict \in Seq(Blocks(Names(t), Codes(t)))
      BY <1>4 DEF Objects, ObjectsWith
    <3>2. \A i \in Codes(t) : i.length \in Nat
      BY CodesType
    <3> QED
      BY <3>1, <3>2, SizesType
  <2>5. /\ TooLarge(p.bootInstructions, bootStartAddr, memoryEnd)
             <=> bootStartAddr + 2 * AreaWords(t, ".boot", N + 1) > memoryEnd
        /\ TooLarge(p.midInstrDict, codeStartAddr, bootStartAddr)
             <=> codeStartAddr + 2 * AreaWords(t, "program", N + 1) > bootStartAddr
    BY <2>3 DEF TooLarge
  <2>6. /\ 2 * AreaWords(t, ".boot", N + 1) \in Nat /\ 2 * AreaWords(t, "program", N + 1) \in Nat
    BY <2>3, <2>4
  <2> QED
    BY <1>6, <1>8, <2>2, <2>5, <2>6, AreasAssumption
<1>9. CASE RejectedSections(t, p, new, r)
  <2>1. r.asm.error # NoError
    <3>1. PICK kind \in {"boot", "size"} : r.asm \in ObjectsWith(t, new, {Error(kind, Comment, "")})
      BY <1>9 DEF RejectedSections
    <3>2. r.asm.error = Error(kind, Comment, "")
      BY <3>1 DEF ObjectsWith
    <3>3. Error(kind, Comment, "").kind # NoError.kind
      BY DEF Error, NoError
    <3> QED
      BY <3>2, <3>3
  <2>2. /\ p.error = NoError
        /\ \/ ".boot" \notin p.sectionDict
           \/ TooLarge(p.bootInstructions, bootStartAddr, memoryEnd)
           \/ TooLarge(p.midInstrDict, codeStartAddr, bootStartAddr)
    BY <1>9 DEF RejectedSections
  <2>3. ~LegalBesidesVectors(t, known)
    BY <1>8, <2>2 DEF LegalBesidesVectors, N
  <2> QED
    BY <2>1, <2>3 DEF r, known
<1>10. CASE WrittenWith(t, p, labels, new, r)
  <2>1. /\ p.error = NoError /\ ".boot" \in p.sectionDict
        /\ ~TooLarge(p.bootInstructions, bootStartAddr, memoryEnd)
        /\ ~TooLarge(p.midInstrDict, codeStartAddr, bootStartAddr)
        /\ DOMAIN new = DOMAIN labels \union LabelsOf(p.bootInstructions) \union LabelsOf(p.midInstrDict)
    BY <1>10 DEF WrittenWith
  <2>2. LegalBesidesVectors(t, known) <=> UsedLabels(t) \subseteq known
    BY <1>8, <2>1 DEF LegalBesidesVectors, N
  <2>3. Holds(t, begun, N, p)
    BY <1>2, <2>1
  <2>4. DOMAIN new \ {"0", "1"} = known
    <3>1. (LabelsOf(p.bootInstructions) \union LabelsOf(p.midInstrDict)) \ {"0", "1"} = NamesTo(t, N)
      BY <2>3 DEF Holds
    <3>2. NamesTo(t, N) = DefinedLabels(t)
      BY <1>1 DEF NamesTo, DefinedLabels, LabelLines
    <3> QED
      BY <2>1, <3>1, <3>2 DEF known, KnownLabels
  <2>5. \A n \in LiveLines(t) : Readable(t[n])
    <3>1. \A n \in LiveLines(t) : n \in 1 .. N /\ t[n].kind = "instr"
      BY <1>1 DEF LiveLines, InstrLines
    <3> QED
      BY <1>2, <2>1, <3>1 DEF LegalSoFar
  <2>6. UsedLabels(t) \subseteq known <=> \A n \in LiveLines(t) : Unsolved(new, Encoded(t[n])) = {}
    BY <2>4, <2>5, LabelsUsed
  <2>7. InstrsToWrite(p) = {Encoded(t[n]) : n \in LiveLines(t)}
    BY <2>3, WrittenAreLive DEF N
  <2>8. CASE /\ r.asm \in ObjectsWith(t, new, {NoError})
             /\ \A i \in InstrsToWrite(p) : Unsolved(new, i) = {}
    <3>1. r.asm.error = NoError
      BY <2>8 DEF ObjectsWith
    <3>2. LegalBesidesVectors(t, known)
      BY <2>2, <2>6, <2>7, <2>8
    <3> QED
      BY <3>1, <3>2 DEF r, known
  <2>9. ASSUME NEW i \in InstrsToWrite(p), NEW l \in Unsolved(new, i),
               r.asm \in ObjectsWith(t, new, {Error("label", Comment, l)})
        PROVE  r.asm.error # NoError /\ ~LegalBesidesVectors(t, known)
    <3>1. r.asm.error = Error("label", Comment, l)
      BY <2>9 DEF ObjectsWith
    <3>2. Error("label", Comment, l).kind # NoError.kind
      BY DEF Error, NoError
    <3>3. ~LegalBesidesVectors(t, known)
      BY <2>2, <2>6, <2>7
    <3> QED
      BY <3>1, <3>2, <3>3
  <2> QED
    BY <1>10, <2>8, <2>9 DEF WrittenWith, r, known
<1> QED
  BY <1>5, <1>7, <1>9, <1>10

\* A text that begins in a section, or is the first one: an object accepts it as the
\* labels of the texts before allow.
LEMMA AcceptedByLeft ==
  ASSUME NEW t, IsText(t), NEW before, NEW old, Left(old, before),
         ~before.any \/ StartsInSection(t)
  PROVE  \E labels :
           /\ DOMAIN labels \ {"0", "1"} \subseteq before.labels
           /\ ~before.any => DOMAIN labels = {}
           /\ Assemble(Reset(old), t).asm.error = NoError
                <=> LegalBesidesVectors(t, KnownLabels(t, labels))
<1>1. PICK t0, labels, e :
        /\ old \in ObjectsWith(t0, labels, {e}) /\ InRange(labels)
        /\ DOMAIN labels \ {"0", "1"} \subseteq before.labels
        /\ ~before.any => DOMAIN labels = {} /\ old.currentSection = "none"
  BY DEF Left
<1> DEFINE begun == old.currentSection
           a == Reset(old)
<1>2. /\ a \in Objects(t, labels) /\ a.error = NoError /\ a.currentSection = begun
      /\ a.sectionDict = {} /\ a.midInstrDict = << >> /\ a.bootInstructions = << >>
      /\ a.excpVectors = << >> /\ a.currentLabel = "0" /\ a.bootLabel = "1"
  BY <1>1, ResetType
<1>3. begun \in Sections \union {"none"}
  BY <1>1 DEF ObjectsWith
<1>4. Begins(t, begun)
  BY <1>1, <1>3 DEF Begins
<1> HIDE DEF begun, a
<1>5. Reseted(t, labels, begun, a)
  BY <1>2 DEF Reseted
<1>6. Assemble(a, t).asm.error = NoError <=> LegalBesidesVectors(t, KnownLabels(t, labels))
  BY <1>1, <1>4, <1>5, AcceptedIs
<1> QED
  BY <1>1, <1>6 DEF a

\* With more labels known a legal text stays legal.
LEMMA MoreIsLegal ==
  ASSUME NEW t, NEW known, NEW more, known \subseteq more, LegalBesidesVectors(t, known)
  PROVE  LegalBesidesVectors(t, more)
  BY DEF LegalBesidesVectors

\* In a legal text every instruction and label is in a section.
LEMMA LegalStarts ==
  ASSUME NEW t, IsText(t), NEW known, LegalBesidesVectors(t, known)
  PROVE  StartsInSection(t)
<1> SUFFICES ASSUME NEW n \in InstrLines(t) \union LabelLines(t)
             PROVE  SectionOf(t, n) # "none"
  BY DEF StartsInSection
<1>1. n \in DOMAIN t /\ t[n].kind \in {"instr", "label"}
  BY DEF InstrLines, LabelLines
<1>2. LegalLine(t, n)
  BY <1>1 DEF LegalBesidesVectors
<1> QED
  BY <1>1, <1>2, LegalLineIs

\* A new object accepts every legal text, and no others but those with more than one
\* word in a vector (pyasm.py 88-230, 271-280, 333-361).
THEOREM AcceptsLegalButForVectorsHolds == Spec => []AcceptsLegalButForVectors
<1>1. IInv => AcceptsLegalButForVectors
  <2> SUFFICES ASSUME IInv, phase = "converted", ~earlier.any
               PROVE  /\ Legal(text, DefinedLabels(text)) => asm.error = NoError
                      /\ asm.error = NoError => LegalBesidesVectors(text, DefinedLabels(text))
    BY DEF AcceptsLegalButForVectors, Converted
  <2>1. PICK old : Left(old, earlier) /\ asm = Assemble(Reset(old), text).asm
    BY DEF IInv
  <2>2. IsText(text)
    BY TextsAreTexts DEF IInv
  <2>3. PICK labels :
          /\ DOMAIN labels = {}
          /\ asm.error = NoError <=> LegalBesidesVectors(text, KnownLabels(text, labels))
    BY <2>1, <2>2, AcceptedByLeft
  <2>4. KnownLabels(text, labels) = DefinedLabels(text)
    BY <2>3 DEF KnownLabels
  <2>5. Legal(text, DefinedLabels(text)) => LegalBesidesVectors(text, DefinedLabels(text))
    BY DEF Legal
  <2> QED
    BY <2>3, <2>4, <2>5
<1> QED
  BY <1>1, IInvHolds, PTL

\* With a text assembled before, every text legal by itself is accepted, and one
\* accepted whose lines are all in a section of its own is legal with the labels of
\* the text before known too (Reset, pyasm.py 376-382).
THEOREM EarlierTextsOnlyAddHolds == Spec => []EarlierTextsOnlyAdd
<1>1. IInv => EarlierTextsOnlyAdd
  <2> SUFFICES ASSUME IInv, phase = "converted"
               PROVE  /\ LegalBesidesVectors(text, DefinedLabels(text)) => asm.error = NoError
                      /\ asm.error = NoError /\ StartsInSection(text)
                           => LegalBesidesVectors(text, DefinedLabels(text) \union earlier.labels)
    BY DEF EarlierTextsOnlyAdd, Converted
  <2>1. PICK old : Left(old, earlier) /\ asm = Assemble(Reset(old), text).asm
    BY DEF IInv
  <2>2. IsText(text)
    BY TextsAreTexts DEF IInv
  <2>3. CASE ~StartsInSection(text)
    BY <2>2, <2>3, LegalStarts
  <2>4. CASE StartsInSection(text)
    <3>1. PICK labels : /\ DOMAIN labels \ {"0", "1"} \subseteq earlier.labels
                        /\ asm.error = NoError <=> LegalBesidesVectors(text, KnownLabels(text, labels))
      BY <2>1, <2>2, <2>4, AcceptedByLeft
    <3> DEFINE known == KnownLabels(text, labels)
               own == DefinedLabels(text)
    <3>2. own \subseteq known /\ known \subseteq own \union earlier.labels
      BY <3>1 DEF KnownLabels
    <3> HIDE DEF known, own
    <3>3. LegalBesidesVectors(text, own) => LegalBesidesVectors(text, known)
      BY <3>2, MoreIsLegal
    <3>4. LegalBesidesVectors(text, known) => LegalBesidesVectors(text, own \union earlier.labels)
      BY <3>2, MoreIsLegal
    <3> QED
      BY <3>1, <3>3, <3>4 DEF known, own
  <2> QED
    BY <2>3, <2>4
<1> QED
  BY <1>1, IInvHolds, PTL

-----------------------------------------------------------------------------
(* Where instructions and blocks begin *)

\* The blocks before a block, and the bytes before an instruction of a block.
BlockAt(blocks, b) == SizeOf(SubSeq(blocks, 1, b - 1))
InstrAt(instrs, j) == Total(Lengths(SubSeq(instrs, 1, j - 1)))
Before(blocks, b, j) == BlockAt(blocks, b) + InstrAt(blocks[b].instrs, j)

\* The first elements of sequences that agree on them are the same.
LEMMA SameFirst ==
  ASSUME NEW S, NEW p \in Seq(S), NEW q \in Seq(S), NEW m \in 0 .. Len(p), m <= Len(q),
         \A k \in 1 .. m : p[k] = q[k]
  PROVE  SubSeq(p, 1, m) = SubSeq(q, 1, m)
  OBVIOUS

\* All the elements.
LEMMA AllFirst ==
  ASSUME NEW S, NEW p \in Seq(S)
  PROVE  SubSeq(p, 1, Len(p)) = p
  OBVIOUS

\* The bytes of the instructions up to one.
LEMMA InstrAtStep ==
  ASSUME NEW I, \A i \in I : i.length \in Nat, NEW instrs \in Seq(I), NEW j \in 1 .. Len(instrs)
  PROVE  /\ InstrAt(instrs, 1) = 0 /\ InstrAt(instrs, j) \in Nat
         /\ InstrAt(instrs, j + 1) = InstrAt(instrs, j) + instrs[j].length
         /\ InstrAt(instrs, Len(instrs) + 1) = Total(Lengths(instrs))
<1> DEFINE p == SubSeq(instrs, 1, j - 1)
           q == SubSeq(instrs, 1, j)
<1>1. /\ p \in Seq(I) /\ q \in Seq(I) /\ q = Append(p, instrs[j]) /\ instrs[j] \in I
  OBVIOUS
<1>2. Total(Lengths(q)) = Total(Lengths(p)) + instrs[j].length /\ Total(Lengths(p)) \in Nat
  <2> HIDE DEF p, q
  <2>1. Total(Lengths(Append(p, instrs[j]))) = Total(Lengths(p)) + instrs[j].length
    BY <1>1, LengthOfMore
  <2>2. Total(Lengths(p)) \in Nat
    BY <1>1, LengthsType
  <2> QED
    BY <1>1, <2>1, <2>2
<1>3. InstrAt(instrs, j + 1) = Total(Lengths(q)) /\ InstrAt(instrs, j) = Total(Lengths(p))
  <2>1. (j + 1) - 1 = j
    OBVIOUS
  <2> QED
    BY <2>1 DEF InstrAt
<1>4. InstrAt(instrs, 1) = 0
  <2>1. SubSeq(instrs, 1, 1 - 1) = << >>
    OBVIOUS
  <2> DEFINE z == << >>
  <2>2. Lengths(z) \in [1 .. 0 -> Nat]
    BY DEF Lengths
  <2> HIDE DEF z
  <2>3. PICK F \in [0 .. 0 -> Nat] : F[0] = 0 /\ F[0] = Total(Lengths(z))
    BY <2>2, TotalByNumbers
  <2> QED
    BY <2>1, <2>3 DEF InstrAt, z
<1>5. InstrAt(instrs, Len(instrs) + 1) = Total(Lengths(instrs))
  <2>1. (Len(instrs) + 1) - 1 = Len(instrs)
    OBVIOUS
  <2>2. SubSeq(instrs, 1, Len(instrs)) = instrs
    BY AllFirst
  <2> QED
    BY <2>1, <2>2 DEF InstrAt
<1> QED
  BY <1>2, <1>3, <1>4, <1>5

\* The bytes of the blocks up to one.
LEMMA BlockAtStep ==
  ASSUME NEW X, NEW I, \A i \in I : i.length \in Nat, NEW blocks \in Seq(Blocks(X, I)),
         NEW b \in 1 .. Len(blocks)
  PROVE  /\ BlockAt(blocks, b) \in Nat
         /\ BlockAt(blocks, b + 1) = BlockAt(blocks, b) + Total(Lengths(blocks[b].instrs))
         /\ BlockAt(blocks, Len(blocks) + 1) = SizeOf(blocks)
         /\ BlockAt(blocks, b) <= SizeOf(blocks)
<1> DEFINE p == SubSeq(blocks, 1, b - 1)
           q == SubSeq(blocks, 1, b)
           s == [k \in DOMAIN p |-> Total(Lengths(p[k].instrs))]
           r == [k \in DOMAIN q |-> Total(Lengths(q[k].instrs))]
<1>1. /\ p \in Seq(Blocks(X, I)) /\ q \in Seq(Blocks(X, I))
      /\ DOMAIN p = 1 .. b - 1 /\ DOMAIN q = 1 .. b /\ Len(p) = b - 1 /\ Len(q) = b
      /\ q[b] = blocks[b] /\ \A k \in 1 .. b - 1 : p[k] = q[k]
  OBVIOUS
<1>2. s \in [1 .. b - 1 -> Nat] /\ r \in [1 .. b -> Nat] /\ SizeOf(p) \in Nat
  <2> HIDE DEF p, q
  <2>1. s \in [1 .. Len(p) -> Nat] /\ SizeOf(p) \in Nat
    BY <1>1, SizesType
  <2>2. r \in [1 .. Len(q) -> Nat]
    BY <1>1, SizesType
  <2> QED
    BY <1>1, <2>1, <2>2
<1>3. \A k \in 1 .. b - 1 : r[k] = s[k]
  <2> HIDE DEF p, q
  <2> QED
    BY <1>1
<1>4. r[b] = Total(Lengths(blocks[b].instrs))
  <2> HIDE DEF p, q
  <2> QED
    BY <1>1
<1>5. SizeOf(p) = Total(s) /\ SizeOf(q) = Total(r)
  BY DEF SizeOf
<1>6. Total(r) = Total(s) + r[b]
  <2> HIDE DEF p, q, s, r
  <2> DEFINE m == b - 1
  <2>1. m \in Nat /\ m + 1 = b
    OBVIOUS
  <2> HIDE DEF m
  <2>2. s \in [1 .. m -> Nat] /\ r \in [1 .. m + 1 -> Nat] /\ \A k \in 1 .. m : r[k] = s[k]
    BY <1>2, <1>3, <2>1 DEF m
  <2>3. Total(r) = Total(s) + r[m + 1]
    BY <2>1, <2>2, TotalAppend
  <2> QED
    BY <2>1, <2>3
<1>7. BlockAt(blocks, b) = SizeOf(p) /\ BlockAt(blocks, b + 1) = SizeOf(q)
  <2>1. (b + 1) - 1 = b
    OBVIOUS
  <2> QED
    BY <2>1 DEF BlockAt
<1>8. BlockAt(blocks, Len(blocks) + 1) = SizeOf(blocks)
  <2>1. (Len(blocks) + 1) - 1 = Len(blocks)
    OBVIOUS
  <2>2. SubSeq(blocks, 1, Len(blocks)) = blocks
    BY AllFirst
  <2> QED
    BY <2>1, <2>2 DEF BlockAt
<1>9. BlockAt(blocks, b) <= SizeOf(blocks)
  <2> DEFINE m == b - 1
  <2>1. m \in 0 .. Len(blocks)
    OBVIOUS
  <2> HIDE DEF m
  <2>2. SizeOf(SubSeq(blocks, 1, m)) <= SizeOf(blocks)
    BY <2>1, BlocksBefore
  <2> QED
    BY <2>2 DEF m, BlockAt
<1> HIDE DEF p, q, s, r
<1> QED
  BY <1>2, <1>4, <1>5, <1>6, <1>7, <1>8, <1>9

\* An instruction goes to the last block, or to a first one.
InstrPlaced(blocks, label, instr, new) ==
  \/ /\ blocks = << >> /\ Len(new) = 1
     /\ new[1] = [label |-> label, instrs |-> <<instr>>]
  \/ /\ Len(blocks) > 0 /\ Len(new) = Len(blocks) /\ label = blocks[Len(blocks)].label
     /\ \A k \in 1 .. Len(blocks) - 1 : new[k] = blocks[k]
     /\ new[Len(blocks)] =
          [label |-> label, instrs |-> Append(blocks[Len(blocks)].instrs, instr)]

\* The block that instructions go to is the last one.
LastIs(blocks, label) ==
  /\ \A b, c \in DOMAIN blocks : blocks[b].label = blocks[c].label => b = c
  /\ blocks # << >> => blocks[Len(blocks)].label = label

\* An instruction is added to the last block, or begins one (pyasm.py 209-221).
LEMMA AddedToLast ==
  ASSUME NEW X, NEW I, NEW blocks \in Seq(Blocks(X, I)), NEW label \in X, NEW instr \in I,
         LastIs(blocks, label)
  PROVE  InstrPlaced(blocks, label, instr, AddTo(blocks, label, instr))
<1> DEFINE I0 == {i \in 1 .. Len(blocks) : blocks[i].label = label}
           j == SelectInSeq(blocks, LAMBDA b : b.label = label)
           N == Len(blocks)
           new == AddTo(blocks, label, instr)
<1>1. N \in Nat /\ DOMAIN blocks = 1 .. N /\ \A k \in 1 .. N : blocks[k] \in Blocks(X, I)
  OBVIOUS
<1>2. j = IF I0 # {} THEN Min(I0) ELSE 0
  BY DEF SelectInSeq
<1>3. I0 \subseteq 1 .. N
  OBVIOUS
<1>4. new = IF j = 0 THEN Append(blocks, [label |-> label, instrs |-> <<instr>>])
            ELSE [blocks EXCEPT ![j].instrs = Append(@, instr)]
  BY DEF AddTo
<1>5. j \in 0 .. N /\ (j = 0 <=> I0 = {}) /\ (j # 0 => j \in I0)
  <2> HIDE DEF I0, j, N
  <2> QED
    BY <1>1, <1>2, <1>3, FirstOf
<1>6. CASE blocks = << >>
  <2>1. j = 0
    BY <1>5, <1>6
  <2> HIDE DEF j, new
  <2>2. new = <<[label |-> label, instrs |-> <<instr>>]>>
    BY <1>4, <1>6, <2>1
  <2>3. Len(new) = 1 /\ new[1] = [label |-> label, instrs |-> <<instr>>]
    BY <2>2
  <2> QED
    BY <1>6, <2>3 DEF InstrPlaced, new
<1>7. CASE blocks # << >>
  <2>1. N > 0 /\ N \in DOMAIN blocks /\ blocks[N].label = label
    BY <1>1, <1>7 DEF LastIs
  <2>2. N \in I0
    BY <2>1
  <2>3. j # 0 /\ j \in I0
    BY <1>5, <2>2
  <2>4. j = N
    BY <1>1, <2>1, <2>3 DEF LastIs
  <2> HIDE DEF j, new
  <2> DEFINE old == blocks[N]
             q == Append(old.instrs, instr)
             b == [old EXCEPT !.instrs = Append(@, instr)]
  <2>5. old \in [label : X, instrs : Seq(I)] /\ old.label = label
    BY <1>1, <2>1 DEF Blocks
  <2>6. b = [label |-> label, instrs |-> q]
    <3> HIDE DEF old
    <3>1. q \in Seq(I)
      BY <2>5
    <3>2. b = [old EXCEPT !.instrs = q]
      OBVIOUS
    <3> HIDE DEF q, b
    <3> QED
      BY <2>5, <3>1, <3>2
  <2>7. new = [blocks EXCEPT ![N] = b]
    BY <1>4, <2>3, <2>4
  <2>8. AddTo(blocks, label, instr) \in Seq(Blocks(X, I))
    BY InstrAdded
  <2>9. new \in Seq(Blocks(X, I))
    BY <2>8 DEF new
  <2> HIDE DEF b
  <2>10. /\ DOMAIN new = 1 .. N /\ new[N] = b /\ \A k \in 1 .. N - 1 : new[k] = blocks[k]
    BY <1>1, <2>1, <2>7
  <2>11. Len(new) = N
    BY <1>1, <2>9, <2>10
  <2>12. N > 0 /\ Len(new) = N /\ new[N] = [label |-> label, instrs |-> Append(blocks[N].instrs, instr)]
    BY <2>1, <2>6, <2>10, <2>11
  <2> HIDE DEF q, old
  <2> QED
    BY <2>1, <2>10, <2>12 DEF InstrPlaced, new
<1> QED
  BY <1>6, <1>7

\* Blocks with more in them: what there was is where it was.
Extended(blocks, new) ==
  \A b \in DOMAIN blocks :
    /\ b \in DOMAIN new /\ new[b].label = blocks[b].label
    /\ BlockAt(new, b) = BlockAt(blocks, b)
    /\ \A j \in DOMAIN blocks[b].instrs :
         /\ j \in DOMAIN new[b].instrs
         /\ new[b].instrs[j] = blocks[b].instrs[j]
         /\ Before(new, b, j) = Before(blocks, b, j)

\* A new block is behind those there are.
LEMMA BlockBehind ==
  ASSUME NEW X, NEW I, \A i \in I : i.length \in Nat, NEW blocks \in Seq(Blocks(X, I)),
         NEW label \in X, NEW new, new = NewBlock(blocks, label)
  PROVE  /\ Extended(blocks, new)
         /\ Len(new) = Len(blocks) + 1
         /\ new[Len(blocks) + 1] = [label |-> label, instrs |-> << >>]
         /\ BlockAt(new, Len(blocks) + 1) = SizeOf(blocks)
<1> DEFINE N == Len(blocks)
           e == [label |-> label, instrs |-> << >>]
<1>1. e \in Blocks(X, I) /\ N \in Nat /\ DOMAIN blocks = 1 .. N /\ new = Append(blocks, e)
  BY DEF Blocks, NewBlock
<1> HIDE DEF e
<1>2. /\ new \in Seq(Blocks(X, I)) /\ Len(new) = N + 1 /\ new[N + 1] = e
      /\ DOMAIN new = 1 .. N + 1 /\ \A k \in 1 .. N : new[k] = blocks[k]
  BY <1>1
<1> HIDE DEF N
<1>3. ASSUME NEW b \in 1 .. N PROVE BlockAt(new, b) = BlockAt(blocks, b)
  <2> DEFINE m == b - 1
  <2>1. m \in 0 .. Len(blocks) /\ m <= Len(new) /\ \A k \in 1 .. m : k \in 1 .. N
    BY <1>1, <1>2 DEF N
  <2> HIDE DEF m
  <2>2. SubSeq(blocks, 1, m) = SubSeq(new, 1, m)
    BY <1>2, <2>1, SameFirst
  <2> QED
    BY <2>2 DEF m, BlockAt
<1>4. BlockAt(new, N + 1) = SizeOf(blocks)
  <2>1. SubSeq(new, 1, N) = SubSeq(blocks, 1, N)
    <3>1. N \in 0 .. Len(blocks) /\ N <= Len(new)
      BY <1>1, <1>2 DEF N
    <3> QED
      BY <1>2, <3>1, SameFirst
  <2>2. SubSeq(blocks, 1, N) = blocks
    BY AllFirst DEF N
  <2>3. (N + 1) - 1 = N
    BY <1>1
  <2> QED
    BY <2>1, <2>2, <2>3 DEF BlockAt
<1>5. Extended(blocks, new)
  <2>1. \A b \in 1 .. N : b \in 1 .. N + 1
    BY <1>1
  <2> QED
    BY <1>1, <1>2, <1>3, <2>1 DEF Extended, Before
<1> QED
  BY <1>2, <1>4, <1>5 DEF N, e

\* The one instruction more is behind all the others, in the last block.
OneSlotMore(blocks, instr, new) ==
  \E i \in DOMAIN new[Len(new)].instrs :
    /\ new[Len(new)].instrs[i] = instr
    /\ Before(new, Len(new), i) = SizeOf(blocks)
    /\ \A b \in DOMAIN new : \A j \in DOMAIN new[b].instrs :
         \/ b \in DOMAIN blocks /\ j \in DOMAIN blocks[b].instrs
         \/ b = Len(new) /\ j = i

\* An instruction placed is behind those there are.
LEMMA InstrBehind ==
  ASSUME NEW X, NEW I, \A i \in I : i.length \in Nat, NEW blocks \in Seq(Blocks(X, I)),
         NEW label \in X, NEW instr \in I, NEW new \in Seq(Blocks(X, I)),
         InstrPlaced(blocks, label, instr, new)
  PROVE  /\ Extended(blocks, new)
         /\ Len(new) >= 1 /\ new[Len(new)].label = label
         /\ Len(new) = Len(blocks) \/ (blocks = << >> /\ Len(new) = 1)
         /\ OneSlotMore(blocks, instr, new)
<1> DEFINE N == Len(blocks)
<1>1. N \in Nat /\ DOMAIN blocks = 1 .. N
  OBVIOUS
<1>2. CASE blocks = << >>
  <2>1. Len(new) = 1 /\ new[1] = [label |-> label, instrs |-> <<instr>>] /\ DOMAIN new = 1 .. 1
    BY <1>2 DEF InstrPlaced
  <2>2. SizeOf(blocks) = 0
    <3>1. [k \in DOMAIN blocks |-> Total(Lengths(blocks[k].instrs))] \in [1 .. 0 -> Nat]
      BY <1>2
    <3> DEFINE s == [k \in DOMAIN blocks |-> Total(Lengths(blocks[k].instrs))]
    <3> HIDE DEF s
    <3>2. s \in [1 .. 0 -> Nat]
      BY <3>1 DEF s
    <3>3. PICK F \in [0 .. 0 -> Nat] : F[0] = 0 /\ F[0] = Total(s)
      BY <3>2, TotalByNumbers
    <3> QED
      BY <3>3 DEF s, SizeOf
  <2>3. BlockAt(new, 1) = 0
    <3>1. SubSeq(new, 1, 1 - 1) = blocks
      BY <1>2
    <3> QED
      BY <2>2, <3>1 DEF BlockAt
  <2> DEFINE is == <<instr>>
  <2>4. is \in Seq(I) /\ Len(is) = 1 /\ is[1] = instr /\ DOMAIN is = 1 .. 1
    OBVIOUS
  <2>5. new[1].instrs = is /\ new[1].label = label
    BY <2>1
  <2> HIDE DEF is
  <2>6. InstrAt(is, 1) = 0
    <3>1. 1 \in 1 .. Len(is)
      BY <2>4
    <3> QED
      BY <2>4, <3>1, InstrAtStep
  <2>7. Before(new, 1, 1) = SizeOf(blocks)
    BY <2>2, <2>3, <2>5, <2>6 DEF Before
  <2>8. Extended(blocks, new)
    BY <1>2 DEF Extended
  <2>9. \A b : b \in 1 .. 1 <=> b = 1
    OBVIOUS
  <2>10. 1 \in DOMAIN new[Len(new)].instrs /\ new[Len(new)].instrs[1] = instr
    BY <2>1, <2>4, <2>5
  <2>11. Before(new, Len(new), 1) = SizeOf(blocks)
    BY <2>1, <2>7
  <2>12. \A b \in DOMAIN new : \A j \in DOMAIN new[b].instrs : b = Len(new) /\ j = 1
    BY <2>1, <2>4, <2>5, <2>9
  <2> HIDE DEF N
  <2>13. OneSlotMore(blocks, instr, new)
    BY <2>10, <2>11, <2>12 DEF OneSlotMore
  <2> QED
    BY <1>2, <2>1, <2>5, <2>8, <2>13
<1>3. CASE blocks # << >>
  <2> DEFINE old == blocks[N].instrs
             is == Append(old, instr)
  <2>1. /\ N > 0 /\ Len(new) = N /\ \A k \in 1 .. N - 1 : new[k] = blocks[k]
        /\ new[N] = [label |-> label, instrs |-> is] /\ label = blocks[N].label
        /\ DOMAIN new = 1 .. N
    BY <1>3 DEF InstrPlaced
  <2>2. old \in Seq(I)
    <3>1. N \in DOMAIN blocks
      BY <1>1, <2>1
    <3>2. blocks[N] \in Blocks(X, I)
      BY <3>1
    <3> QED
      BY <3>2 DEF Blocks
  <2>0. N = Len(blocks)
    OBVIOUS
  <2> HIDE DEF N
  <2> DEFINE M == Len(old)
  <2>3. /\ M \in Nat /\ DOMAIN old = 1 .. M /\ is \in Seq(I) /\ Len(is) = M + 1
        /\ DOMAIN is = 1 .. M + 1 /\ is[M + 1] = instr
        /\ \A j \in 1 .. M : is[j] = old[j]
    <3> HIDE DEF old
    <3> QED
      BY <2>2
  <2>4. new[N].instrs = is /\ new[N].label = label
    BY <2>1
  <2> HIDE DEF is
  <2>5. ASSUME NEW b \in 1 .. N PROVE BlockAt(new, b) = BlockAt(blocks, b)
    <3> DEFINE m == b - 1
    <3>1. m \in 0 .. Len(new) /\ m <= Len(blocks) /\ \A k \in 1 .. m : k \in 1 .. N - 1
      BY <1>1, <2>0, <2>1
    <3> HIDE DEF m
    <3>2. \A k \in 1 .. m : new[k] = blocks[k]
      BY <2>1, <3>1
    <3>3. SubSeq(new, 1, m) = SubSeq(blocks, 1, m)
      BY <3>1, <3>2, SameFirst
    <3> QED
      BY <3>3 DEF m, BlockAt
  <2>6. ASSUME NEW j \in 1 .. M + 1 PROVE InstrAt(is, j) = InstrAt(old, j)
    <3> DEFINE m == j - 1
    <3> HIDE DEF old
    <3>1. m \in 0 .. Len(is) /\ m <= Len(old) /\ \A k \in 1 .. m : k \in 1 .. M
      BY <2>3
    <3> HIDE DEF m
    <3>2. \A k \in 1 .. m : is[k] = old[k]
      BY <2>3, <3>1
    <3>3. SubSeq(is, 1, m) = SubSeq(old, 1, m)
      BY <2>2, <2>3, <3>1, <3>2, SameFirst
    <3> QED
      BY <3>3 DEF m, InstrAt
  <2>7. InstrAt(old, M + 1) = Total(Lengths(old))
    <3> HIDE DEF old
    <3>1. CASE M = 0
      <4>1. (M + 1) - 1 = M /\ SubSeq(old, 1, M) = old
        BY <2>2, <2>3, AllFirst
      <4> QED
        BY <4>1 DEF InstrAt
    <3>2. CASE M > 0
      <4>1. M \in 1 .. Len(old)
        BY <2>3, <3>2
      <4> QED
        BY <2>2, <4>1, InstrAtStep
    <3> QED
      BY <2>3, <3>1, <3>2
  <2>8. BlockAt(blocks, N + 1) = BlockAt(blocks, N) + Total(Lengths(old))
        /\ BlockAt(blocks, N + 1) = SizeOf(blocks)
    BY <1>1, <2>0, <2>1, BlockAtStep
  <2>9. Before(new, N, M + 1) = SizeOf(blocks)
    <3>1. M + 1 \in 1 .. M + 1 /\ N \in 1 .. N
      BY <1>1, <2>1, <2>3
    <3>2. InstrAt(is, M + 1) = Total(Lengths(old)) /\ BlockAt(new, N) = BlockAt(blocks, N)
      BY <2>5, <2>6, <2>7, <3>1
    <3> QED
      BY <2>4, <2>8, <3>2 DEF Before
  <2>10. Extended(blocks, new)
    <3> SUFFICES ASSUME NEW b \in 1 .. N
                 PROVE  /\ b \in DOMAIN new /\ new[b].label = blocks[b].label
                        /\ BlockAt(new, b) = BlockAt(blocks, b)
                        /\ \A j \in DOMAIN blocks[b].instrs :
                             /\ j \in DOMAIN new[b].instrs
                             /\ new[b].instrs[j] = blocks[b].instrs[j]
                             /\ Before(new, b, j) = Before(blocks, b, j)
      BY <1>1 DEF Extended
    <3>1. CASE b = N
      <4>1. \A j \in 1 .. M : j \in 1 .. M + 1 /\ InstrAt(is, j) = InstrAt(old, j)
        BY <2>3, <2>6
      <4> QED
        BY <2>1, <2>3, <2>4, <2>5, <3>1, <4>1 DEF Before
    <3>2. CASE b # N
      <4>1. b \in 1 .. N - 1
        BY <1>1, <3>2
      <4> QED
        BY <2>1, <2>5, <4>1 DEF Before
    <3> QED
      BY <3>1, <3>2
  <2>11. \A b \in DOMAIN new : \A j \in DOMAIN new[b].instrs :
            \/ b \in DOMAIN blocks /\ j \in DOMAIN blocks[b].instrs
            \/ b = Len(new) /\ j = M + 1
    <3> SUFFICES ASSUME NEW b \in 1 .. N, NEW j \in DOMAIN new[b].instrs
                 PROVE  \/ b \in DOMAIN blocks /\ j \in DOMAIN blocks[b].instrs
                        \/ b = Len(new) /\ j = M + 1
      BY <2>1
    <3>1. CASE b = N
      <4>1. j \in 1 .. M + 1
        BY <2>3, <2>4, <3>1
      <4>2. j \in 1 .. M \/ j = M + 1
        BY <2>3, <4>1
      <4> QED
        BY <1>1, <2>1, <2>3, <3>1, <4>2
    <3>2. CASE b # N
      <4>1. b \in 1 .. N - 1
        BY <1>1, <3>2
      <4> QED
        BY <1>1, <2>1, <4>1
    <3> QED
      BY <3>1, <3>2
  <2>12. M + 1 \in DOMAIN new[Len(new)].instrs /\ new[Len(new)].instrs[M + 1] = instr
    BY <2>1, <2>3, <2>4
  <2>13. Before(new, Len(new), M + 1) = SizeOf(blocks)
    BY <2>1, <2>9
  <2>14. Len(new) >= 1 /\ new[Len(new)].label = label /\ Len(new) = Len(blocks)
    BY <1>1, <2>0, <2>1, <2>4
  <2> DEFINE i == M + 1
  <2>15. i \in DOMAIN new[Len(new)].instrs /\ new[Len(new)].instrs[i] = instr
         /\ Before(new, Len(new), i) = SizeOf(blocks)
         /\ \A b \in DOMAIN new : \A j \in DOMAIN new[b].instrs :
            \/ b \in DOMAIN blocks /\ j \in DOMAIN blocks[b].instrs
            \/ b = Len(new) /\ j = i
    BY <2>11, <2>12, <2>13
  <2> HIDE DEF i, old, M
  <2>16. OneSlotMore(blocks, instr, new)
    BY <2>15, Zenon DEF OneSlotMore
  <2> QED
    BY <2>10, <2>14, <2>16
<1> QED
  BY <1>2, <1>3

-----------------------------------------------------------------------------
(* Instructions where the listing has them *)

\* An instruction line of an area and the instruction it became: as many bytes are
\* before it as the listing has words.
InArea(t, area, n) == t[n].kind = "instr" /\ AreaOf(t, n) = area
IsAt(t, area, blocks, b, j, n) ==
  /\ InArea(t, area, n)
  /\ blocks[b].instrs[j] = Encoded(t[n])
  /\ Before(blocks, b, j) = 2 * AreaWords(t, area, n)
LabelIsAt(t, area, blocks, b, n) ==
  /\ t[n].kind = "label" /\ AreaOf(t, n) = area /\ t[n].name = blocks[b].label
  /\ BlockAt(blocks, b) = 2 * AreaWords(t, area, n)

\* The blocks of an area have the lines of the area where the listing has them.
LinesPlaced(t, area, k, blocks) ==
  \A n \in 1 .. k : InArea(t, area, n) =>
    \E b \in DOMAIN blocks : \E j \in DOMAIN blocks[b].instrs : IsAt(t, area, blocks, b, j, n)
SlotsPlaced(t, area, k, blocks) ==
  \A b \in DOMAIN blocks : \A j \in DOMAIN blocks[b].instrs :
    \E n \in 1 .. k : IsAt(t, area, blocks, b, j, n)
LabelsPlaced(t, area, k, blocks) ==
  \A b \in DOMAIN blocks :
    blocks[b].label \in {"0", "1"} \/ \E n \in 1 .. k : LabelIsAt(t, area, blocks, b, n)
Placed(t, area, k, blocks, label) ==
  /\ LastIs(blocks, label) /\ (blocks = << >> => label \in {"0", "1"})
  /\ LinesPlaced(t, area, k, blocks) /\ SlotsPlaced(t, area, k, blocks)
  /\ LabelsPlaced(t, area, k, blocks)

\* What is in a block stays where it is.
LEMMA StaysPlaced ==
  ASSUME NEW t, NEW area, NEW blocks, NEW new, Extended(blocks, new),
         NEW b \in DOMAIN blocks, NEW n
  PROVE  /\ b \in DOMAIN new
         /\ LabelIsAt(t, area, blocks, b, n) => LabelIsAt(t, area, new, b, n)
         /\ \A j \in DOMAIN blocks[b].instrs :
              /\ j \in DOMAIN new[b].instrs
              /\ IsAt(t, area, blocks, b, j, n) => IsAt(t, area, new, b, j, n)
<1>1. /\ b \in DOMAIN new /\ new[b].label = blocks[b].label
      /\ BlockAt(new, b) = BlockAt(blocks, b)
      /\ \A j \in DOMAIN blocks[b].instrs :
           /\ j \in DOMAIN new[b].instrs
           /\ new[b].instrs[j] = blocks[b].instrs[j]
           /\ Before(new, b, j) = Before(blocks, b, j)
  BY DEF Extended
<1> QED
  BY <1>1 DEF LabelIsAt, IsAt

\* A line that is not of the area changes nothing of it.
LEMMA PlacedSame ==
  ASSUME NEW t, NEW area, NEW k \in Nat, NEW blocks, NEW label,
         Placed(t, area, k, blocks, label), ~InArea(t, area, k + 1)
  PROVE  Placed(t, area, k + 1, blocks, label)
<1>1. \A n : n \in 1 .. k + 1 <=> n \in 1 .. k \/ n = k + 1
  BY OneMore
<1>2. LinesPlaced(t, area, k + 1, blocks)
  BY <1>1 DEF Placed, LinesPlaced
<1>3. SlotsPlaced(t, area, k + 1, blocks)
  BY <1>1 DEF Placed, SlotsPlaced
<1>4. LabelsPlaced(t, area, k + 1, blocks)
  BY <1>1 DEF Placed, LabelsPlaced
<1> QED
  BY <1>2, <1>3, <1>4 DEF Placed

\* A label begins a block where the listing has the label.
LEMMA PlacedLabel ==
  ASSUME NEW t, NEW area, NEW k \in Nat, NEW X, NEW I, \A i \in I : i.length \in Nat,
         NEW blocks \in Seq(Blocks(X, I)), NEW label, Placed(t, area, k, blocks, label),
         t[k + 1].kind = "label", AreaOf(t, k + 1) = area,
         NEW name \in X, name = t[k + 1].name, name \notin LabelsOf(blocks),
         SizeOf(blocks) = 2 * AreaWords(t, area, k + 1),
         NEW new, new = NewBlock(blocks, name)
  PROVE  Placed(t, area, k + 1, new, name)
<1> DEFINE N == Len(blocks)
<1>1. \A n : n \in 1 .. k + 1 <=> n \in 1 .. k \/ n = k + 1
  BY OneMore
<1>2. /\ Extended(blocks, new) /\ Len(new) = N + 1
      /\ new[N + 1] = [label |-> name, instrs |-> << >>]
      /\ BlockAt(new, N + 1) = SizeOf(blocks)
  BY BlockBehind
<1>3. new \in Seq(Blocks(X, I))
  BY BlockAdded
<1>4. N \in Nat /\ DOMAIN blocks = 1 .. N /\ DOMAIN new = 1 .. N + 1
  BY <1>2, <1>3
<1> HIDE DEF N
<1>5. \A b : b \in 1 .. N + 1 <=> b \in 1 .. N \/ b = N + 1
  BY <1>4
<1>6. \A b \in 1 .. N : /\ new[b].label = blocks[b].label
                        /\ DOMAIN blocks[b].instrs \subseteq DOMAIN new[b].instrs
  BY <1>2, <1>4 DEF Extended
<1>7. \A b \in 1 .. N : new[b].instrs = blocks[b].instrs
  <2>1. new = Append(blocks, [label |-> name, instrs |-> << >>])
    BY DEF NewBlock
  <2> QED
    BY <1>4, <2>1
<1>8. LastIs(new, name)
  <2>1. new[N + 1].label = name /\ Len(new) = N + 1
    BY <1>2
  <2>2. \A b \in 1 .. N : blocks[b].label # name
    BY <1>4 DEF LabelsOf
  <2>3. \A b, c \in 1 .. N : new[b].label = new[c].label => b = c
    BY <1>4, <1>6 DEF Placed, LastIs
  <2> QED
    BY <1>4, <1>5, <1>6, <2>1, <2>2, <2>3 DEF LastIs
<1>9. new # << >>
  BY <1>4
<1>10. LinesPlaced(t, area, k + 1, new)
  <2> SUFFICES ASSUME NEW n \in 1 .. k + 1, InArea(t, area, n)
               PROVE  \E b \in DOMAIN new : \E j \in DOMAIN new[b].instrs :
                        IsAt(t, area, new, b, j, n)
    BY DEF LinesPlaced
  <2>1. n \in 1 .. k
    BY <1>1 DEF InArea
  <2>2. PICK b \in DOMAIN blocks : \E j \in DOMAIN blocks[b].instrs : IsAt(t, area, blocks, b, j, n)
    BY <2>1 DEF Placed, LinesPlaced
  <2>3. PICK j \in DOMAIN blocks[b].instrs : IsAt(t, area, blocks, b, j, n)
    BY <2>2
  <2>4. b \in DOMAIN new /\ j \in DOMAIN new[b].instrs /\ IsAt(t, area, new, b, j, n)
    BY <1>2, <2>3, StaysPlaced
  <2> QED
    BY <2>4
<1>11. SlotsPlaced(t, area, k + 1, new)
  <2> SUFFICES ASSUME NEW b \in DOMAIN new, NEW j \in DOMAIN new[b].instrs
               PROVE  \E n \in 1 .. k + 1 : IsAt(t, area, new, b, j, n)
    BY DEF SlotsPlaced
  <2>1. b # N + 1
    BY <1>2
  <2>2. b \in DOMAIN blocks /\ j \in DOMAIN blocks[b].instrs
    BY <1>4, <1>5, <1>7, <2>1
  <2>3. PICK n \in 1 .. k : IsAt(t, area, blocks, b, j, n)
    BY <2>2 DEF Placed, SlotsPlaced
  <2>4. IsAt(t, area, new, b, j, n)
    BY <1>2, <2>2, <2>3, StaysPlaced
  <2> QED
    BY <1>1, <2>4
<1>12. LabelsPlaced(t, area, k + 1, new)
  <2> SUFFICES ASSUME NEW b \in DOMAIN new
               PROVE  new[b].label \in {"0", "1"}
                        \/ \E n \in 1 .. k + 1 : LabelIsAt(t, area, new, b, n)
    BY DEF LabelsPlaced
  <2>1. CASE b = N + 1
    <3>1. LabelIsAt(t, area, new, N + 1, k + 1)
      BY <1>2 DEF LabelIsAt
    <3> QED
      BY <1>1, <2>1, <3>1
  <2>2. CASE b \in 1 .. N
    <3>1. blocks[b].label \in {"0", "1"} \/ \E n \in 1 .. k : LabelIsAt(t, area, blocks, b, n)
      BY <1>4, <2>2 DEF Placed, LabelsPlaced
    <3>2. \A n : LabelIsAt(t, area, blocks, b, n) => LabelIsAt(t, area, new, b, n)
      BY <1>2, <1>4, <2>2, StaysPlaced
    <3> QED
      BY <1>1, <1>6, <2>2, <3>1, <3>2
  <2> QED
    BY <1>4, <1>5, <2>1, <2>2
<1> QED
  BY <1>8, <1>9, <1>10, <1>11, <1>12 DEF Placed

\* An instruction is added where the listing has the line.
LEMMA PlacedInstr ==
  ASSUME NEW t, NEW area, NEW k \in Nat, NEW X, NEW I, \A i \in I : i.length \in Nat,
         NEW blocks \in Seq(Blocks(X, I)), NEW label \in X, Placed(t, area, k, blocks, label),
         InArea(t, area, k + 1), NEW instr \in I, instr = Encoded(t[k + 1]),
         SizeOf(blocks) = 2 * AreaWords(t, area, k + 1),
         NEW new, new = AddTo(blocks, label, instr)
  PROVE  Placed(t, area, k + 1, new, label)
<1> DEFINE N == Len(blocks)
           M == Len(new)
<1>1. \A n : n \in 1 .. k + 1 <=> n \in 1 .. k \/ n = k + 1
  BY OneMore
<1>2. new \in Seq(Blocks(X, I))
  BY InstrAdded
<1>3. InstrPlaced(blocks, label, instr, new)
  BY AddedToLast DEF Placed
<1>4. /\ Extended(blocks, new) /\ M >= 1 /\ new[M].label = label
      /\ (M = N \/ (blocks = << >> /\ M = 1))
      /\ OneSlotMore(blocks, instr, new)
  BY <1>2, <1>3, InstrBehind
<1>5. N \in Nat /\ M \in Nat /\ DOMAIN blocks = 1 .. N /\ DOMAIN new = 1 .. M
      /\ (blocks = << >> <=> N = 0)
  BY <1>2
<1>6. PICK i \in DOMAIN new[M].instrs :
        /\ new[M].instrs[i] = instr
        /\ Before(new, M, i) = SizeOf(blocks)
        /\ \A b \in DOMAIN new : \A j \in DOMAIN new[b].instrs :
             \/ b \in DOMAIN blocks /\ j \in DOMAIN blocks[b].instrs
             \/ b = M /\ j = i
  BY <1>4 DEF OneSlotMore
<1> HIDE DEF N, M
<1>7. IsAt(t, area, new, M, i, k + 1) /\ M \in DOMAIN new
  BY <1>4, <1>5, <1>6 DEF IsAt
<1>8. LastIs(new, label) /\ new # << >>
  <2>1. \A b, c \in DOMAIN new : new[b].label = new[c].label => b = c
    <3>1. CASE M = N
      BY <1>4, <1>5, <3>1 DEF Placed, LastIs, Extended
    <3>2. CASE M = 1
      BY <1>5, <3>2
    <3> QED
      BY <1>4, <3>1, <3>2
  <2>2. new # << >>
    BY <1>5, <1>7
  <2> QED
    BY <1>4, <2>1, <2>2 DEF LastIs, M
<1>9. LinesPlaced(t, area, k + 1, new)
  <2> SUFFICES ASSUME NEW n \in 1 .. k + 1, InArea(t, area, n)
               PROVE  \E b \in DOMAIN new : \E j \in DOMAIN new[b].instrs :
                        IsAt(t, area, new, b, j, n)
    BY DEF LinesPlaced
  <2>1. CASE n \in 1 .. k
    <3>1. PICK b \in DOMAIN blocks : \E j \in DOMAIN blocks[b].instrs : IsAt(t, area, blocks, b, j, n)
      BY <2>1 DEF Placed, LinesPlaced
    <3>2. PICK j \in DOMAIN blocks[b].instrs : IsAt(t, area, blocks, b, j, n)
      BY <3>1
    <3>3. b \in DOMAIN new /\ j \in DOMAIN new[b].instrs /\ IsAt(t, area, new, b, j, n)
      BY <1>4, <3>2, StaysPlaced
    <3> QED
      BY <3>3
  <2>2. CASE n = k + 1
    BY <1>6, <1>7, <2>2
  <2> QED
    BY <1>1, <2>1, <2>2
<1>10. SlotsPlaced(t, area, k + 1, new)
  <2> SUFFICES ASSUME NEW b \in DOMAIN new, NEW j \in DOMAIN new[b].instrs
               PROVE  \E n \in 1 .. k + 1 : IsAt(t, area, new, b, j, n)
    BY DEF SlotsPlaced
  <2>1. CASE b = M /\ j = i
    BY <1>1, <1>7, <2>1
  <2>2. CASE b \in DOMAIN blocks /\ j \in DOMAIN blocks[b].instrs
    <3>1. PICK n \in 1 .. k : IsAt(t, area, blocks, b, j, n)
      BY <2>2 DEF Placed, SlotsPlaced
    <3>2. IsAt(t, area, new, b, j, n)
      BY <1>4, <2>2, <3>1, StaysPlaced
    <3> QED
      BY <1>1, <3>2
  <2> QED
    BY <1>6, <2>1, <2>2
<1>11. LabelsPlaced(t, area, k + 1, new)
  <2> SUFFICES ASSUME NEW b \in DOMAIN new
               PROVE  new[b].label \in {"0", "1"}
                        \/ \E n \in 1 .. k + 1 : LabelIsAt(t, area, new, b, n)
    BY DEF LabelsPlaced
  <2>1. CASE b \in DOMAIN blocks
    <3>1. blocks[b].label \in {"0", "1"} \/ \E n \in 1 .. k : LabelIsAt(t, area, blocks, b, n)
      BY <2>1 DEF Placed, LabelsPlaced
    <3>2. \A n : LabelIsAt(t, area, blocks, b, n) => LabelIsAt(t, area, new, b, n)
      BY <1>4, <2>1, StaysPlaced
    <3>3. new[b].label = blocks[b].label
      BY <1>4, <2>1 DEF Extended
    <3> QED
      BY <1>1, <3>1, <3>2, <3>3
  <2>2. CASE b \notin DOMAIN blocks
    <3>1. blocks = << >> /\ b = M
      BY <1>4, <1>5, <2>2
    <3>2. label \in {"0", "1"}
      BY <3>1 DEF Placed
    <3> QED
      BY <1>4, <3>1, <3>2
  <2> QED
    BY <2>1, <2>2
<1> QED
  BY <1>8, <1>9, <1>10, <1>11 DEF Placed

\* The vectors are in the order of their lines: a section is entered once, and the
\* vector of the current one is the last.
IsLineOf(t, n, addr) == IsVectorLine(t, n) /\ VectorAddr[SectionOf(t, n)] = addr
LinesInOrder(t, k, vectors) ==
  \A i, j \in DOMAIN vectors : \A m, n \in 1 .. k :
    IsLineOf(t, m, vectors[i].addr) /\ IsLineOf(t, n, vectors[j].addr) /\ i < j => m < n
CurrentIsLast(t, k, vectors) ==
  \A i \in DOMAIN vectors :
    SectionOf(t, k) \in DOMAIN VectorAddr /\ vectors[i].addr = VectorAddr[SectionOf(t, k)]
      => i = Len(vectors)
LinesHaveVector(t, k, vectors) ==
  \A n \in 1 .. k : IsVectorLine(t, n) => \E i \in DOMAIN vectors : IsLineOf(t, n, vectors[i].addr)
VectorsEntered(t, k, vectors) ==
  \A i \in DOMAIN vectors : \E s \in SectionsTo(t, k) :
    s \in DOMAIN VectorAddr /\ vectors[i].addr = VectorAddr[s]
VectorsInOrder(t, k, vectors) ==
  /\ LinesInOrder(t, k, vectors) /\ CurrentIsLast(t, k, vectors)
  /\ LinesHaveVector(t, k, vectors) /\ VectorsEntered(t, k, vectors)

\* The section of a line is one of those entered.
LEMMA SectionEntered ==
  ASSUME NEW t, NEW N \in Nat
  PROVE  SectionOf(t, N) # "none" => SectionOf(t, N) \in SectionsTo(t, N)
<1> DEFINE S == {k \in 0 .. N : SectionOf(t, k) # "none" => SectionOf(t, k) \in SectionsTo(t, k)}
<1>1. 0 \in S
  <2>1. SectionOf(t, 0) = "none"
    BY SectionStep
  <2> QED
    BY <2>1
<1>2. ASSUME NEW k \in 0 .. N - 1, k \in S PROVE k + 1 \in S
  <2> DEFINE m == k + 1
  <2>0. k \in Nat /\ m = k + 1 /\ m \in 0 .. N
    OBVIOUS
  <2> HIDE DEF m
  <2>1. /\ t[m].kind = "section" => SectionOf(t, m) = t[m].name
        /\ t[m].kind # "section" => SectionOf(t, m) = SectionOf(t, k)
    BY <2>0, SectionStep
  <2>2. SectionsTo(t, m) = IF t[m].kind = "section" THEN SectionsTo(t, k) \union {t[m].name}
                           ELSE SectionsTo(t, k)
    BY <2>0, OneMoreLine
  <2>3. SectionOf(t, m) # "none" => SectionOf(t, m) \in SectionsTo(t, m)
    BY <1>2, <2>1, <2>2
  <2> QED
    BY <2>0, <2>3
<1>3. \A k \in 0 .. N : k \in S
  <2> HIDE DEF S
  <2> QED
    BY <1>1, <1>2, InductionTo
<1> QED
  BY <1>3

\* A line that is not of a vector keeps the order.
LEMMA OrderSame ==
  ASSUME NEW t, NEW k \in Nat, NEW vectors, VectorsInOrder(t, k, vectors),
         LegalSoFar(t, k + 1), ~IsVectorLine(t, k + 1)
  PROVE  VectorsInOrder(t, k + 1, vectors)
<1> DEFINE m == k + 1
<1>0. m = k + 1 /\ m - 1 = k
  OBVIOUS
<1> HIDE DEF m
<1>1. \A n : n \in 1 .. m <=> n \in 1 .. k \/ n = m
  BY <1>0, OneMore
<1>2. ~IsVectorLine(t, m) /\ LegalSoFar(t, m)
  BY <1>0
<1>3. LinesInOrder(t, m, vectors) /\ LinesHaveVector(t, m, vectors)
  BY <1>1, <1>2 DEF VectorsInOrder, LinesInOrder, LinesHaveVector, IsLineOf
<1>4. SectionsTo(t, m) = IF t[m].kind = "section" THEN SectionsTo(t, k) \union {t[m].name}
                         ELSE SectionsTo(t, k)
  BY <1>0, OneMoreLine
<1>5. VectorsEntered(t, m, vectors)
  BY <1>4 DEF VectorsInOrder, VectorsEntered
<1>6. /\ t[m].kind = "section" => SectionOf(t, m) = t[m].name
      /\ t[m].kind # "section" => SectionOf(t, m) = SectionOf(t, k)
  BY <1>0, SectionStep
<1>7. CurrentIsLast(t, m, vectors)
  <2>1. CASE t[m].kind = "section"
    <3>1. t[m].name \notin SectionsTo(t, k) /\ SectionOf(t, m) = t[m].name
      BY <1>0, <1>2, <1>6, <2>1 DEF LegalSoFar
    <3>2. ASSUME NEW i \in DOMAIN vectors, t[m].name \in DOMAIN VectorAddr,
                 vectors[i].addr = VectorAddr[t[m].name]
          PROVE  FALSE
      <4>1. PICK s \in SectionsTo(t, k) : s \in DOMAIN VectorAddr /\ vectors[i].addr = VectorAddr[s]
        BY DEF VectorsInOrder, VectorsEntered
      <4>2. s = t[m].name
        BY <3>2, <4>1, OtherVectors
      <4> QED
        BY <3>1, <4>1, <4>2
    <3> QED
      BY <3>1, <3>2 DEF CurrentIsLast
  <2>2. CASE t[m].kind # "section"
    BY <1>6, <2>2 DEF VectorsInOrder, CurrentIsLast
  <2> QED
    BY <2>1, <2>2
<1>8. VectorsInOrder(t, m, vectors)
  BY <1>3, <1>5, <1>7 DEF VectorsInOrder
<1> QED
  BY <1>0, <1>8

\* A word of a vector keeps the order.
LEMMA OrderKept ==
  ASSUME NEW t, NEW k \in Nat, NEW X, NEW I, NEW vectors \in Seq([addr : X, instr : I]),
         VectorsInOrder(t, k, vectors), IsVectorLine(t, k + 1),
         NEW addr \in X, addr = VectorAddr[SectionOf(t, k + 1)], NEW instr \in I,
         NEW new, new = SetVector(vectors, addr, instr)
  PROVE  VectorsInOrder(t, k + 1, new)
<1> DEFINE m == k + 1
           s == SectionOf(t, m)
           v == [addr |-> addr, instr |-> instr]
           N == Len(vectors)
<1>0. m = k + 1 /\ m - 1 = k
  OBVIOUS
<1>1. v.addr = addr /\ N \in Nat /\ DOMAIN vectors = 1 .. N
  OBVIOUS
<1>2. new \in Seq([addr : X, instr : I]) /\ VectorSetTo(vectors, addr, v, new)
  BY VectorSet
<1> HIDE DEF m, N, v
<1>3. \A n : n \in 1 .. m <=> n \in 1 .. k \/ n = m
  BY <1>0, OneMore
<1>4. /\ IsVectorLine(t, m) /\ t[m].kind = "instr" /\ s \in DOMAIN VectorAddr
      /\ addr = VectorAddr[s]
  BY <1>0 DEF IsVectorLine
<1>5. SectionsTo(t, m) = SectionsTo(t, k) /\ s = SectionOf(t, k)
  <2>1. t[m].kind # "section"
    BY <1>4
  <2> QED
    BY <1>0, <2>1, OneMoreLine, SectionStep
<1> HIDE DEF s
<1>6. s \in SectionsTo(t, k)
  <2>1. s # "none"
    BY <1>4, OtherSections
  <2> QED
    BY <1>5, <2>1, SectionEntered DEF s
<1>7. /\ Len(new) \in Nat /\ DOMAIN new = 1 .. Len(new) /\ N <= Len(new) /\ Len(new) <= N + 1
      /\ \A i \in 1 .. N : new[i].addr = vectors[i].addr
      /\ \A i \in DOMAIN new : i \in 1 .. N \/ (i = Len(new) /\ new[i].addr = addr)
      /\ (Len(new) = N /\ N >= 1 /\ vectors[N].addr = addr)
         \/ (Len(new) = N + 1 /\ new[N + 1].addr = addr /\ \A i \in 1 .. N : vectors[i].addr # addr)
  <2>1. CASE /\ \A i \in DOMAIN vectors : vectors[i].addr # addr
             /\ new = Append(vectors, v)
    <3>1. /\ Len(new) = N + 1 /\ new[N + 1] = v /\ \A i \in 1 .. N : new[i] = vectors[i]
          /\ DOMAIN new = 1 .. N + 1
      BY <1>1, <1>2, <2>1 DEF N
    <3>2. \A i : i \in 1 .. N + 1 <=> i \in 1 .. N \/ i = N + 1
      BY <1>1
    <3> QED
      BY <1>1, <2>1, <3>1, <3>2
  <2>2. CASE \E j \in DOMAIN vectors :
               /\ vectors[j].addr = addr /\ DOMAIN new = DOMAIN vectors
               /\ new[j] = v
               /\ \A i \in DOMAIN vectors : i # j => new[i] = vectors[i]
    <3>1. PICK j \in DOMAIN vectors :
            /\ vectors[j].addr = addr /\ DOMAIN new = DOMAIN vectors
            /\ new[j] = v
            /\ \A i \in DOMAIN vectors : i # j => new[i] = vectors[i]
      BY <2>2
    <3>2. j = N
      BY <1>4, <1>5, <3>1 DEF VectorsInOrder, CurrentIsLast, N
    <3>3. Len(new) = N
      BY <1>1, <1>2, <3>1
    <3> QED
      BY <1>1, <3>1, <3>2, <3>3
  <2> QED
    BY <1>2, <2>1, <2>2 DEF VectorSetTo
<1>8. \A i \in DOMAIN new : new[i].addr = addr => i = Len(new)
  <2>1. \A i \in 1 .. N : vectors[i].addr = addr => i = N
    BY <1>1, <1>4, <1>5 DEF VectorsInOrder, CurrentIsLast, N
  <2> QED
    BY <1>7, <2>1
<1>9. \E i \in DOMAIN new : new[i].addr = addr
  BY <1>1, <1>7
<1>10. CurrentIsLast(t, m, new)
  BY <1>4, <1>8 DEF CurrentIsLast, s
<1>11. VectorsEntered(t, m, new)
  <2> SUFFICES ASSUME NEW i \in DOMAIN new
               PROVE  \E r \in SectionsTo(t, k) : r \in DOMAIN VectorAddr /\ new[i].addr = VectorAddr[r]
    BY <1>5 DEF VectorsEntered
  <2>1. CASE new[i].addr = addr
    BY <1>4, <1>6, <2>1
  <2>2. CASE new[i].addr # addr
    BY <1>1, <1>7, <2>2 DEF VectorsInOrder, VectorsEntered
  <2> QED
    BY <2>1, <2>2
<1>12. LinesHaveVector(t, m, new)
  <2> SUFFICES ASSUME NEW n \in 1 .. m, IsVectorLine(t, n)
               PROVE  \E i \in DOMAIN new : IsLineOf(t, n, new[i].addr)
    BY DEF LinesHaveVector
  <2>1. CASE n \in 1 .. k
    <3>1. PICK i \in DOMAIN vectors : IsLineOf(t, n, vectors[i].addr)
      BY <2>1 DEF VectorsInOrder, LinesHaveVector
    <3>2. i \in DOMAIN new /\ new[i].addr = vectors[i].addr
      BY <1>1, <1>7, <3>1
    <3> QED
      BY <3>1, <3>2
  <2>2. CASE n = m
    BY <1>4, <1>9, <2>2 DEF IsLineOf, s
  <2> QED
    BY <1>3, <2>1, <2>2
<1>13. LinesInOrder(t, m, new)
  <2> SUFFICES ASSUME NEW i \in DOMAIN new, NEW j \in DOMAIN new, NEW q \in 1 .. m, NEW n \in 1 .. m,
                      IsLineOf(t, q, new[i].addr), IsLineOf(t, n, new[j].addr), i < j
               PROVE  q < n
    BY DEF LinesInOrder
  <2>1. q # m
    <3> SUFFICES ASSUME q = m PROVE FALSE
      OBVIOUS
    <3>1. new[i].addr = addr
      BY <1>4 DEF IsLineOf, s
    <3>2. i = Len(new)
      BY <1>8, <3>1
    <3> QED
      BY <1>7, <3>2
  <2>2. CASE n = m
    BY <1>0, <1>3, <2>1, <2>2
  <2>3. CASE n # m
    <3>1. q \in 1 .. k /\ n \in 1 .. k
      BY <1>3, <2>1, <2>3
    <3>2. i \in 1 .. N
      BY <1>7
    <3>3. CASE j \in 1 .. N
      BY <1>1, <1>7, <3>1, <3>2, <3>3 DEF VectorsInOrder, LinesInOrder
    <3>4. CASE j \notin 1 .. N
      <4>1. new[j].addr = addr /\ \A h \in 1 .. N : vectors[h].addr # addr
        BY <1>7, <3>4
      <4>2. PICK h \in DOMAIN vectors : IsLineOf(t, n, vectors[h].addr)
        BY <3>1 DEF VectorsInOrder, LinesHaveVector, IsLineOf
      <4>3. vectors[h].addr = addr
        BY <4>1, <4>2 DEF IsLineOf
      <4> QED
        BY <1>1, <4>1, <4>3
    <3> QED
      BY <3>3, <3>4
  <2> QED
    BY <2>2, <2>3
<1>14. VectorsInOrder(t, m, new)
  BY <1>10, <1>11, <1>12, <1>13 DEF VectorsInOrder
<1> QED
  BY <1>0, <1>14

-----------------------------------------------------------------------------
(* The object parsed is the listing *)

\* The object has the lines of a text where the listing has them.
Listed(t, k, p) ==
  /\ Placed(t, ".boot", k, p.bootInstructions, p.bootLabel)
  /\ Placed(t, "program", k, p.midInstrDict, p.currentLabel)
  /\ VectorsInOrder(t, k, p.excpVectors)

\* The area of an instruction or a label.
LEMMA AreaIs ==
  ASSUME NEW t, NEW n, NEW s, s = SectionOf(t, n)
  PROVE  /\ InArea(t, ".boot", n) <=> t[n].kind = "instr" /\ s = ".boot"
         /\ InArea(t, "program", n) <=> t[n].kind = "instr" /\ s # ".boot" /\ s \notin DOMAIN VectorAddr
         /\ t[n].kind = "label" => AreaOf(t, n) = IF s = ".boot" THEN ".boot" ELSE "program"
         /\ IsVectorLine(t, n) => AreaOf(t, n) = s
         /\ AreaOf(t, n) \in DOMAIN VectorAddr => s \in DOMAIN VectorAddr /\ t[n].kind = "instr"
<1>1. ".boot" \notin DOMAIN VectorAddr /\ "program" \notin DOMAIN VectorAddr
  BY DEF VectorAddr
<1>2. AreaOf(t, n) = IF s = ".boot" \/ (s \in DOMAIN VectorAddr /\ t[n].kind = "instr") THEN s ELSE "program"
  BY DEF AreaOf
<1> QED
  BY <1>1, <1>2 DEF InArea, IsVectorLine

\* A line that is no instruction and no label changes no block and no vector.
LEMMA OtherListed ==
  ASSUME NEW t, NEW k \in Nat, NEW p, Listed(t, k, p), LegalSoFar(t, k + 1),
         t[k + 1].kind # "instr",
         NEW q, SameBlocks(p, q), SameLabels(p, q), q.excpVectors = p.excpVectors
  PROVE  Listed(t, k + 1, q)
<1>1. ~InArea(t, ".boot", k + 1) /\ ~InArea(t, "program", k + 1) /\ ~IsVectorLine(t, k + 1)
  BY DEF InArea, IsVectorLine
<1>2. Placed(t, ".boot", k + 1, p.bootInstructions, p.bootLabel)
  BY <1>1, PlacedSame DEF Listed
<1>3. Placed(t, "program", k + 1, p.midInstrDict, p.currentLabel)
  BY <1>1, PlacedSame DEF Listed
<1>4. VectorsInOrder(t, k + 1, p.excpVectors)
  BY <1>1, OrderSame DEF Listed
<1> QED
  BY <1>2, <1>3, <1>4 DEF Listed, SameBlocks, SameLabels

\* A label line keeps the object listed.
LEMMA LabelListed ==
  ASSUME NEW t, IsText(t), NEW begun, Begins(t, begun), NEW k \in 0 .. Len(t) - 1, NEW labels,
         NEW p \in Objects(t, labels), p.error = NoError, Holds(t, begun, k, p), Listed(t, k, p),
         t[k + 1].kind = "label", LegalSoFar(t, k + 1),
         NEW q, q = ParseLine(p, t[k + 1]), q.error = NoError
  PROVE  Listed(t, k + 1, q)
<1> DEFINE m == k + 1
           s == SectionOf(t, m)
           name == t[m].name
           boot == p.bootInstructions
           mid == p.midInstrDict
<1>0. k \in Nat /\ m \in DOMAIN t
  BY DEF IsText
<1>1. s = p.currentSection
  BY CurrentIs
<1>2. /\ name \notin LabelsOf(boot) \union LabelsOf(mid)
      /\ q.excpVectors = p.excpVectors
      /\ \/ /\ s = ".boot"
            /\ q.bootInstructions = NewBlock(boot, name)
            /\ q.bootLabel = name
            /\ q.midInstrDict = mid /\ q.currentLabel = p.currentLabel
         \/ /\ s # ".boot"
            /\ q.midInstrDict = NewBlock(mid, name)
            /\ q.currentLabel = name
            /\ q.bootInstructions = boot /\ q.bootLabel = p.bootLabel
  BY <1>1, LabelLineIs
<1>3. /\ boot \in Seq(Blocks(Names(t), Codes(t))) /\ mid \in Seq(Blocks(Names(t), Codes(t)))
  BY DEF Objects, ObjectsWith
<1>4. \A j \in Codes(t) : j.length \in Nat
  BY CodesType
<1>5. name \in Names(t)
  BY <1>0 DEF Names, DefinedLabels, LabelLines
<1>6. SizeOf(boot) = 2 * AreaWords(t, ".boot", m) /\ SizeOf(mid) = 2 * AreaWords(t, "program", m)
  BY DEF Holds
<1>7. ~InArea(t, ".boot", m) /\ ~InArea(t, "program", m) /\ ~IsVectorLine(t, m)
  BY DEF InArea, IsVectorLine
<1>8. VectorsInOrder(t, m, q.excpVectors)
  BY <1>0, <1>2, <1>7, OrderSame DEF Listed
<1>9. AreaOf(t, m) = IF s = ".boot" THEN ".boot" ELSE "program"
  BY AreaIs
<1>10. CASE /\ s = ".boot"
            /\ q.bootInstructions = NewBlock(boot, name)
            /\ q.bootLabel = name
            /\ q.midInstrDict = mid /\ q.currentLabel = p.currentLabel
  <2>1. Placed(t, ".boot", m, q.bootInstructions, q.bootLabel)
    <3>1. Placed(t, ".boot", k, boot, p.bootLabel)
      BY DEF Listed
    <3> HIDE DEF boot
    <3>2. \A new : new = NewBlock(boot, name) => Placed(t, ".boot", m, new, name)
      BY <1>0, <1>2, <1>3, <1>4, <1>5, <1>6, <1>9, <1>10, <3>1, PlacedLabel
    <3> QED
      BY <1>10, <3>2
  <2>2. Placed(t, "program", m, mid, p.currentLabel)
    BY <1>0, <1>7, PlacedSame DEF Listed
  <2> QED
    BY <1>8, <1>10, <2>1, <2>2 DEF Listed
<1>11. CASE /\ s # ".boot"
            /\ q.midInstrDict = NewBlock(mid, name)
            /\ q.currentLabel = name
            /\ q.bootInstructions = boot /\ q.bootLabel = p.bootLabel
  <2>1. Placed(t, "program", m, q.midInstrDict, q.currentLabel)
    <3>1. Placed(t, "program", k, mid, p.currentLabel)
      BY DEF Listed
    <3> HIDE DEF mid
    <3>2. \A new : new = NewBlock(mid, name) => Placed(t, "program", m, new, name)
      BY <1>0, <1>2, <1>3, <1>4, <1>5, <1>6, <1>9, <1>11, <3>1, PlacedLabel
    <3> QED
      BY <1>11, <3>2
  <2>2. Placed(t, ".boot", m, boot, p.bootLabel)
    BY <1>0, <1>7, PlacedSame DEF Listed
  <2> QED
    BY <1>8, <1>11, <2>1, <2>2 DEF Listed
<1> QED
  BY <1>2, <1>10, <1>11

\* An instruction line keeps the object listed.
LEMMA InstrListed ==
  ASSUME NEW t, IsText(t), NEW begun, Begins(t, begun), NEW k \in 0 .. Len(t) - 1, NEW labels,
         NEW p \in Objects(t, labels), p.error = NoError, Holds(t, begun, k, p), Listed(t, k, p),
         t[k + 1].kind = "instr", LegalSoFar(t, k + 1),
         NEW q, q = ParseLine(p, t[k + 1]), q.error = NoError
  PROVE  Listed(t, k + 1, q)
<1> DEFINE m == k + 1
           s == SectionOf(t, m)
           i == Encoded(t[m])
           boot == p.bootInstructions
           mid == p.midInstrDict
           vectors == p.excpVectors
<1>0. k \in Nat /\ m \in DOMAIN t
  BY DEF IsText
<1>1. s = p.currentSection
  BY CurrentIs
<1>2. /\ Readable(t[m]) /\ SameLabels(p, q)
      /\ \/ /\ s = ".boot"
            /\ q.bootInstructions = AddTo(boot, p.bootLabel, i)
            /\ q.midInstrDict = mid /\ q.excpVectors = vectors
         \/ /\ s \in {".code", ".data"}
            /\ q.midInstrDict = AddTo(mid, p.currentLabel, i)
            /\ q.bootInstructions = boot /\ q.excpVectors = vectors
         \/ /\ s \in DOMAIN VectorAddr
            /\ q.excpVectors = SetVector(vectors, VectorAddr[s], i)
            /\ SameBlocks(p, q)
  BY <1>1, InstrLineIs
<1>3. /\ boot \in Seq(Blocks(Names(t), Codes(t))) /\ mid \in Seq(Blocks(Names(t), Codes(t)))
      /\ vectors \in Seq(Vectors(t)) /\ p.bootLabel \in Names(t) /\ p.currentLabel \in Names(t)
  BY DEF Objects, ObjectsWith
<1>4. \A j \in Codes(t) : j.length \in Nat
  BY CodesType
<1>5. i \in Codes(t)
  BY <1>0, <1>2 DEF Codes
<1>6. SizeOf(boot) = 2 * AreaWords(t, ".boot", m) /\ SizeOf(mid) = 2 * AreaWords(t, "program", m)
  BY DEF Holds
<1>7. /\ ".boot" \notin DOMAIN VectorAddr /\ ".code" \notin DOMAIN VectorAddr
      /\ ".data" \notin DOMAIN VectorAddr
  BY DEF VectorAddr
<1>8. /\ InArea(t, ".boot", m) <=> s = ".boot"
      /\ InArea(t, "program", m) <=> s # ".boot" /\ s \notin DOMAIN VectorAddr
      /\ IsVectorLine(t, m) <=> s \in DOMAIN VectorAddr
  BY AreaIs DEF IsVectorLine
<1>9. CASE /\ s = ".boot"
           /\ q.bootInstructions = AddTo(boot, p.bootLabel, i)
           /\ q.midInstrDict = mid /\ q.excpVectors = vectors
  <2>1. Placed(t, ".boot", m, q.bootInstructions, q.bootLabel)
    <3>1. Placed(t, ".boot", k, boot, p.bootLabel)
      BY DEF Listed
    <3> HIDE DEF boot, i
    <3>2. \A new : new = AddTo(boot, p.bootLabel, i) => Placed(t, ".boot", m, new, p.bootLabel)
      BY <1>0, <1>3, <1>4, <1>5, <1>6, <1>8, <1>9, <3>1, PlacedInstr DEF i
    <3> QED
      BY <1>2, <1>9, <3>2 DEF SameLabels
  <2>2. Placed(t, "program", m, mid, p.currentLabel)
    BY <1>0, <1>8, <1>9, PlacedSame DEF Listed
  <2>3. VectorsInOrder(t, m, vectors)
    BY <1>0, <1>7, <1>8, <1>9, OrderSame DEF Listed
  <2> QED
    BY <1>2, <1>9, <2>1, <2>2, <2>3 DEF Listed, SameLabels
<1>10. CASE /\ s \in {".code", ".data"}
            /\ q.midInstrDict = AddTo(mid, p.currentLabel, i)
            /\ q.bootInstructions = boot /\ q.excpVectors = vectors
  <2>1. Placed(t, "program", m, q.midInstrDict, q.currentLabel)
    <3>1. Placed(t, "program", k, mid, p.currentLabel)
      BY DEF Listed
    <3> HIDE DEF mid, i
    <3>2. \A new : new = AddTo(mid, p.currentLabel, i) => Placed(t, "program", m, new, p.currentLabel)
      <4>1. InArea(t, "program", m)
        BY <1>7, <1>8, <1>10
      <4> QED
        BY <1>0, <1>3, <1>4, <1>5, <1>6, <3>1, <4>1, PlacedInstr DEF i
    <3> QED
      BY <1>2, <1>10, <3>2 DEF SameLabels
  <2>2. Placed(t, ".boot", m, boot, p.bootLabel)
    BY <1>0, <1>8, <1>10, PlacedSame DEF Listed
  <2>3. VectorsInOrder(t, m, vectors)
    BY <1>0, <1>7, <1>8, <1>10, OrderSame DEF Listed
  <2> QED
    BY <1>2, <1>10, <2>1, <2>2, <2>3 DEF Listed, SameLabels
<1>11. CASE /\ s \in DOMAIN VectorAddr
            /\ q.excpVectors = SetVector(vectors, VectorAddr[s], i)
            /\ SameBlocks(p, q)
  <2>1. Placed(t, ".boot", m, boot, p.bootLabel)
    BY <1>0, <1>7, <1>8, <1>11, PlacedSame DEF Listed
  <2>2. Placed(t, "program", m, mid, p.currentLabel)
    BY <1>0, <1>8, <1>11, PlacedSame DEF Listed
  <2>3. VectorsInOrder(t, m, q.excpVectors)
    <3>1. VectorsInOrder(t, k, vectors) /\ IsVectorLine(t, m)
      BY <1>8, <1>11 DEF Listed
    <3> DEFINE X == {VectorAddr[r] : r \in DOMAIN VectorAddr}
    <3>2. vectors \in Seq([addr : X, instr : Codes(t)]) /\ VectorAddr[s] \in X
      BY <1>3, <1>11 DEF Vectors
    <3> HIDE DEF X, vectors, i
    <3>3. \A new : new = SetVector(vectors, VectorAddr[s], i) => VectorsInOrder(t, m, new)
      BY <1>0, <1>5, <3>1, <3>2, OrderKept
    <3> QED
      BY <1>11, <3>3
  <2> QED
    BY <1>2, <1>11, <2>1, <2>2, <2>3 DEF Listed, SameLabels, SameBlocks
<1> QED
  BY <1>2, <1>9, <1>10, <1>11

\* A line parsed keeps the object listed.
LEMMA LineListed ==
  ASSUME NEW t, IsText(t), NEW begun, Begins(t, begun), NEW k \in 0 .. Len(t) - 1, NEW labels,
         NEW p \in Objects(t, labels), p.error = NoError, Holds(t, begun, k, p), Listed(t, k, p),
         NEW q, q = ParseLine(p, t[k + 1]), q.error = NoError
  PROVE  Listed(t, k + 1, q)
<1>1. k \in Nat /\ k + 1 \in DOMAIN t
  BY DEF IsText
<1>2. LegalSoFar(t, k + 1)
  BY LineHeld
<1>3. t[k + 1].kind \in {"comment", "section", "label", "instr"}
  BY <1>1, <1>2, KindOfLine DEF IsText, LegalSoFar
<1>4. CASE t[k + 1].kind = "comment"
  <2>1. q = p
    BY <1>4, OtherLineIs
  <2>2. SameBlocks(p, q) /\ SameLabels(p, q)
    BY <2>1 DEF SameBlocks, SameLabels
  <2> QED
    BY <1>1, <1>2, <1>4, <2>1, <2>2, OtherListed
<1>5. CASE t[k + 1].kind = "section"
  <2>1. q.excpVectors = p.excpVectors /\ SameLabels(p, q) /\ SameBlocks(p, q)
    BY <1>5, SectionLineIs
  <2> QED
    BY <1>1, <1>2, <1>5, <2>1, OtherListed
<1>6. CASE t[k + 1].kind = "label"
  BY <1>2, <1>6, LabelListed
<1>7. CASE t[k + 1].kind = "instr"
  BY <1>2, <1>7, InstrListed
<1> QED
  BY <1>3, <1>4, <1>5, <1>6, <1>7

\* Before the first line there is nothing to have.
LEMMA NothingListed ==
  ASSUME NEW t, NEW labels, NEW begun, NEW a, Reseted(t, labels, begun, a)
  PROVE  Listed(t, 0, a)
<1>1. /\ a.midInstrDict = << >> /\ a.bootInstructions = << >> /\ a.excpVectors = << >>
      /\ a.currentLabel = "0" /\ a.bootLabel = "1"
  BY DEF Reseted
<1> DEFINE none == << >>
<1>2. DOMAIN none = {} /\ none = << >> /\ \A n : n \notin 1 .. 0
  OBVIOUS
<1> HIDE DEF none
<1>3. ASSUME NEW area, NEW label \in {"0", "1"} PROVE Placed(t, area, 0, none, label)
  BY <1>2 DEF Placed, LastIs, LinesPlaced, SlotsPlaced, LabelsPlaced
<1>4. VectorsInOrder(t, 0, none)
  BY <1>2 DEF VectorsInOrder, LinesInOrder, CurrentIsLast, LinesHaveVector, VectorsEntered
<1> QED
  BY <1>1, <1>2, <1>3, <1>4 DEF Listed

\* A text parsed without an error is where the listing has it.
LEMMA ParsedListed ==
  ASSUME NEW t, IsText(t), NEW begun, Begins(t, begun), NEW labels,
         NEW a, Reseted(t, labels, begun, a), Parsed(a, t).error = NoError
  PROVE  Listed(t, Len(t), Parsed(a, t))
<1> DEFINE N == Len(t)
           Good(k, p) == /\ p \in Objects(t, labels)
                         /\ p.error = NoError => Holds(t, begun, k, p) /\ Listed(t, k, p)
<1>1. N \in Nat /\ DOMAIN t = 1 .. N
  BY DEF IsText
<1> HIDE DEF N, Good
<1>2. PICK F : ParseStates(a, t, N, F)
  BY <1>1, ParsedByLines
<1>0. /\ F[0] = a /\ F[N] = Parsed(a, t)
      /\ \A k \in 1 .. N : F[k] = ParseLine(F[k - 1], t[k])
  BY <1>2 DEF ParseStates
<1>3. Good(0, a)
  BY NothingHeld, NothingListed DEF Reseted, Good
<1>4. ASSUME NEW k \in 0 .. N - 1, Good(k, F[k]) PROVE Good(k + 1, F[k + 1])
  <2>1. k + 1 \in 1 .. N /\ (k + 1) - 1 = k /\ k \in Nat
    BY <1>1
  <2>2. F[k + 1] = ParseLine(F[k], t[k + 1])
    BY <1>0, <2>1
  <2> USE DEF Good, N
  <2> DEFINE p == F[k]
             q == F[k + 1]
             m == k + 1
  <2>4. q \in Objects(t, labels)
    BY <1>1, <1>4, <2>1, <2>2, ParseLineType
  <2>5. CASE p.error = NoError
    <3>1. q.error = NoError => Holds(t, begun, m, q)
      BY <1>4, <2>2, <2>5, LineHeld
    <3>2. q.error = NoError => Listed(t, m, q)
      BY <1>4, <2>2, <2>5, LineListed
    <3> QED
      BY <2>4, <3>1, <3>2
  <2>6. CASE p.error # NoError
    <3>1. q = p
      BY <2>2, <2>6 DEF ParseLine
    <3> QED
      BY <2>4, <2>6, <3>1
  <2> QED
    BY <2>5, <2>6
<1> DEFINE S == {k \in 0 .. N : Good(k, F[k])}
<1>5. 0 \in S
  BY <1>1, <1>0, <1>3
<1>6. ASSUME NEW k \in 0 .. N - 1, k \in S PROVE k + 1 \in S
  <2>1. k + 1 \in 0 .. N
    BY <1>1
  <2> QED
    BY <1>4, <1>6, <2>1
<1>7. \A k \in 0 .. N : k \in S
  <2> HIDE DEF S, N
  <2> QED
    BY <1>1, <1>5, <1>6, InductionTo
<1>8. Good(N, F[N])
  <2>1. N \in 0 .. N
    BY <1>1
  <2> QED
    BY <1>7, <2>1
<1> QED
  BY <1>0, <1>8 DEF Good, N

-----------------------------------------------------------------------------
(* The file of an accepted text, and its labels *)

\* The labels of the blocks of an object, over those it had.
SolvedLabels(labels, p) ==
  Updated(Updated(labels, SolveLabels(p.bootInstructions, bootStartAddr)),
          SolveLabels(p.midInstrDict, codeStartAddr))

\* What the checks leave of an object they find no error in.
LEMMA SolvedTo ==
  ASSUME NEW t, NEW labels, NEW p \in ObjectsWith(t, labels, {NoError}), Solved(p).error = NoError
  PROVE  /\ ~TooLarge(p.bootInstructions, bootStartAddr, memoryEnd)
         /\ ~TooLarge(p.midInstrDict, codeStartAddr, bootStartAddr)
         /\ Solved(p) = [p EXCEPT !.labelDict = SolvedLabels(labels, p)]
<1> DEFINE boot == SolveLabels(p.bootInstructions, bootStartAddr)
           mid == SolveLabels(p.midInstrDict, codeStartAddr)
           l1 == Updated(labels, boot)
           b == WithLabels(p, boot)
<1>1. p.error = NoError /\ p.labelDict = labels
  BY DEF ObjectsWith
<1>2. \A kind \in {"boot", "size"} : Error(kind, Comment, "") # NoError
  BY DEF Error, NoError
<1>3. b = [p EXCEPT !.labelDict = l1]
  BY <1>1 DEF WithLabels
<1> HIDE DEF b, l1, boot, mid
<1>4. ASSUME NEW new, NEW q \in ObjectsWith(t, new, {NoError}), NEW e
      PROVE  [q EXCEPT !.error = e].error = e
  BY DEF ObjectsWith
<1>5. b \in ObjectsWith(t, l1, {NoError}) /\ b.labelDict = l1
  BY <1>3, LabelsReplaced
<1>6. ".boot" \in p.sectionDict
  <2> SUFFICES ASSUME ".boot" \notin p.sectionDict PROVE FALSE
    OBVIOUS
  <2> DEFINE e == Error("boot", Comment, "")
  <2>1. Solved(p) = [p EXCEPT !.error = e]
    BY <1>1 DEF Solved
  <2>2. e # NoError
    BY <1>2
  <2> HIDE DEF e
  <2>3. [p EXCEPT !.error = e].error = e
    BY <1>4
  <2> QED
    BY <2>1, <2>2, <2>3
<1>7. ~TooLarge(p.bootInstructions, bootStartAddr, memoryEnd)
  <2> SUFFICES ASSUME TooLarge(p.bootInstructions, bootStartAddr, memoryEnd) PROVE FALSE
    OBVIOUS
  <2> DEFINE e == Error("size", Comment, "")
  <2>1. Solved(p) = [p EXCEPT !.error = e]
    BY <1>1, <1>6 DEF Solved
  <2>2. e # NoError
    BY <1>2
  <2> HIDE DEF e
  <2>3. [p EXCEPT !.error = e].error = e
    BY <1>4
  <2> QED
    BY <2>1, <2>2, <2>3
<1>8. ~TooLarge(p.midInstrDict, codeStartAddr, bootStartAddr)
  <2> SUFFICES ASSUME TooLarge(p.midInstrDict, codeStartAddr, bootStartAddr) PROVE FALSE
    OBVIOUS
  <2> DEFINE e == Error("size", Comment, "")
  <2>1. Solved(p) = [b EXCEPT !.error = e]
    BY <1>1, <1>6, <1>7 DEF Solved, b, boot
  <2>2. e # NoError
    BY <1>2
  <2> HIDE DEF e
  <2>3. [b EXCEPT !.error = e].error = e
    BY <1>4, <1>5
  <2> QED
    BY <2>1, <2>2, <2>3
<1>9. Solved(p) = [b EXCEPT !.labelDict = Updated(l1, mid)]
  <2>1. Solved(p) = WithLabels(b, mid)
    BY <1>1, <1>6, <1>7, <1>8 DEF Solved, b, boot, mid
  <2> QED
    BY <1>5, <2>1 DEF WithLabels
<1>10. SolvedLabels(labels, p) = Updated(l1, mid)
  BY DEF SolvedLabels, l1, boot, mid
<1> DEFINE l2 == Updated(l1, mid)
<1> HIDE DEF l2
<1>11. [b EXCEPT !.labelDict = l2] = [p EXCEPT !.labelDict = l2]
  BY <1>3 DEF ObjectsWith
<1> QED
  BY <1>7, <1>8, <1>9, <1>10, <1>11 DEF l2

\* The lines of a file with all blocks.
FileOf(labels, blocks) == FlattenSeq([k \in 1 .. Len(blocks) |-> BlockLines(labels, blocks[k])])

AllWritten(labels, a, r) ==
  /\ r.asm = a
  /\ \A i \in InstrsToWrite(a) : Unsolved(labels, i) = {}
  /\ r.file = FileOf(labels, BlocksToWrite(a))

\* What is written of an object, without an error: all of its blocks.
LEMMA WrittenTo ==
  ASSUME NEW t, IsText(t), NEW labels, \A l \in DOMAIN labels : labels[l] \in Nat,
         NEW a \in ObjectsWith(t, labels, {NoError}),
         LabelsOf(a.midInstrDict) \subseteq DOMAIN labels,
         Written(a).asm.error = NoError
  PROVE  AllWritten(labels, a, Written(a))
<1> DEFINE blocks == BlocksToWrite(a)
           N == Len(blocks)
           bad == SelectInSeq(blocks, LAMBDA b : FirstUnsolved(a.labelDict, b) # "")
           upTo == IF bad = 0 THEN Len(blocks) ELSE bad
           seqs == [k \in 1 .. upTo |-> BlockLines(a.labelDict, blocks[k])]
           l == FirstUnsolved(a.labelDict, blocks[bad])
<1>1. a.labelDict = labels /\ a.error = NoError
  BY DEF ObjectsWith
<1>2. Written(a) = [asm |-> IF bad = 0 THEN a ELSE [a EXCEPT !.error = Error("label", Comment, l)],
                    opened |-> TRUE, file |-> FlattenSeq(seqs)]
  BY DEF Written, blocks
<1>3. WrittenAs(labels, a, Written(a))
  BY WrittenIs
<1>4. \A m : Error("label", Comment, m) # NoError
  BY DEF Error, NoError
<1>5. \A m : [a EXCEPT !.error = Error("label", Comment, m)].error # NoError
  BY <1>4 DEF ObjectsWith
<1>6. \A i \in InstrsToWrite(a) : Unsolved(labels, i) = {}
  BY <1>3, <1>5 DEF WrittenAs
<1>7. bad = 0
  <2> SUFFICES ASSUME bad # 0 PROVE FALSE
    OBVIOUS
  <2> HIDE DEF bad, seqs, l
  <2>1. Written(a).asm = [a EXCEPT !.error = Error("label", Comment, l)]
    BY <1>2
  <2> QED
    BY <1>5, <2>1
<1>8. seqs = [k \in 1 .. N |-> BlockLines(labels, blocks[k])]
  <2>1. upTo = N
    <3> HIDE DEF bad, blocks
    <3> QED
      BY <1>7
  <2> HIDE DEF upTo, blocks, N
  <2> QED
    BY <1>1, <2>1
<1> HIDE DEF bad, seqs
<1>9. Written(a).asm = a /\ Written(a).file = FlattenSeq(seqs)
  BY <1>2, <1>7
<1> QED
  BY <1>6, <1>8, <1>9 DEF blocks, N, FileOf, AllWritten

\* What assembling a text makes, without an error: the object the text is parsed to with
\* its labels solved, and a file with all of its blocks.
FileWrittenOf(t, labels, p, new, r) ==
  /\ p \in ObjectsWith(t, labels, {NoError})
  /\ ~TooLarge(p.bootInstructions, bootStartAddr, memoryEnd)
  /\ ~TooLarge(p.midInstrDict, codeStartAddr, bootStartAddr)
  /\ r.asm = [p EXCEPT !.labelDict = new]
  /\ \A i \in InstrsToWrite(p) : Unsolved(new, i) = {}
  /\ r.file = FileOf(new, BlocksToWrite(r.asm))

\* That is what assembling makes of it.
LEMMA AcceptedFile ==
  ASSUME NEW t, IsText(t), NEW labels, InRange(labels),
         NEW a \in Objects(t, labels), a.error = NoError,
         NEW p, p = Parsed(a, t), NEW r, r = Assemble(a, t), r.asm.error = NoError,
         NEW new, new = SolvedLabels(labels, p)
  PROVE  FileWrittenOf(t, labels, p, new, r)
<1> DEFINE s == Solved(p)
<1>1. p \in Objects(t, labels)
  BY ParsedType
<1>2. r = IF s.error = NoError THEN Written(s)
          ELSE [asm |-> s, opened |-> FALSE, file |-> << >>]
  BY DEF Assemble
<1> HIDE DEF s
<1>3. s.error = NoError /\ r = Written(s)
  <2> SUFFICES ASSUME s.error # NoError PROVE FALSE
    BY <1>2
  <2>1. r.asm = s
    BY <1>2
  <2> QED
    BY <2>1
<1>4. p \in ObjectsWith(t, labels, {NoError})
  <2>1. p.error = NoError
    <3> SUFFICES ASSUME p.error # NoError PROVE FALSE
      OBVIOUS
    <3>1. Solved(p) = p
      BY DEF Solved
    <3> QED
      BY <1>3, <3>1 DEF s
  <2> QED
    BY <1>1, <2>1 DEF Objects, ObjectsWith
<1>5. /\ ~TooLarge(p.bootInstructions, bootStartAddr, memoryEnd)
      /\ ~TooLarge(p.midInstrDict, codeStartAddr, bootStartAddr)
      /\ s = [p EXCEPT !.labelDict = new]
  <2>1. Solved(p).error = NoError
    BY <1>3 DEF s
  <2>2. /\ Solved(p) = [p EXCEPT !.labelDict = SolvedLabels(labels, p)]
        /\ ~TooLarge(p.bootInstructions, bootStartAddr, memoryEnd)
        /\ ~TooLarge(p.midInstrDict, codeStartAddr, bootStartAddr)
    BY <1>4, <2>1, SolvedTo
  <2> QED
    BY <2>2 DEF s
<1>6. /\ s \in ObjectsWith(t, new, {NoError})
      /\ s.midInstrDict = p.midInstrDict /\ s.bootInstructions = p.bootInstructions
      /\ s.excpVectors = p.excpVectors
  BY <1>4, <1>5, LabelsReplaced
<1>7. InRange(new) /\ LabelsOf(s.midInstrDict) \subseteq DOMAIN new
  <2>1. \A i \in Codes(t) : i.length \in Nat
    BY CodesType
  <2>2. /\ p.bootInstructions \in Seq(Blocks(Names(t), Codes(t)))
        /\ p.midInstrDict \in Seq(Blocks(Names(t), Codes(t)))
    BY <1>4 DEF ObjectsWith
  <2> DEFINE boot == SolveLabels(p.bootInstructions, bootStartAddr)
             mid == SolveLabels(p.midInstrDict, codeStartAddr)
  <2>3. /\ codeStartAddr \in Nat /\ bootStartAddr \in Nat /\ memoryEnd \in Nat
        /\ codeStartAddr < bootStartAddr /\ bootStartAddr < memoryEnd
    BY AreasAssumption
  <2>4. /\ DOMAIN boot = LabelsOf(p.bootInstructions)
        /\ \A l \in LabelsOf(p.bootInstructions) : boot[l] \in bootStartAddr .. memoryEnd
    BY <1>5, <2>1, <2>2, <2>3, LabelsSolved
  <2>5. /\ DOMAIN mid = LabelsOf(p.midInstrDict)
        /\ \A l \in LabelsOf(p.midInstrDict) : mid[l] \in codeStartAddr .. bootStartAddr
    BY <1>5, <2>1, <2>2, <2>3, LabelsSolved
  <2>6. new = Updated(Updated(labels, boot), mid)
    BY DEF SolvedLabels
  <2> HIDE DEF boot, mid
  <2>7. InRange(boot) /\ InRange(mid)
    <3>1. /\ \A x \in bootStartAddr .. memoryEnd : x \in codeStartAddr .. memoryEnd
          /\ \A x \in codeStartAddr .. bootStartAddr : x \in codeStartAddr .. memoryEnd
      BY <2>3
    <3> QED
      BY <2>4, <2>5, <3>1 DEF InRange
  <2>8. InRange(Updated(labels, boot))
    BY <2>7, LabelsAdded
  <2> DEFINE l1 == Updated(labels, boot)
  <2> HIDE DEF l1
  <2>9. InRange(Updated(l1, mid)) /\ DOMAIN Updated(l1, mid) = DOMAIN l1 \union DOMAIN mid
    BY <2>7, <2>8, LabelsAdded DEF l1
  <2> QED
    BY <1>6, <2>5, <2>6, <2>9 DEF l1
<1>8. \A l \in DOMAIN new : new[l] \in Nat
  <2>1. \A x \in codeStartAddr .. memoryEnd : x \in Nat
    BY AreasAssumption
  <2> QED
    BY <1>7, <2>1 DEF InRange
<1>9. /\ r.asm = s
      /\ \A i \in InstrsToWrite(s) : Unsolved(new, i) = {}
      /\ r.file = FileOf(new, BlocksToWrite(s))
  <2>1. Written(s).asm.error = NoError
    BY <1>3
  <2>2. AllWritten(new, s, r)
    BY <1>3, <1>6, <1>7, <1>8, <2>1, WrittenTo
  <2> QED
    BY <2>2 DEF AllWritten
<1>10. InstrsToWrite(s) = InstrsToWrite(p)
  BY <1>6 DEF InstrsToWrite
<1>11. r.asm = [p EXCEPT !.labelDict = new]
  BY <1>5, <1>9
<1> QED
  BY <1>4, <1>5, <1>9, <1>10, <1>11 DEF FileWrittenOf

\* A label is solved to where its block is.
LEMMA SolvedAt ==
  ASSUME NEW X, NEW I, NEW blocks \in Seq(Blocks(X, I)), NEW label, LastIs(blocks, label),
         NEW start, NEW b \in DOMAIN blocks
  PROVE  SolveLabels(blocks, start)[blocks[b].label] = start + BlockAt(blocks, b)
<1> DEFINE l == blocks[b].label
           I0 == {i \in 1 .. Len(blocks) : blocks[i].label = l}
           j == SelectInSeq(blocks, LAMBDA c : c.label = l)
           N == Len(blocks)
<1>1. N \in Nat /\ DOMAIN blocks = 1 .. N /\ b \in 1 .. N
  OBVIOUS
<1>2. j = IF I0 # {} THEN Min(I0) ELSE 0
  BY DEF SelectInSeq
<1>3. I0 \subseteq 1 .. N /\ b \in I0
  BY <1>1
<1>4. j \in I0
  <2> HIDE DEF I0, j, N
  <2> QED
    BY <1>1, <1>2, <1>3, FirstOf
<1>5. j = b
  BY <1>1, <1>4 DEF LastIs
<1>6. l \in LabelsOf(blocks)
  BY DEF LabelsOf
<1>7. SolveLabels(blocks, start)[l] = start + SizeOf(SubSeq(blocks, 1, j - 1))
  BY <1>6 DEF SolveLabels
<1> HIDE DEF j
<1> QED
  BY <1>5, <1>7 DEF BlockAt

\* The address of a line, by its area.
LEMMA AddressIs ==
  ASSUME NEW t, NEW n
  PROVE  /\ AreaOf(t, n) = ".boot" => AddressOf(t, n) = bootStartAddr + 2 * AreaWords(t, ".boot", n)
         /\ AreaOf(t, n) = "program" => AddressOf(t, n) = codeStartAddr + 2 * AreaWords(t, "program", n)
         /\ AreaOf(t, n) \in DOMAIN VectorAddr => AddressOf(t, n) = VectorAddr[AreaOf(t, n)]
<1>1. /\ ".boot" \notin DOMAIN VectorAddr /\ "program" \notin DOMAIN VectorAddr
  BY DEF VectorAddr
<1>2. CASE AreaOf(t, n) = ".boot"
  <2>1. AreaStart(".boot") = bootStartAddr
    BY DEF AreaStart
  <2> QED
    BY <1>1, <1>2, <2>1 DEF AddressOf
<1>3. CASE AreaOf(t, n) = "program"
  <2>1. AreaStart("program") = codeStartAddr
    BY DEF AreaStart
  <2> QED
    BY <1>1, <1>3, <2>1 DEF AddressOf
<1>4. CASE AreaOf(t, n) \in DOMAIN VectorAddr
  <2> DEFINE area == AreaOf(t, n)
             v == VectorAddr[area]
  <2>1. area # ".boot" /\ area # "program"
    BY <1>1, <1>4
  <2>2. v \in Nat
    BY <1>4 DEF VectorAddr
  <2> HIDE DEF area, v
  <2>3. AreaStart(area) = v
    BY <2>1 DEF AreaStart, v
  <2>4. AddressOf(t, n) = v + 0
    BY <1>4, <2>3 DEF AddressOf, area
  <2> QED
    BY <1>1, <2>1, <2>2, <2>4 DEF area, v
<1> QED
  BY <1>1, <1>2, <1>3, <1>4

\* What parsing a text without an error leaves.
ParsedText(t, begun, p) ==
  /\ Holds(t, begun, Len(t), p) /\ Listed(t, Len(t), p) /\ \A n \in 1 .. Len(t) : LegalSoFar(t, n)

\* The labels of the text have the values of the listing.
LEMMA LabelsListed ==
  ASSUME NEW t, IsText(t), NEW begun, NEW labels,
         NEW p \in ObjectsWith(t, labels, {NoError}), ParsedText(t, begun, p),
         NEW new, new = SolvedLabels(labels, p),
         NEW l \in DefinedLabels(t)
  PROVE  l \in DOMAIN new /\ new[l] = LabelValues(t)[l]
<1> DEFINE boot == p.bootInstructions
           mid == p.midInstrDict
           sb == SolveLabels(boot, bootStartAddr)
           sm == SolveLabels(mid, codeStartAddr)
           l1 == Updated(labels, sb)
           N == Len(t)
<1>0. /\ Holds(t, begun, N, p) /\ Listed(t, N, p) /\ \A n \in 1 .. N : LegalSoFar(t, n)
  BY DEF ParsedText
<1>1. N \in Nat /\ DOMAIN t = 1 .. N /\ \A n \in 1 .. N : IsLine(t[n])
  BY DEF IsText
<1>2. \A n \in DOMAIN t : LegalLine(t, n)
  BY <1>0, AllLegal
<1>3. ASSUME NEW m \in LabelLines(t), NEW n \in LabelLines(t), t[m].name = t[n].name
      PROVE  m = n
  <2>1. m \in DOMAIN t /\ n \in DOMAIN t /\ t[n].kind = "label"
    BY DEF LabelLines
  <2>2. \A x \in LabelLines(t) : t[x].name = t[n].name => x = n
    BY <1>2, <2>1, LegalLineIs
  <2> QED
    BY <1>3, <2>2
<1>4. ASSUME NEW n \in LabelLines(t), t[n].name = l
      PROVE  LabelValues(t)[l] = AddressOf(t, n)
  <2> DEFINE m == CHOOSE x \in LabelLines(t) : t[x].name = l
  <2>1. m \in LabelLines(t) /\ t[m].name = l
    BY <1>4
  <2> HIDE DEF m
  <2>2. m = n
    BY <1>3, <1>4, <2>1
  <2>3. LabelValues(t)[l] = AddressOf(t, m)
    BY DEF LabelValues, m
  <2> QED
    BY <2>2, <2>3
<1>5. l \in LabelsOf(boot) \union LabelsOf(mid) /\ l \notin {"0", "1"}
  <2>1. l \in NamesTo(t, N)
    BY <1>1 DEF DefinedLabels, LabelLines, NamesTo
  <2> QED
    BY <1>0, <2>1 DEF Holds
<1>6. /\ boot \in Seq(Blocks(Names(t), Codes(t))) /\ mid \in Seq(Blocks(Names(t), Codes(t)))
  BY DEF ObjectsWith
<1>7. Placed(t, ".boot", N, boot, p.bootLabel) /\ Placed(t, "program", N, mid, p.currentLabel)
  BY <1>0 DEF Listed
<1>8. DOMAIN sb = LabelsOf(boot) /\ DOMAIN sm = LabelsOf(mid)
  BY DEF SolveLabels
<1>9. new = Updated(l1, sm) /\ l1 = Updated(labels, sb)
  BY DEF SolvedLabels
<1> HIDE DEF sb, sm, l1
<1>10. CASE l \in LabelsOf(mid)
  <2>1. l \in DOMAIN new /\ new[l] = sm[l]
    BY <1>8, <1>9, <1>10 DEF Updated
  <2>2. PICK b \in DOMAIN mid : mid[b].label = l
    BY <1>10 DEF LabelsOf
  <2>3. sm[l] = codeStartAddr + BlockAt(mid, b)
    <3> HIDE DEF mid
    <3>1. LastIs(mid, p.currentLabel)
      BY <1>7 DEF Placed
    <3>2. SolveLabels(mid, codeStartAddr)[mid[b].label] = codeStartAddr + BlockAt(mid, b)
      BY <1>6, <3>1, SolvedAt
    <3> QED
      BY <2>2, <3>2 DEF sm
  <2>4. PICK n \in 1 .. N : LabelIsAt(t, "program", mid, b, n)
    BY <1>5, <1>7, <2>2 DEF Placed, LabelsPlaced
  <2>5. n \in LabelLines(t) /\ t[n].name = l /\ AddressOf(t, n) = codeStartAddr + BlockAt(mid, b)
    BY <1>1, <2>2, <2>4, AddressIs DEF LabelLines, LabelIsAt
  <2> QED
    BY <1>4, <2>1, <2>3, <2>5
<1>11. CASE l \notin LabelsOf(mid)
  <2>1. l \in DOMAIN new /\ new[l] = sb[l]
    BY <1>5, <1>8, <1>9, <1>11 DEF Updated
  <2>2. PICK b \in DOMAIN boot : boot[b].label = l
    BY <1>5, <1>11 DEF LabelsOf
  <2>3. sb[l] = bootStartAddr + BlockAt(boot, b)
    <3> HIDE DEF boot
    <3>1. LastIs(boot, p.bootLabel)
      BY <1>7 DEF Placed
    <3>2. SolveLabels(boot, bootStartAddr)[boot[b].label] = bootStartAddr + BlockAt(boot, b)
      BY <1>6, <3>1, SolvedAt
    <3> QED
      BY <2>2, <3>2 DEF sb
  <2>4. PICK n \in 1 .. N : LabelIsAt(t, ".boot", boot, b, n)
    BY <1>5, <1>7, <2>2 DEF Placed, LabelsPlaced
  <2>5. n \in LabelLines(t) /\ t[n].name = l /\ AddressOf(t, n) = bootStartAddr + BlockAt(boot, b)
    BY <1>1, <2>2, <2>4, AddressIs DEF LabelLines, LabelIsAt
  <2> QED
    BY <1>4, <2>1, <2>3, <2>5
<1> QED
  BY <1>10, <1>11

\* Words of an instruction depend on the values of its own labels only.
LEMMA WordsAgree ==
  ASSUME NEW labels, NEW all, NEW i,
         \A o \in {i.src1, i.src2} : o.label = "" \/ all[o.label] = labels[o.label]
  PROVE  InstrWords(all, i) = InstrWords(labels, i)
<1>1. \A o \in {i.src1, i.src2} : SrcIntVal(all, o) = SrcIntVal(labels, o)
  BY DEF SrcIntVal
<1>2. \A o \in {i.src1, i.src2} : ParamWords(all, o) = ParamWords(labels, o)
  BY <1>1 DEF ParamWords
<1>3. /\ SrcIntVal(all, i.src1) = SrcIntVal(labels, i.src1)
      /\ ParamWords(all, i.src1) = ParamWords(labels, i.src1)
      /\ ParamWords(all, i.src2) = ParamWords(labels, i.src2)
  BY <1>1, <1>2
<1>4. [n \in 1 .. i.src2.value |-> SrcIntVal(all, i.src1)]
        = [n \in 1 .. i.src2.value |-> SrcIntVal(labels, i.src1)]
  BY <1>3
<1>5. CASE i.opcode # NoOpcode
  <2> DEFINE head == <<i.opcode * 1024 + SrcEncoding(i.src1) * 32 + SrcEncoding(i.src2)>>
  <2>1. InstrWords(all, i) = head \o ParamWords(all, i.src1) \o ParamWords(all, i.src2)
    BY <1>5 DEF InstrWords
  <2>2. InstrWords(labels, i) = head \o ParamWords(labels, i.src1) \o ParamWords(labels, i.src2)
    BY <1>5 DEF InstrWords
  <2> HIDE DEF head
  <2> QED
    BY <1>3, <2>1, <2>2
<1>6. CASE i.opcode = NoOpcode /\ i.src2.type = "null"
  BY <1>3, <1>6, ZenonT(40) DEF InstrWords
<1>7. CASE i.opcode = NoOpcode /\ i.src2.type # "null"
  BY <1>4, <1>7, ZenonT(40) DEF InstrWords
<1> QED
  BY <1>5, <1>6, <1>7

\* The words of an instruction are those with the values of the listing.
LEMMA SameWords ==
  ASSUME NEW labels, NEW values,
         \A l \in DOMAIN values : l \in DOMAIN labels /\ labels[l] = values[l],
         NEW i, Unsolved(labels, i) = {}
  PROVE  InstrWords(Updated(labels, values), i) = InstrWords(labels, i)
<1> DEFINE all == Updated(labels, values)
<1>1. \A l \in DOMAIN labels : all[l] = labels[l]
  BY DEF Updated
<1> HIDE DEF all
<1>2. \A o \in {i.src1, i.src2} : o.label = "" \/ o.label \in DOMAIN labels
  BY DEF Unsolved
<1>3. InstrWords(all, i) = InstrWords(labels, i)
  BY <1>1, <1>2, WordsAgree
<1> QED
  BY <1>3 DEF all

-----------------------------------------------------------------------------
(* Sequences flattened *)

\* Where the first n sequences, put behind each other, are: O[k - 1] elements before the
\* k-th.
FlatTo(seqs, n, flat, O) ==
  /\ O \in [0 .. n -> Nat] /\ O[0] = 0
  /\ \A k \in 1 .. n : O[k] = O[k - 1] + Len(seqs[k])
  /\ Len(flat) = O[n]
  /\ \A k \in 1 .. n : \A i \in 1 .. Len(seqs[k]) :
       /\ O[k - 1] + i \in 1 .. Len(flat)
       /\ flat[O[k - 1] + i] = seqs[k][i]

FlatAt(seqs, flat, O) == FlatTo(seqs, Len(seqs), flat, O)

\* Two sequences behind each other.
LEMMA ConcatIs ==
  ASSUME NEW X, NEW p \in Seq(X), NEW q \in Seq(X), NEW r, r = p \o q
  PROVE  /\ r \in Seq(X) /\ Len(p) \in Nat /\ Len(q) \in Nat /\ Len(r) = Len(p) + Len(q)
         /\ \A i \in 1 .. Len(p) : i \in 1 .. Len(r) /\ r[i] = p[i]
         /\ \A i \in 1 .. Len(q) : Len(p) + i \in 1 .. Len(r) /\ r[Len(p) + i] = q[i]
  OBVIOUS

\* One sequence more.
LEMMA FlatMore ==
  ASSUME NEW X, NEW n \in Nat, NEW seqs, NEW flat \in Seq(X), NEW s \in Seq(X), NEW O,
         FlatTo(seqs, n, flat, O), seqs[n + 1] = s, NEW new, new = flat \o s
  PROVE  new \in Seq(X) /\ \E P : FlatTo(seqs, n + 1, new, P)
<1> DEFINE P == [k \in 0 .. n + 1 |-> IF k = n + 1 THEN O[n] + Len(s) ELSE O[k]]
<1>1. /\ O \in [0 .. n -> Nat] /\ O[0] = 0 /\ Len(flat) = O[n]
      /\ \A k \in 1 .. n : O[k] = O[k - 1] + Len(seqs[k])
      /\ \A k \in 1 .. n : \A i \in 1 .. Len(seqs[k]) :
           O[k - 1] + i \in 1 .. Len(flat) /\ flat[O[k - 1] + i] = seqs[k][i]
  BY DEF FlatTo
<1>2. /\ new \in Seq(X) /\ Len(flat) \in Nat /\ Len(s) \in Nat /\ Len(new) = Len(flat) + Len(s)
      /\ \A i \in 1 .. Len(flat) : i \in 1 .. Len(new) /\ new[i] = flat[i]
      /\ \A i \in 1 .. Len(s) : Len(flat) + i \in 1 .. Len(new) /\ new[Len(flat) + i] = s[i]
  BY ConcatIs
<1>3. /\ P \in [0 .. n + 1 -> Nat] /\ P[n + 1] = O[n] + Len(s)
      /\ \A k \in 0 .. n : P[k] = O[k]
  BY <1>1, <1>2
<1> HIDE DEF P
<1>4. P[0] = 0 /\ n \in 0 .. n /\ (n + 1) - 1 = n
  BY <1>1, <1>3
<1>5. ASSUME NEW k \in 1 .. n
      PROVE  /\ P[k] = P[k - 1] + Len(seqs[k])
             /\ \A i \in 1 .. Len(seqs[k]) :
                  P[k - 1] + i \in 1 .. Len(new) /\ new[P[k - 1] + i] = seqs[k][i]
  <2>1. k - 1 \in 0 .. n /\ k \in 0 .. n
    OBVIOUS
  <2>2. P[k] = O[k] /\ P[k - 1] = O[k - 1]
    BY <1>3, <2>1
  <2>3. ASSUME NEW i \in 1 .. Len(seqs[k])
        PROVE  O[k - 1] + i \in 1 .. Len(new) /\ new[O[k - 1] + i] = seqs[k][i]
    BY <1>1, <1>2, Zenon
  <2> QED
    BY <1>1, <2>2, <2>3
<1>6. /\ P[n + 1] = P[n] + Len(s)
      /\ \A i \in 1 .. Len(s) : P[n] + i \in 1 .. Len(new) /\ new[P[n] + i] = s[i]
  <2>1. P[n] = Len(flat) /\ P[n] = O[n]
    BY <1>1, <1>3, <1>4
  <2> QED
    BY <1>2, <1>3, <2>1
<1>7. \A k \in 1 .. n + 1 : k \in 1 .. n \/ k = n + 1
  OBVIOUS
<1>8. ASSUME NEW k \in 1 .. n + 1
      PROVE  /\ P[k] = P[k - 1] + Len(seqs[k])
             /\ \A i \in 1 .. Len(seqs[k]) :
                  P[k - 1] + i \in 1 .. Len(new) /\ new[P[k - 1] + i] = seqs[k][i]
  <2>1. CASE k \in 1 .. n
    BY <1>5, <2>1
  <2>2. CASE k = n + 1
    <3>1. seqs[k] = s /\ P[k] = P[n + 1] /\ k - 1 = n
      BY <1>4, <2>2
    <3> QED
      BY <1>6, <3>1
  <2> QED
    BY <1>7, <2>1, <2>2
<1>9. Len(new) = P[n + 1]
  BY <1>1, <1>2, <1>3
<1>10. FlatTo(seqs, n + 1, new, P)
  BY <1>3, <1>4, <1>8, <1>9 DEF FlatTo
<1> QED
  BY <1>2, <1>10

\* Flattening a sequence of sequences.
LEMMA FlattenIs ==
  ASSUME NEW X, NEW seqs \in Seq(Seq(X)), NEW flat, flat = FlattenSeq(seqs)
  PROVE  flat \in Seq(X) /\ \E O : FlatAt(seqs, flat, O)
<1> DEFINE N == Len(seqs)
           Flattens(n, f) ==
             f = [i \in 1 .. n |-> IF i = 1 THEN seqs[i] ELSE f[i - 1] \o seqs[i]]
           Defined == {n \in 0 .. N : \E f \in [1 .. n -> Seq(X)] : Flattens(n, f)}
<1>1. N \in Nat /\ \A i \in 1 .. N : seqs[i] \in Seq(X)
  OBVIOUS
<1>2. flat \in Seq(X)
  <2>1. FlattenSeq(seqs) \in Seq(X)
    BY FlattenType
  <2> QED
    BY <2>1
<1>3. CASE N = 0
  <2>1. seqs = << >>
    BY <1>3
  <2>2. flat = << >>
    BY <1>3, <2>1 DEF FlattenSeq
  <2> DEFINE O == [k \in 0 .. 0 |-> 0]
  <2>3. FlatAt(seqs, flat, O)
    BY <2>1, <2>2 DEF FlatAt, FlatTo
  <2> QED
    BY <1>2, <2>3
<1>4. CASE N # 0
  <2>1. 0 \in Defined
    <3> DEFINE f == [i \in 1 .. 0 |-> << >>]
    <3>1. f \in [1 .. 0 -> Seq(X)] /\ Flattens(0, f)
      OBVIOUS
    <3>2. 0 \in 0 .. N
      BY <1>1
    <3> HIDE DEF f, Flattens, N
    <3> QED
      BY <3>1, <3>2
  <2>2. ASSUME NEW n \in 0 .. N - 1, n \in Defined PROVE n + 1 \in Defined
    <3> HIDE DEF N
    <3>1. PICK g \in [1 .. n -> Seq(X)] : Flattens(n, g)
      BY <2>2
    <3> DEFINE new == IF n + 1 = 1 THEN seqs[1] ELSE g[n] \o seqs[n + 1]
               f == [i \in 1 .. n + 1 |-> IF i = n + 1 THEN new ELSE g[i]]
    <3>2. n \in Nat /\ n + 1 \in 1 .. N /\ n + 1 \in 0 .. N /\ seqs[n + 1] \in Seq(X)
      BY <1>1
    <3>3. new \in Seq(X)
      <4>1. CASE n = 0
        BY <3>2, <4>1
      <4>2. CASE n # 0
        <5>1. g[n] \in Seq(X)
          BY <3>2, <4>2
        <5> QED
          BY <3>2, <4>2, <5>1
      <4> QED
        BY <4>1, <4>2
    <3>4. f \in [1 .. n + 1 -> Seq(X)]
      <4>1. ASSUME NEW i \in 1 .. n + 1, i # n + 1 PROVE g[i] \in Seq(X)
        BY <3>2, <4>1
      <4> HIDE DEF new
      <4> QED
        BY <3>3, <4>1
    <3>5. ASSUME NEW i \in 1 .. n + 1
          PROVE  f[i] = IF i = 1 THEN seqs[i] ELSE f[i - 1] \o seqs[i]
      <4>1. CASE i = n + 1
        <5>1. f[i] = new
          BY <4>1
        <5>2. i # 1 => i - 1 \in 1 .. n + 1 /\ i - 1 # n + 1 /\ i - 1 = n
          BY <3>2, <4>1
        <5>3. i # 1 => f[i - 1] = g[n]
          BY <5>2
        <5> QED
          BY <4>1, <5>1, <5>3
      <4>2. CASE i # n + 1
        <5>1. i \in 1 .. n /\ i - 1 # n + 1 /\ (i # 1 => i - 1 \in 1 .. n + 1)
          BY <3>2, <4>2
        <5>2. g[i] = IF i = 1 THEN seqs[i] ELSE g[i - 1] \o seqs[i]
          BY <3>1, <5>1
        <5>3. f[i] = g[i] /\ (i # 1 => f[i - 1] = g[i - 1])
          BY <4>2, <5>1
        <5> QED
          BY <5>2, <5>3
      <4> QED
        BY <4>1, <4>2
    <3>6. Flattens(n + 1, f)
      <4>1. f = [i \in 1 .. n + 1 |-> f[i]]
        OBVIOUS
      <4> HIDE DEF f
      <4> QED
        BY <3>5, <4>1
    <3> HIDE DEF f, Flattens
    <3> QED
      BY <3>2, <3>4, <3>6
  <2>3. N \in Defined
    <3>1. \A n \in 0 .. N : n \in Defined
      <4> HIDE DEF Defined, N
      <4> QED
        BY <1>1, <2>1, <2>2, InductionTo
    <3> HIDE DEF Defined, N
    <3> QED
      BY <1>1, <3>1
  <2> DEFINE flatten == CHOOSE f : Flattens(N, f)
  <2>4. Flattens(N, flatten)
    <3>1. \E f : Flattens(N, f)
      BY <2>3
    <3> HIDE DEF Flattens, N
    <3> QED
      BY <3>1, Zenon
  <2>5. flat = flatten[N]
    BY <1>4 DEF FlattenSeq
  <2> HIDE DEF flatten
  <2> DEFINE S == {n \in 0 .. N : n # 0 => /\ flatten[n] \in Seq(X)
                                           /\ \E O : FlatTo(seqs, n, flatten[n], O)}
  <2>6. 0 \in S
    BY <1>1
  <2>7. ASSUME NEW n \in 0 .. N - 1, n \in S PROVE n + 1 \in S
    <3>1. n \in Nat /\ n + 1 \in 1 .. N /\ n + 1 \in 0 .. N /\ (n + 1) - 1 = n
      BY <1>1
    <3>2. flatten[n + 1] = IF n + 1 = 1 THEN seqs[n + 1] ELSE flatten[n] \o seqs[n + 1]
      BY <2>4, <3>1
    <3>3. seqs[n + 1] \in Seq(X)
      BY <1>1, <3>1
    <3>4. CASE n = 0
      <4> DEFINE O == [k \in 0 .. 1 |-> IF k = 0 THEN 0 ELSE Len(seqs[1])]
                 s == seqs[1]
      <4>1. flatten[1] = s /\ s \in Seq(X) /\ Len(s) \in Nat
        BY <3>2, <3>3, <3>4
      <4>2. O[0] = 0 /\ O[1] = Len(s) /\ O \in [0 .. 1 -> Nat]
        BY <4>1
      <4> HIDE DEF O
      <4>3. \A k \in 1 .. 1 : k = 1 /\ k - 1 = 0
        OBVIOUS
      <4>4. \A i \in 1 .. Len(s) : 0 + i = i
        BY <4>1
      <4>5. FlatTo(seqs, 1, flatten[1], O)
        BY <4>1, <4>2, <4>3, <4>4 DEF FlatTo
      <4> QED
        BY <3>1, <3>4, <4>1, <4>5
    <3>5. CASE n # 0
      <4> DEFINE s == seqs[n + 1]
                 new == flatten[n + 1]
                 old == flatten[n]
      <4>1. PICK O : FlatTo(seqs, n, old, O)
        BY <2>7, <3>5
      <4>2. old \in Seq(X) /\ new = old \o s
        <5>1. n + 1 # 1
          BY <3>1, <3>5
        <5>2. flatten[n + 1] = flatten[n] \o seqs[n + 1]
          BY <3>2, <5>1, Zenon
        <5> QED
          BY <2>7, <3>5, <5>2
      <4>3. s \in Seq(X)
        BY <3>3
      <4>6. seqs[n + 1] = s
        OBVIOUS
      <4> HIDE DEF s, new, old, N
      <4>4. new \in Seq(X) /\ \E P : FlatTo(seqs, n + 1, new, P)
        BY <3>1, <4>1, <4>2, <4>3, <4>6, FlatMore
      <4>5. flatten[n + 1] \in Seq(X) /\ \E P : FlatTo(seqs, n + 1, flatten[n + 1], P)
        BY <4>4 DEF new
      <4> HIDE DEF s
      <4> QED
        BY <3>1, <4>5
    <3> QED
      BY <3>4, <3>5
  <2>8. \A n \in 0 .. N : n \in S
    <3> HIDE DEF S, N
    <3> QED
      BY <1>1, <2>6, <2>7, InductionTo
  <2>9. PICK O : FlatTo(seqs, N, flatten[N], O)
    <3>1. N \in S
      <4> HIDE DEF S, N
      <4> QED
        BY <1>1, <2>8
    <3> QED
      BY <1>4, <3>1
  <2>10. FlatAt(seqs, flat, O)
    BY <2>5, <2>9 DEF FlatAt
  <2> QED
    BY <1>2, <2>10
<1> QED
  BY <1>3, <1>4

\* Every number up to the last offset is behind one of them.
LEMMA OffsetBelow ==
  ASSUME NEW N \in Nat, NEW O \in [0 .. N -> Nat], O[0] = 0, NEW x \in 1 .. O[N]
  PROVE  \E k \in 1 .. N : O[k - 1] < x /\ x <= O[k]
<1> DEFINE S == {k \in 0 .. N : x <= O[k]}
<1>1. N \in S /\ S \subseteq Nat
  OBVIOUS
<1>2. PICK k \in S : \A y \in S : k <= y
  <2> HIDE DEF S
  <2> QED
    BY <1>1, LeastNatural
<1>3. k # 0 /\ k \in 1 .. N /\ k - 1 \in 0 .. N /\ ~(k <= k - 1)
  BY <1>2
<1>4. ~(x <= O[k - 1]) /\ x \in Int /\ O[k - 1] \in Int
  BY <1>2, <1>3
<1> QED
  BY <1>2, <1>3, <1>4

-----------------------------------------------------------------------------
(* Loading a file line by line *)

\* Loading a file goes through the states that its lines lead to one by one.
LoadStates(t, N, F) ==
  /\ F[0] = [valid |-> TRUE, addr |-> 0, cells |-> << >>] /\ F[N] = Load(t)
  /\ \A k \in 1 .. N : F[k] = LoadLine(F[k - 1], t[k])

\* Loading a file is loading one line after the other.
LEMMA LoadedByLines ==
  ASSUME NEW t, NEW N \in Nat, DOMAIN t = 1 .. N
  PROVE  \E F : LoadStates(t, N, F)
<1> DEFINE a == [valid |-> TRUE, addr |-> 0, cells |-> << >>]
<1> HIDE DEF a
<1> DEFINE Folds(k, f) ==
             f = [s \in SUBSET (1 .. k) |->
                    IF s = {} THEN a ELSE LoadLine(f[s \ {Max(s)}], t[Max(s)])]
           Undefined == {k \in Nat : ~\E f : Folds(k, f)}
<1>1. Undefined = {}
  <2> SUFFICES ASSUME Undefined # {} PROVE FALSE
    OBVIOUS
  <2>1. PICK k \in Undefined : \A m \in Undefined : k <= m
    <3>1. Undefined \subseteq Nat
      OBVIOUS
    <3> HIDE DEF Undefined
    <3> QED
      BY <3>1, LeastNatural
  <2>2. k \in Nat /\ ~\E f : Folds(k, f)
    BY <2>1
  <2>3. CASE k = 0
    <3> DEFINE f == [s \in SUBSET (1 .. 0) |-> a]
    <3>1. \A s \in SUBSET (1 .. 0) : s = {}
      OBVIOUS
    <3>2. Folds(0, f)
      BY <3>1
    <3> QED
      BY <2>2, <2>3, <3>2
  <2>4. CASE k # 0
    <3>1. k - 1 \in Nat /\ k \in Nat /\ ~(k <= k - 1)
      BY <2>2, <2>4
    <3>2. k - 1 \notin Undefined
      BY <2>1, <3>1
    <3>3. PICK g : Folds(k - 1, g)
      BY <3>1, <3>2
    <3> DEFINE f == [s \in SUBSET (1 .. k) |->
                       IF k \in s THEN LoadLine(g[s \ {k}], t[k]) ELSE g[s]]
    <3>4. ASSUME NEW s \in SUBSET (1 .. k)
          PROVE  f[s] = IF s = {} THEN a ELSE LoadLine(f[s \ {Max(s)}], t[Max(s)])
      <4>1. CASE k \in s
        <5>1. s \ {k} \in SUBSET (1 .. k) /\ k \notin s \ {k} /\ s \ {k} \in SUBSET (1 .. k - 1)
          BY <3>1
        <5>2. Max(s) = k
          <6>1. s \subseteq Int /\ \A y \in s : k >= y
            BY <3>1
          <6> QED
            BY <4>1, <6>1, MaxIs
        <5>3. f[s \ {k}] = g[s \ {k}]
          BY <5>1
        <5> QED
          BY <4>1, <5>2, <5>3
      <4>2. CASE k \notin s
        <5>1. s \in SUBSET (1 .. k - 1)
          BY <3>1, <4>2
        <5>2. g[s] = IF s = {} THEN a ELSE LoadLine(g[s \ {Max(s)}], t[Max(s)])
          BY <3>3, <5>1
        <5>3. s \ {Max(s)} \in SUBSET (1 .. k) /\ k \notin s \ {Max(s)}
          BY <4>2
        <5>4. f[s \ {Max(s)}] = g[s \ {Max(s)}] /\ f[s] = g[s]
          BY <4>2, <5>3
        <5> QED
          BY <5>2, <5>4
      <4> QED
        BY <4>1, <4>2
    <3> HIDE DEF Undefined
    <3>5. Folds(k, f)
      <4>1. f = [s \in SUBSET (1 .. k) |-> f[s]]
        OBVIOUS
      <4> HIDE DEF f
      <4> QED
        BY <3>4, <4>1
    <3> HIDE DEF f
    <3> QED
      BY <2>2, <3>5
  <2> QED
    BY <2>3, <2>4
<1> DEFINE iter == CHOOSE f : Folds(N, f)
<1>2. Folds(N, iter)
  <2>1. \E f : Folds(N, f)
    BY <1>1
  <2> HIDE DEF Folds
  <2> QED
    BY <2>1, Zenon
<1>3. Load(t) = iter[1 .. N]
  BY DEF a, Load, FoldLeft, MapThenFoldSet
<1> HIDE DEF iter
<1> DEFINE F == [k \in 0 .. N |-> iter[1 .. k]]
<1>4. F[0] = a
  <2>1. 1 .. 0 = {} /\ {} \in SUBSET (1 .. N)
    OBVIOUS
  <2>2. iter[{}] = a
    BY <1>2, <2>1
  <2> QED
    BY <2>1, <2>2
<1>5. F[N] = Load(t)
  BY <1>3
<1>6. ASSUME NEW k \in 1 .. N PROVE F[k] = LoadLine(F[k - 1], t[k])
  <2>1. k - 1 \in 0 .. N /\ k \in 0 .. N
    OBVIOUS
  <2>2. /\ 1 .. k \in SUBSET (1 .. N) /\ 1 .. k # {}
        /\ (1 .. k) \ {k} = 1 .. k - 1 /\ Max(1 .. k) = k
    BY FirstNumbers
  <2>4. iter[1 .. k] = LoadLine(iter[(1 .. k) \ {Max(1 .. k)}], t[Max(1 .. k)])
    <3> DEFINE S == 1 .. k
    <3>1. S \in SUBSET (1 .. N) /\ S # {}
      BY <2>2
    <3>2. iter[S] = LoadLine(iter[S \ {Max(S)}], t[Max(S)])
      <4> HIDE DEF S
      <4> QED
        BY <1>2, <3>1
    <3> QED
      BY <3>2
  <2> QED
    BY <2>1, <2>2, <2>4
<1> HIDE DEF F
<1> QED
  BY <1>4, <1>5, <1>6 DEF a, LoadStates


\* Reading on, to the address a, with the cells c.
Reading(a, c) == [valid : {TRUE}, addr : {a}, cells : {c}]
With(c, a, v) == Updated(c, [d \in {a} |-> v])

\* An address line and a word line.
LEMMA LineLoaded ==
  ASSUME NEW a, NEW c, NEW m \in Reading(a, c), NEW v
  PROVE  /\ LoadLine(m, At(v)) \in Reading(v, c)
         /\ ~(v > 65535) => LoadLine(m, Word(v)) \in Reading((a + 2) % 65536, With(c, a, v))
<1> DEFINE h == At(v)
           l == Word(v)
<1>1. m.valid = TRUE /\ m.addr = a /\ m.cells = c
  BY DEF Reading
<1>2. h.header = TRUE /\ h.value = v /\ l.header = FALSE /\ l.value = v
  BY DEF At, Word
<1>3. LoadLine(m, h) \in Reading(v, c)
  <2>1. LoadLine(m, h) = [m EXCEPT !.addr = h.value]
    <3> HIDE DEF h
    <3> QED
      BY <1>1, <1>2 DEF LoadLine
  <2>2. [m EXCEPT !.addr = v] \in Reading(v, c)
    BY DEF Reading
  <2> HIDE DEF h
  <2> QED
    BY <1>2, <2>1, <2>2
<1>4. ASSUME ~(v > 65535) PROVE LoadLine(m, l) \in Reading((a + 2) % 65536, With(c, a, v))
  <2> DEFINE f == Updated(m.cells, [d \in {m.addr} |-> l.value])
             b == (m.addr + 2) % 65536
  <2>1. LoadLine(m, l) = [m EXCEPT !.cells = f, !.addr = b]
    <3> HIDE DEF l
    <3> QED
      BY <1>1, <1>2, <1>4 DEF LoadLine
  <2>2. f = With(c, a, v) /\ b = (a + 2) % 65536
    <3> HIDE DEF l
    <3> QED
      BY <1>1, <1>2 DEF With
  <2> HIDE DEF f, b
  <2>3. [m EXCEPT !.cells = f, !.addr = b] \in Reading(b, f)
    BY DEF Reading
  <2> QED
    BY <2>1, <2>2, <2>3
<1> QED
  BY <1>3, <1>4

\* A cell more, or one replaced.
LEMMA CellUpdated ==
  \A c, a, v : /\ DOMAIN With(c, a, v) = DOMAIN c \union {a} /\ With(c, a, v)[a] = v
               /\ \A d \in DOMAIN c : d # a => With(c, a, v)[d] = c[d]
<1> SUFFICES ASSUME NEW c, NEW a, NEW v
             PROVE  /\ DOMAIN With(c, a, v) = DOMAIN c \union {a} /\ With(c, a, v)[a] = v
                    /\ \A d \in DOMAIN c : d # a => With(c, a, v)[d] = c[d]
  OBVIOUS
<1> DEFINE one == [d \in {a} |-> v]
<1>1. DOMAIN one = {a} /\ one[a] = v
  OBVIOUS
<1> HIDE DEF one
<1>2. With(c, a, v) = [k \in DOMAIN c \union {a} |-> IF k \in {a} THEN one[k] ELSE c[k]]
  BY <1>1 DEF With, Updated, one
<1> QED
  BY <1>1, <1>2

\* The cells when i words of a block have been loaded to some others.
CellAt(ad, i) == ad + 2 * (i - 1)
PartLoaded(old, ad, w, i, c) ==
  /\ \A d : (d \in DOMAIN c) <=> (d \in DOMAIN old \/ \E x \in 1 .. i : d = CellAt(ad, x))
  /\ \A x \in 1 .. i : c[CellAt(ad, x)] = w[x]
  /\ \A d \in DOMAIN old : (\A x \in 1 .. i : d # CellAt(ad, x)) => c[d] = old[d]

\* One word of a block.
LEMMA WordLoaded ==
  ASSUME NEW old, NEW ad \in Nat, NEW w, NEW i \in Nat, NEW v, v = w[i + 1],
         NEW a, a = CellAt(ad, i + 1), NEW c, PartLoaded(old, ad, w, i, c)
  PROVE  PartLoaded(old, ad, w, i + 1, With(c, a, v))
<1> DEFINE new == With(c, a, v)
<1>1. /\ \A x \in 1 .. i + 1 : x \in 1 .. i \/ x = i + 1
      /\ \A x \in 1 .. i : x \in 1 .. i + 1 /\ CellAt(ad, x) # a
      /\ i + 1 \in 1 .. i + 1
  <2>1. a = ad + 2 * ((i + 1) - 1)
    BY DEF CellAt
  <2>2. ASSUME NEW x \in 1 .. i PROVE x \in 1 .. i + 1 /\ CellAt(ad, x) # a
    BY <2>1 DEF CellAt
  <2> QED
    BY <2>2
<1>2. /\ DOMAIN new = DOMAIN c \union {a} /\ new[a] = v
      /\ \A d \in DOMAIN c : d # a => new[d] = c[d]
  <2>1. DOMAIN With(c, a, v) = DOMAIN c \union {a}
    BY CellUpdated
  <2>2. With(c, a, v)[a] = v
    BY CellUpdated
  <2>3. \A d \in DOMAIN c : d # a => With(c, a, v)[d] = c[d]
    BY CellUpdated
  <2> QED
    BY <2>1, <2>2, <2>3
<1> HIDE DEF new
<1>3. ASSUME NEW d
      PROVE  (d \in DOMAIN new) <=> (d \in DOMAIN old \/ \E x \in 1 .. i + 1 : d = CellAt(ad, x))
  <2>1. (d \in DOMAIN new) <=> (d \in DOMAIN c \/ d = a)
    BY <1>2
  <2>2. (d \in DOMAIN c) <=> (d \in DOMAIN old \/ \E x \in 1 .. i : d = CellAt(ad, x))
    BY DEF PartLoaded
  <2>3. (\E x \in 1 .. i + 1 : d = CellAt(ad, x)) <=> ((\E x \in 1 .. i : d = CellAt(ad, x)) \/ d = a)
    BY <1>1
  <2> QED
    BY <2>1, <2>2, <2>3
<1>4. ASSUME NEW x \in 1 .. i + 1 PROVE new[CellAt(ad, x)] = w[x]
  <2>1. CASE x \in 1 .. i
    <3> DEFINE d == CellAt(ad, x)
    <3>1. d \in DOMAIN c
      BY <2>1 DEF PartLoaded
    <3>2. d # a /\ c[d] = w[x]
      BY <1>1, <2>1 DEF PartLoaded
    <3> HIDE DEF d
    <3>3. new[d] = w[x]
      BY <1>2, <3>1, <3>2
    <3> QED
      BY <3>3 DEF d
  <2>2. CASE x = i + 1
    BY <1>2, <2>2
  <2> QED
    BY <1>1, <2>1, <2>2
<1>5. ASSUME NEW d \in DOMAIN old, \A x \in 1 .. i + 1 : d # CellAt(ad, x)
      PROVE  new[d] = old[d]
  <2>1. d # a /\ \A x \in 1 .. i : d # CellAt(ad, x)
    BY <1>1, <1>5
  <2>2. d \in DOMAIN c /\ c[d] = old[d]
    BY <2>1 DEF PartLoaded
  <2> QED
    BY <1>2, <2>1, <2>2
<1>6. PartLoaded(old, ad, w, i + 1, new)
  BY <1>3, <1>4, <1>5 DEF PartLoaded
<1> QED
  BY <1>6 DEF new

\* A block of which i words have been loaded.
Loading(old, ad, w, i, m) ==
  \E a, c :
    /\ m \in Reading(a, c) /\ (i < Len(w) => a = CellAt(ad, i + 1))
    /\ PartLoaded(old, ad, w, i, c)

\* Below the end of memory the next address does not wrap.
LEMMA NextAddress ==
  ASSUME NEW a \in Nat, a + 2 < 65536
  PROVE  (a + 2) % 65536 = a + 2
OBVIOUS

\* The next word of it.
LEMMA NextLoaded ==
  ASSUME NEW old, NEW ad \in Nat, NEW w \in Seq(Nat), ad + 2 * Len(w) <= 65536,
         NEW i \in 0 .. Len(w) - 1, w[i + 1] < 65536, NEW m, Loading(old, ad, w, i, m)
  PROVE  Loading(old, ad, w, i + 1, LoadLine(m, Word(w[i + 1])))
<1> DEFINE v == w[i + 1]
<1>1. Len(w) \in Nat /\ i \in Nat /\ i + 1 \in 1 .. Len(w) /\ i < Len(w)
  OBVIOUS
<1>2. v \in Nat /\ ~(v > 65535)
  <2>1. v \in Nat
    BY <1>1
  <2> QED
    BY <2>1
<1>3. PICK a, c : m \in Reading(a, c) /\ a = CellAt(ad, i + 1) /\ PartLoaded(old, ad, w, i, c)
  BY <1>1 DEF Loading
<1> DEFINE b == (a + 2) % 65536
<1>4. LoadLine(m, Word(v)) \in Reading(b, With(c, a, v))
  <2> HIDE DEF v
  <2> QED
    BY <1>2, <1>3, LineLoaded
<1>5. i + 1 < Len(w) => b = CellAt(ad, (i + 1) + 1)
  <2> SUFFICES ASSUME i + 1 < Len(w) PROVE b = CellAt(ad, (i + 1) + 1)
    OBVIOUS
  <2>1. a = ad + 2 * i
    BY <1>1, <1>3 DEF CellAt
  <2>2. a + 2 = ad + 2 * (i + 1) /\ a + 2 < 65536 /\ a + 2 \in Nat
    BY <1>1, <2>1
  <2>3. CellAt(ad, (i + 1) + 1) = ad + 2 * (i + 1)
    BY <1>1 DEF CellAt
  <2>4. a \in Nat
    BY <1>1, <2>1
  <2>5. (a + 2) % 65536 = a + 2
    BY <2>2, <2>4, NextAddress
  <2> QED
    BY <2>2, <2>3, <2>5
<1>6. PartLoaded(old, ad, w, i + 1, With(c, a, v))
  <2>1. v = w[i + 1]
    OBVIOUS
  <2> HIDE DEF v
  <2> QED
    BY <1>1, <1>3, <2>1, WordLoaded
<1> HIDE DEF b, v
<1>7. Loading(old, ad, w, i + 1, LoadLine(m, Word(v)))
  BY <1>4, <1>5, <1>6 DEF Loading
<1> QED
  BY <1>7 DEF v

\* A whole block, read from the state q on.
BlockRead(old, ad, w, F, q, a0) ==
  /\ ad \in Nat /\ w \in Seq(Nat) /\ ad + 2 * Len(w) <= 65536
  /\ q \in Nat /\ F[q] \in Reading(a0, old) /\ F[q + 1] = LoadLine(F[q], At(ad))
  /\ \A i \in 1 .. Len(w) : F[q + 1 + i] = LoadLine(F[q + i], Word(w[i])) /\ w[i] < 65536

\* All the words of a block are loaded behind its address.
LEMMA BlockLoaded ==
  ASSUME NEW old, NEW ad, NEW w, NEW F, NEW q, NEW a0, BlockRead(old, ad, w, F, q, a0)
  PROVE  Loading(old, ad, w, Len(w), F[q + 1 + Len(w)])
<1> DEFINE M == Len(w)
           S == {i \in 0 .. M : Loading(old, ad, w, i, F[q + 1 + i])}
<1>1. M \in Nat /\ q \in Nat
  BY DEF BlockRead
<1>2. 0 \in S
  <2>1. F[q + 1] \in Reading(ad, old)
    <3>1. F[q] \in Reading(a0, old) /\ F[q + 1] = LoadLine(F[q], At(ad))
      BY DEF BlockRead
    <3> QED
      BY <3>1, LineLoaded
  <2>2. ad = CellAt(ad, 0 + 1) /\ \A x \in 1 .. 0 : FALSE
    BY DEF BlockRead, CellAt
  <2>3. PartLoaded(old, ad, w, 0, old)
    BY <2>2 DEF PartLoaded
  <2>4. Loading(old, ad, w, 0, F[q + 1])
    BY <2>1, <2>2, <2>3 DEF Loading
  <2>5. q + 1 + 0 = q + 1
    BY <1>1
  <2> QED
    BY <1>1, <2>4, <2>5
<1>3. ASSUME NEW i \in 0 .. M - 1, i \in S PROVE i + 1 \in S
  <2> DEFINE m == F[q + 1 + i]
             n == F[q + 1 + (i + 1)]
  <2>1. i + 1 \in 1 .. M /\ i + 1 \in 0 .. M /\ q + 1 + i = q + (i + 1) /\ q + 1 + (i + 1) = q + 1 + i + 1
    BY <1>1
  <2>2. n = LoadLine(m, Word(w[i + 1])) /\ w[i + 1] < 65536
    BY <2>1 DEF BlockRead
  <2>3. Loading(old, ad, w, i, m)
    BY <1>3
  <2>4. ad \in Nat /\ w \in Seq(Nat) /\ ad + 2 * Len(w) <= 65536
    BY DEF BlockRead
  <2> HIDE DEF m, n
  <2>5. Loading(old, ad, w, i + 1, n)
    BY <2>2, <2>3, <2>4, NextLoaded
  <2> QED
    BY <2>1, <2>5 DEF n
<1>4. \A i \in 0 .. M : i \in S
  <2> HIDE DEF S, M
  <2> QED
    BY <1>1, <1>2, <1>3, InductionTo
<1>5. M \in S
  <2> HIDE DEF S
  <2> QED
    BY <1>1, <1>4
<1> QED
  BY <1>5

\* The cells the first n blocks of a file cover, and what the last one of them that
\* covers a cell has there.
CellsOf(ad, W, n, c) ==
  /\ \A d : (d \in DOMAIN c) <=> (\E k \in 1 .. n : \E i \in 1 .. Len(W[k]) : d = CellAt(ad[k], i))
  /\ \A k \in 1 .. n : \A i \in 1 .. Len(W[k]) :
       (\A k2 \in k + 1 .. n : \A i2 \in 1 .. Len(W[k2]) : CellAt(ad[k2], i2) # CellAt(ad[k], i))
         => c[CellAt(ad[k], i)] = W[k][i]

\* One block more.
LEMMA BlockMore ==
  ASSUME NEW ad, NEW W, NEW n \in Nat, NEW old, CellsOf(ad, W, n, old), NEW c,
         NEW a, a = ad[n + 1], NEW w, w = W[n + 1],
         PartLoaded(old, a, w, Len(w), c)
  PROVE  CellsOf(ad, W, n + 1, c)
<1>1. \A k \in 1 .. n + 1 : k \in 1 .. n \/ k = n + 1
  OBVIOUS
<1>2. n + 1 \in 1 .. n + 1 /\ \A k \in 1 .. n : k \in 1 .. n + 1 /\ n + 1 \in k + 1 .. n + 1
  OBVIOUS
<1>3. \A k \in 1 .. n : \A k2 \in k + 1 .. n : k2 \in k + 1 .. n + 1
  OBVIOUS
<1>4. ASSUME NEW d
      PROVE  (d \in DOMAIN c)
               <=> (\E k \in 1 .. n + 1 : \E i \in 1 .. Len(W[k]) : d = CellAt(ad[k], i))
  <2>1. (d \in DOMAIN c) <=> (d \in DOMAIN old \/ \E x \in 1 .. Len(w) : d = CellAt(a, x))
    BY DEF PartLoaded
  <2>2. (d \in DOMAIN old) <=> (\E k \in 1 .. n : \E i \in 1 .. Len(W[k]) : d = CellAt(ad[k], i))
    BY DEF CellsOf
  <2>3. (\E k \in 1 .. n + 1 : \E i \in 1 .. Len(W[k]) : d = CellAt(ad[k], i))
          <=> (\/ \E k \in 1 .. n : \E i \in 1 .. Len(W[k]) : d = CellAt(ad[k], i)
               \/ \E x \in 1 .. Len(w) : d = CellAt(a, x))
    BY <1>1, <1>2, Zenon
  <2> QED
    BY <2>1, <2>2, <2>3
<1>5. ASSUME NEW k \in 1 .. n + 1, NEW i \in 1 .. Len(W[k]),
             \A k2 \in k + 1 .. n + 1 : \A i2 \in 1 .. Len(W[k2]) : CellAt(ad[k2], i2) # CellAt(ad[k], i)
      PROVE  c[CellAt(ad[k], i)] = W[k][i]
  <2>1. CASE k = n + 1
    BY <2>1 DEF PartLoaded
  <2>2. CASE k \in 1 .. n
    <3> DEFINE d == CellAt(ad[k], i)
    <3>1. \A k2 \in k + 1 .. n : \A i2 \in 1 .. Len(W[k2]) : CellAt(ad[k2], i2) # CellAt(ad[k], i)
      BY <1>3, <1>5, <2>2
    <3>2. old[d] = W[k][i]
      BY <2>2, <3>1 DEF CellsOf
    <3>3. d \in DOMAIN old
      BY <2>2 DEF CellsOf
    <3>4. n + 1 \in k + 1 .. n + 1
      BY <1>2, <2>2
    <3>5. \A x \in 1 .. Len(w) : d # CellAt(a, x)
      BY <1>5, <3>4
    <3> HIDE DEF d
    <3>6. c[d] = old[d]
      BY <3>3, <3>5 DEF PartLoaded
    <3> QED
      BY <3>2, <3>6 DEF d
  <2> QED
    BY <1>1, <2>1, <2>2
<1> QED
  BY <1>4, <1>5 DEF CellsOf

\* The lines of a block of words.
BlockText(addr, words) == <<At(addr)>> \o [n \in DOMAIN words |-> Word(words[n])]

\* The lines of a block, one by one.
LEMMA BlockTextIs ==
  ASSUME NEW ad \in Nat, NEW w \in Seq(Nat), NEW s, s = BlockText(ad, w)
  PROVE  /\ s \in Seq(FileLines) /\ Len(s) = Len(w) + 1 /\ s[1] = At(ad)
         /\ \A i \in 1 .. Len(w) : i + 1 \in 1 .. Len(s) /\ s[i + 1] = Word(w[i])
<1> DEFINE M == Len(w)
           p == <<At(ad)>>
           r == [n \in 1 .. M |-> Word(w[n])]
<1>1. M \in Nat /\ DOMAIN w = 1 .. M /\ \A i \in 1 .. M : w[i] \in Nat
  OBVIOUS
<1>2. s = p \o r
  BY <1>1 DEF BlockText
<1>3. At(ad) \in FileLines /\ \A i \in 1 .. M : Word(w[i]) \in FileLines
  BY <1>1 DEF At, Word, FileLines
<1>4. p \in Seq(FileLines) /\ Len(p) = 1 /\ p[1] = At(ad)
  <2> DEFINE h == At(ad)
  <2> HIDE DEF h
  <2> QED
    BY <1>3
<1>5. r \in [1 .. M -> FileLines]
  BY <1>3
<1>6. r \in Seq(FileLines) /\ Len(r) = M /\ \A i \in 1 .. M : r[i] = Word(w[i])
  <2>1. \A i \in 1 .. M : r[i] = Word(w[i])
    OBVIOUS
  <2> HIDE DEF r, M
  <2>2. r \in Seq(FileLines)
    BY <1>1, <1>5, FunctionIsSeq
  <2>3. Len(r) = M
    BY <1>1, <1>5, <2>2
  <2> QED
    BY <2>1, <2>2, <2>3
<1> HIDE DEF p, r, M
<1>7. /\ s \in Seq(FileLines) /\ Len(s) = Len(p) + Len(r)
      /\ \A i \in 1 .. Len(p) : i \in 1 .. Len(s) /\ s[i] = p[i]
      /\ \A i \in 1 .. Len(r) : Len(p) + i \in 1 .. Len(s) /\ s[Len(p) + i] = r[i]
  <2>1. p \in Seq(FileLines)
    BY <1>4
  <2>2. r \in Seq(FileLines)
    BY <1>6
  <2> QED
    BY <1>2, <2>1, <2>2, ConcatIs
<1>8. Len(s) = M + 1 /\ s[1] = At(ad)
  <2>1. 1 \in 1 .. Len(p)
    BY <1>4
  <2> QED
    BY <1>1, <1>4, <1>6, <1>7, <2>1
<1>9. ASSUME NEW i \in 1 .. M PROVE i + 1 \in 1 .. Len(s) /\ s[i + 1] = Word(w[i])
  <2>1. Len(p) + i \in 1 .. Len(s) /\ s[Len(p) + i] = r[i]
    BY <1>6, <1>7
  <2>2. Len(p) + i = i + 1
    BY <1>1, <1>4
  <2>3. r[i] = Word(w[i])
    BY <1>6
  <2> QED
    BY <2>1, <2>2, <2>3
<1> QED
  BY <1>7, <1>8, <1>9 DEF M

\* The blocks of a file: where they begin, and their words, none of which reach beyond
\* the memory.
BlocksFit(ad, W, N) ==
  \A k \in 1 .. N : ad[k] \in Nat /\ W[k] \in Seq(Nat) /\ ad[k] + 2 * Len(W[k]) <= 65536

\* Some blocks of it have been loaded.
BlocksLoaded(ad, W, n, m) == \E a, c : m \in Reading(a, c) /\ CellsOf(ad, W, n, c)

\* The words of a file have at most four digits.
WordsFit(f) == \A x \in DOMAIN f : f[x].header \/ f[x].value < 65536

\* Loading the file of some blocks.
FileIs(N, ad, W, seqs, f) ==
  /\ N \in Nat /\ BlocksFit(ad, W, N)
  /\ seqs \in Seq(Seq(FileLines)) /\ Len(seqs) = N
  /\ \A k \in 1 .. N : seqs[k] = BlockText(ad[k], W[k])
  /\ f = FlattenSeq(seqs) /\ WordsFit(f)

\* The states of loading it, a block begins at.
FileStates(N, seqs, f, O, M, F) ==
  /\ O \in [0 .. N -> Nat] /\ O[0] = 0
  /\ \A k \in 1 .. N : O[k] = O[k - 1] + Len(seqs[k])
  /\ M \in Nat /\ DOMAIN f = 1 .. M /\ M = O[N]
  /\ \A k \in 1 .. N : \A i \in 1 .. Len(seqs[k]) :
       O[k - 1] + i \in 1 .. M /\ f[O[k - 1] + i] = seqs[k][i]
  /\ F[0] = [valid |-> TRUE, addr |-> 0, cells |-> << >>] /\ F[M] = Load(f)
  /\ \A k \in 1 .. M : F[k] = LoadLine(F[k - 1], f[k])

\* Loading a file that is flattened of blocks, by their offsets in it.
LEMMA StatesOfFile ==
  ASSUME NEW N, NEW ad, NEW W, NEW seqs, NEW f, FileIs(N, ad, W, seqs, f)
  PROVE  \E O, M, F : FileStates(N, seqs, f, O, M, F)
<1>1. f \in Seq(FileLines) /\ \E O : FlatAt(seqs, f, O)
  <2>1. seqs \in Seq(Seq(FileLines)) /\ f = FlattenSeq(seqs)
    BY DEF FileIs
  <2> QED
    BY <2>1, FlattenIs
<1>2. PICK O : FlatAt(seqs, f, O)
  BY <1>1
<1>3. /\ O \in [0 .. N -> Nat] /\ O[0] = 0
      /\ \A k \in 1 .. N : O[k] = O[k - 1] + Len(seqs[k])
      /\ Len(f) = O[N]
      /\ \A k \in 1 .. N : \A i \in 1 .. Len(seqs[k]) :
           O[k - 1] + i \in 1 .. Len(f) /\ f[O[k - 1] + i] = seqs[k][i]
  BY <1>2 DEF FlatAt, FlatTo, FileIs
<1> DEFINE M == Len(f)
<1>4. M \in Nat /\ DOMAIN f = 1 .. M
  BY <1>1
<1>5. PICK F : LoadStates(f, M, F)
  <2> HIDE DEF M
  <2> QED
    BY <1>4, LoadedByLines
<1>6. FileStates(N, seqs, f, O, M, F)
  BY <1>3, <1>4, <1>5 DEF FileStates, LoadStates
<1> HIDE DEF M
<1> QED
  BY <1>6

\* One block of it.
LEMMA BlockOfFile ==
  ASSUME NEW N, NEW ad, NEW W, NEW seqs, NEW f, FileIs(N, ad, W, seqs, f),
         NEW O, NEW M, NEW F, FileStates(N, seqs, f, O, M, F),
         NEW n \in Nat, n + 1 \in 1 .. N, BlocksLoaded(ad, W, n, F[O[n]])
  PROVE  BlocksLoaded(ad, W, n + 1, F[O[n + 1]])
<1> DEFINE q == O[n]
           a == ad[n + 1]
           w == W[n + 1]
           s == seqs[n + 1]
           L == Len(w)
<1>1. N \in Nat /\ n \in 0 .. N /\ (n + 1) - 1 = n
  BY DEF FileIs
<1>2. q \in Nat
  BY <1>1 DEF FileStates
<1>3. a \in Nat /\ w \in Seq(Nat) /\ a + 2 * L <= 65536
  <2>1. BlocksFit(ad, W, N)
    BY DEF FileIs
  <2> DEFINE k == n + 1
  <2>2. k \in 1 .. N
    OBVIOUS
  <2> HIDE DEF k
  <2>3. ad[k] \in Nat /\ W[k] \in Seq(Nat) /\ ad[k] + 2 * Len(W[k]) <= 65536
    BY <2>1, <2>2 DEF BlocksFit
  <2> QED
    BY <2>3 DEF k
<1>4. s = BlockText(a, w)
  BY DEF FileIs
<1>5. O[n + 1] = q + Len(s) /\ \A i \in 1 .. Len(s) : q + i \in 1 .. M /\ f[q + i] = s[i]
  <2> DEFINE k == n + 1
  <2>1. k \in 1 .. N /\ O[k - 1] = q
    BY <1>1
  <2>2. O[k] = O[k - 1] + Len(seqs[k]) /\
        \A i \in 1 .. Len(seqs[k]) : O[k - 1] + i \in 1 .. M /\ f[O[k - 1] + i] = seqs[k][i]
    <3> HIDE DEF k
    <3> QED
      BY <2>1, Zenon DEF FileStates
  <2> HIDE DEF q
  <2> QED
    BY <2>1, <2>2
<1>6. L \in Nat
  BY <1>3
<1> HIDE DEF q, a, w, s
<1>7. /\ Len(s) = L + 1 /\ s[1] = At(a)
      /\ \A i \in 1 .. L : i + 1 \in 1 .. Len(s) /\ s[i + 1] = Word(w[i])
  BY <1>3, <1>4, BlockTextIs
<1>8. \A k \in 1 .. M : F[k] = LoadLine(F[k - 1], f[k]) /\ (f[k].header \/ f[k].value < 65536)
  <2>1. DOMAIN f = 1 .. M
    BY DEF FileStates
  <2>2. \A k \in 1 .. M : F[k] = LoadLine(F[k - 1], f[k])
    BY DEF FileStates
  <2>3. \A x \in DOMAIN f : f[x].header \/ f[x].value < 65536
    BY DEF FileIs, WordsFit
  <2> QED
    BY <2>1, <2>2, <2>3
<1>9. PICK a0, old : F[q] \in Reading(a0, old) /\ CellsOf(ad, W, n, old)
  BY DEF q, BlocksLoaded
<1>10. F[q + 1] = LoadLine(F[q], At(a))
  <2>1. 1 \in 1 .. Len(s) /\ (q + 1) - 1 = q
    BY <1>2, <1>6, <1>7
  <2>2. q + 1 \in 1 .. M /\ f[q + 1] = At(a)
    BY <1>5, <1>7, <2>1
  <2> QED
    BY <1>8, <2>1, <2>2
<1>11. ASSUME NEW i \in 1 .. L
       PROVE  F[q + 1 + i] = LoadLine(F[q + i], Word(w[i])) /\ w[i] < 65536
  <2> DEFINE x == q + (i + 1)
  <2>1. x - 1 = q + i /\ q + 1 + i = x
    BY <1>2, <1>6
  <2>2. x \in 1 .. M /\ f[x] = Word(w[i])
    BY <1>5, <1>7
  <2> HIDE DEF x
  <2>3. F[x] = LoadLine(F[x - 1], f[x]) /\ (f[x].header \/ f[x].value < 65536)
    BY <1>8, <2>2
  <2>4. Word(w[i]).value = w[i] /\ ~Word(w[i]).header
    BY DEF Word
  <2> QED
    BY <2>1, <2>2, <2>3, <2>4
<1>12. BlockRead(old, a, w, F, q, a0)
  BY <1>2, <1>3, <1>9, <1>10, <1>11 DEF L, BlockRead
<1>13. Loading(old, a, w, Len(w), F[q + 1 + Len(w)])
  BY <1>12, BlockLoaded
<1>14. PICK a1, c : F[q + 1 + Len(w)] \in Reading(a1, c) /\ PartLoaded(old, a, w, Len(w), c)
  BY <1>13 DEF Loading
<1>15. CellsOf(ad, W, n + 1, c)
  BY <1>9, <1>14, BlockMore DEF a, w
<1>16. O[n + 1] = q + 1 + Len(w)
  BY <1>2, <1>5, <1>6, <1>7 DEF L
<1>17. F[O[n + 1]] \in Reading(a1, c)
  BY <1>14, <1>16
<1> QED
  BY <1>15, <1>17 DEF BlocksLoaded

\* All the blocks of a file are loaded, the later ones over the earlier ones.
LEMMA FileLoaded ==
  ASSUME NEW N, NEW ad, NEW W, NEW seqs, NEW f, FileIs(N, ad, W, seqs, f)
  PROVE  Load(f).valid /\ CellsOf(ad, W, N, Load(f).cells)
<1>1. PICK O, M, F : FileStates(N, seqs, f, O, M, F)
  BY StatesOfFile
<1>2. N \in Nat /\ O[0] = 0 /\ F[O[N]] = Load(f)
  BY <1>1 DEF FileIs, FileStates
<1> DEFINE S == {n \in 0 .. N : BlocksLoaded(ad, W, n, F[O[n]])}
<1>3. 0 \in S
  <2> DEFINE c0 == << >>
  <2>1. F[0] \in Reading(0, c0)
    BY <1>1 DEF Reading, FileStates
  <2>2. CellsOf(ad, W, 0, c0)
    BY DEF CellsOf
  <2> HIDE DEF c0
  <2>3. BlocksLoaded(ad, W, 0, F[O[0]])
    BY <1>2, <2>1, <2>2 DEF BlocksLoaded
  <2> QED
    BY <1>2, <2>3
<1>4. ASSUME NEW n \in 0 .. N - 1, n \in S PROVE n + 1 \in S
  <2>1. n \in Nat /\ n + 1 \in 1 .. N /\ n + 1 \in 0 .. N
    BY <1>2
  <2>2. BlocksLoaded(ad, W, n, F[O[n]])
    BY <1>4
  <2>3. BlocksLoaded(ad, W, n + 1, F[O[n + 1]])
    BY <1>1, <2>1, <2>2, BlockOfFile
  <2> QED
    BY <2>1, <2>3
<1>5. \A n \in 0 .. N : n \in S
  <2> HIDE DEF S
  <2> QED
    BY <1>2, <1>3, <1>4, InductionTo
<1>6. BlocksLoaded(ad, W, N, F[O[N]])
  <2>1. N \in S
    <3> HIDE DEF S
    <3> QED
      BY <1>2, <1>5
  <2> QED
    BY <2>1
<1> DEFINE m == Load(f)
<1>7. BlocksLoaded(ad, W, N, m)
  BY <1>2, <1>6
<1> HIDE DEF m
<1>8. PICK a, c : m \in Reading(a, c) /\ CellsOf(ad, W, N, c)
  BY <1>7 DEF BlocksLoaded
<1>9. m.valid = TRUE /\ m.cells = c
  BY <1>8 DEF Reading
<1>10. m.valid /\ CellsOf(ad, W, N, m.cells)
  BY <1>8, <1>9
<1> QED
  BY <1>10 DEF m

-----------------------------------------------------------------------------
(* The words of a block *)

\* One number, and none.
LEMMA OneOrNone ==
  /\ \A x \in Nat : <<x>> \in Seq(Nat) /\ Len(<<x>>) = 1
  /\ << >> \in Seq(Nat) /\ Len(<< >>) = 0
<1>1. ASSUME NEW x \in Nat PROVE <<x>> \in Seq(Nat) /\ Len(<<x>>) = 1
  OBVIOUS
<1>2. << >> \in Seq(Nat) /\ Len(<< >>) = 0
  OBVIOUS
<1> QED
  BY <1>1, <1>2

\* A word or none of an operand.
LEMMA ParamWordsIs ==
  ASSUME NEW labels, \A l \in DOMAIN labels : labels[l] \in Nat, NEW o, IsOperand(o),
         o.label = "" \/ o.label \in DOMAIN labels
  PROVE  /\ ParamWords(labels, o) \in Seq(Nat)
         /\ Len(ParamWords(labels, o)) = IF HasWord(o) THEN 1 ELSE 0
<1>1. SrcIntVal(labels, o) \in Nat
  BY DEF SrcIntVal, IsOperand
<1>2. ParamWords(labels, o) = IF HasWord(o) THEN <<SrcIntVal(labels, o)>> ELSE << >>
  BY DEF HasWord, ParamWords
<1> DEFINE p == ParamWords(labels, o)
           x == SrcIntVal(labels, o)
<1> HIDE DEF p, x
<1>3. CASE HasWord(o)
  <2>1. p = <<x>>
    BY <1>2, <1>3 DEF p, x
  <2> QED
    BY <1>1, <1>3, <2>1, OneOrNone, Zenon DEF p, x
<1>4. CASE ~HasWord(o)
  <2>1. p = << >>
    BY <1>2, <1>4 DEF p
  <2>2. p \in Seq(Nat)
    BY <2>1, OneOrNone, Zenon
  <2>3. Len(p) = 0
    BY <2>1, OneOrNone, Zenon
  <2> QED
    BY <1>4, <2>2, <2>3, Zenon DEF p
<1> QED
  BY <1>3, <1>4

\* An instruction has the words its length is counted from.
LEMMA WordsWritten ==
  ASSUME NEW t, IsText(t), NEW i \in Codes(t),
         NEW labels, \A l \in DOMAIN labels : labels[l] \in Nat, Unsolved(labels, i) = {}
  PROVE  /\ InstrWords(labels, i) \in Seq(Nat)
         /\ 2 * Len(InstrWords(labels, i)) = i.length
<1>1. PICK n \in DOMAIN t : Readable(t[n]) /\ i = Encoded(t[n])
  BY DEF Codes
<1> DEFINE line == t[n]
           enc == instrEncodings[line.mnemonic]
           w == InstrWords(labels, i)
<1>2. IsLine(line) /\ Readable(line) /\ line.kind = "instr" /\ i = Encoded(line)
  BY <1>1 DEF IsText, Readable
<1> HIDE DEF line
<1>3. /\ i.opcode = enc.opcode /\ i.src1 = line.src1 /\ i.src2 = line.src2
  BY <1>2 DEF Encoded
<1>4. /\ i.opcode \in {NoOpcode} \union (0 .. 63) /\ IsOperand(i.src1) /\ IsOperand(i.src2)
  BY CodesType
<1>5. w \in Seq(Nat)
  BY <1>4, WordsType
<1>6. i.length = 2 * WordsOf(line) /\ WordsOf(line) \in Nat
  BY <1>2, LengthIsWords
<1>7. \A o \in {i.src1, i.src2} : o.label = "" \/ o.label \in DOMAIN labels
  BY DEF Unsolved
<1>8. CASE i.opcode # NoOpcode
  <2> DEFINE p == ParamWords(labels, i.src1)
             q == ParamWords(labels, i.src2)
             h == i.opcode * 1024 + SrcEncoding(i.src1) * 32 + SrcEncoding(i.src2)
             w1 == HasWord(i.src1)
             w2 == HasWord(i.src2)
  <2>1. w = <<h>> \o p \o q
    BY <1>8 DEF InstrWords
  <2>2. p \in Seq(Nat) /\ q \in Seq(Nat)
    BY <1>4, <1>7, ParamWordsIs
  <2>3. Len(p) = IF w1 THEN 1 ELSE 0
    BY <1>4, <1>7, ParamWordsIs
  <2>4. Len(q) = IF w2 THEN 1 ELSE 0
    BY <1>4, <1>7, ParamWordsIs
  <2>5. WordsOf(line) = 1 + ((IF w1 THEN 1 ELSE 0) + (IF w2 THEN 1 ELSE 0))
    <3>1. {k \in {1, 2} : (IF k = 1 THEN line.src1 ELSE line.src2).type \in {"imm", "addr"}}
            = {k \in {1, 2} : IF k = 1 THEN w1 ELSE w2}
      BY <1>3 DEF HasWord
    <3>2. w1 \in BOOLEAN /\ w2 \in BOOLEAN
      BY DEF HasWord
    <3>3. Cardinality({k \in {1, 2} : IF k = 1 THEN w1 ELSE w2})
            = (IF w1 THEN 1 ELSE 0) + (IF w2 THEN 1 ELSE 0)
      BY <3>2, OneOrTwo
    <3>4. ~IsData(line)
      BY <1>3, <1>8 DEF IsData
    <3> QED
      BY <3>1, <3>3, <3>4 DEF WordsOf
  <2> HIDE DEF h, p, q, w, w1, w2
  <2>6. Len(w) = 1 + Len(p) + Len(q)
    BY <2>1, <2>2
  <2> QED
    BY <1>5, <1>6, <2>3, <2>4, <2>5, <2>6 DEF w
<1>9. CASE i.opcode = NoOpcode
  <2>1. IsData(line) /\ enc.opcode = NoOpcode
    BY <1>3, <1>9 DEF IsData
  <2>2. i.src2.type \in {"null", "imm"}
    <3>1. line.mnemonic \in DOMAIN instrEncodings /\ OperandsFit(enc, line.src1.type, line.src2.type)
      BY <1>2 DEF Readable
    <3>2. PICK item \in Config : enc.opcode = item.opcode /\ enc.src2 = Sources(item.src2)
      BY <3>1, OpcodeIs
    <3>3. \A s \in item.src2 : s[1] = "imm"
      BY <2>1, <3>2, ConfigAssumption
    <3>4. DOMAIN Sources(item.src2) \subseteq {"null", "imm"}
      BY <3>3 DEF Sources
    <3> QED
      BY <1>3, <3>1, <3>2, <3>4 DEF OperandsFit
  <2>3. CASE i.src2.type = "null"
    <3>1. w = <<SrcIntVal(labels, i.src1)>>
      BY <1>9, <2>3 DEF InstrWords
    <3>2. Len(w) = 1
      BY <3>1
    <3>3. WordsOf(line) = 1
      BY <1>3, <2>1, <2>3 DEF WordsOf
    <3> QED
      BY <1>5, <1>6, <3>2, <3>3
  <2>4. CASE i.src2.type = "imm"
    <3> DEFINE v == i.src2.value
    <3>1. w = [n1 \in 1 .. v |-> SrcIntVal(labels, i.src1)]
      BY <1>9, <2>4 DEF InstrWords
    <3>2. v \in Nat
      BY <1>4 DEF IsOperand
    <3>3. Len(w) = v
      BY <3>1, <3>2
    <3>4. WordsOf(line) = v
      BY <1>3, <2>1, <2>4 DEF WordsOf
    <3> QED
      BY <1>5, <1>6, <3>3, <3>4
  <2> QED
    BY <2>2, <2>3, <2>4
<1> QED
  BY <1>8, <1>9

\* The words of a block, instruction by instruction, and all of them.
WordsList(labels, instrs) == [n \in 1 .. Len(instrs) |-> InstrWords(labels, instrs[n])]
BlockWords(labels, instrs) == FlattenSeq(WordsList(labels, instrs))

\* A block whose instructions can all be written.
LEMMA BlockLinesIs ==
  ASSUME NEW labels, NEW S, NEW b, b.instrs \in Seq(S),
         \A n \in 1 .. Len(b.instrs) : Unsolved(labels, b.instrs[n]) = {}
  PROVE  BlockLines(labels, b) = BlockText(b.addr, BlockWords(labels, b.instrs))
<1> DEFINE N == Len(b.instrs)
           I0 == {n \in 1 .. Len(b.instrs) : Unsolved(labels, b.instrs[n]) # {}}
           bad == SelectInSeq(b.instrs, LAMBDA i : Unsolved(labels, i) # {})
           upTo == IF bad = 0 THEN Len(b.instrs) ELSE bad - 1
           words == FlattenSeq([n \in 1 .. upTo |-> InstrWords(labels, b.instrs[n])])
<1>1. bad = IF I0 # {} THEN Min(I0) ELSE 0
  BY DEF SelectInSeq
<1>2. I0 = {}
  OBVIOUS
<1>3. bad = 0
  <2> HIDE DEF I0, bad
  <2> QED
    BY <1>1, <1>2
<1>4. BlockLines(labels, b) = BlockText(b.addr, words)
  BY DEF BlockLines, BlockText
<1>5. upTo = N
  <2> HIDE DEF bad
  <2> QED
    BY <1>3
<1> HIDE DEF upTo
<1>6. words = BlockWords(labels, b.instrs)
  BY <1>5 DEF BlockWords, WordsList
<1> HIDE DEF words
<1> QED
  BY <1>4, <1>6

\* Instructions that can all be written.
AllWritable(t, labels, instrs) ==
  /\ IsText(t) /\ (\A l \in DOMAIN labels : labels[l] \in Nat) /\ instrs \in Seq(Codes(t))
  /\ \A j \in 1 .. Len(instrs) : Unsolved(labels, instrs[j]) = {}

\* Each has its words, and they are half its bytes.
LEMMA InstrsWritten ==
  ASSUME NEW t, NEW labels, NEW instrs, AllWritable(t, labels, instrs)
  PROVE  \A j \in 1 .. Len(instrs) :
           /\ InstrWords(labels, instrs[j]) \in Seq(Nat)
           /\ 2 * Len(InstrWords(labels, instrs[j])) = instrs[j].length
<1> SUFFICES ASSUME NEW j \in 1 .. Len(instrs)
             PROVE  /\ InstrWords(labels, instrs[j]) \in Seq(Nat)
                    /\ 2 * Len(InstrWords(labels, instrs[j])) = instrs[j].length
  OBVIOUS
<1>1. /\ IsText(t) /\ (\A l \in DOMAIN labels : labels[l] \in Nat)
      /\ instrs \in Seq(Codes(t)) /\ Unsolved(labels, instrs[j]) = {}
  BY DEF AllWritable
<1>2. instrs[j] \in Codes(t)
  BY <1>1
<1> QED
  BY <1>1, <1>2, WordsWritten

\* The list of the words of all of them, and the bytes before each.
ListIs(labels, instrs, N, L) ==
  /\ N \in Nat /\ L \in Seq(Seq(Nat)) /\ Len(L) = N
  /\ \A j \in 1 .. N : L[j] = InstrWords(labels, instrs[j])
  /\ InstrAt(instrs, 1) = 0 /\ InstrAt(instrs, N + 1) = Total(Lengths(instrs))
  /\ \A j \in 1 .. N : /\ InstrAt(instrs, j) \in Nat
                       /\ InstrAt(instrs, j + 1) = InstrAt(instrs, j) + 2 * Len(L[j])

\* They are that.
LEMMA WordsListIs ==
  ASSUME NEW t, NEW labels, NEW instrs, AllWritable(t, labels, instrs)
  PROVE  ListIs(labels, instrs, Len(instrs), WordsList(labels, instrs))
<1> DEFINE N == Len(instrs)
           L == WordsList(labels, instrs)
<1>0. N = Len(instrs) /\ L = WordsList(labels, instrs)
  OBVIOUS
<1>1. N \in Nat
  BY DEF AllWritable
<1>2. \A j \in 1 .. N : L[j] = InstrWords(labels, instrs[j])
  BY DEF WordsList
<1>3. L = [j \in 1 .. N |-> InstrWords(labels, instrs[j])]
  BY DEF WordsList
<1>4. /\ \A j \in 1 .. N : InstrWords(labels, instrs[j]) \in Seq(Nat)
      /\ \A j \in 1 .. N : 2 * Len(InstrWords(labels, instrs[j])) = instrs[j].length
  BY InstrsWritten
<1> HIDE DEF N, L
<1>5. \A j \in 1 .. N : 2 * Len(InstrWords(labels, instrs[j])) = instrs[j].length
  BY <1>4
<1>6. L \in [1 .. N -> Seq(Nat)]
  BY <1>3, <1>4
<1>7. L \in Seq(Seq(Nat)) /\ Len(L) = N
  BY <1>1, <1>6
<1>8. \A i \in Codes(t) : i.length \in Nat
  BY CodesType DEF AllWritable
<1>9. instrs \in Seq(Codes(t))
  BY DEF AllWritable
<1>10. \A j \in 1 .. N : /\ InstrAt(instrs, 1) = 0 /\ InstrAt(instrs, j) \in Nat
                         /\ InstrAt(instrs, j + 1) = InstrAt(instrs, j) + instrs[j].length
                         /\ InstrAt(instrs, N + 1) = Total(Lengths(instrs))
  BY <1>0, <1>8, <1>9, InstrAtStep
<1>11. \A j \in 1 .. N : InstrAt(instrs, j + 1) = InstrAt(instrs, j) + 2 * Len(L[j])
  BY <1>2, <1>5, <1>10
<1>12. InstrAt(instrs, 1) = 0 /\ InstrAt(instrs, N + 1) = Total(Lengths(instrs))
  <2> DEFINE none == SubSeq(instrs, 1, 0)
  <2>1. none \in Seq(Codes(t)) /\ Len(none) = 0
    BY <1>9
  <2>2. InstrAt(instrs, 1) = Total(Lengths(none))
    BY DEF InstrAt
  <2> HIDE DEF none
  <2>3. Lengths(none) \in [1 .. 0 -> Nat]
    BY <1>8, <2>1, LengthsType
  <2>4. 0 \in Nat
    OBVIOUS
  <2>5. \E F \in [0 .. 0 -> Nat] : F[0] = 0 /\ F[0] = Total(Lengths(none))
    BY <2>3, <2>4, TotalByNumbers
  <2>6. (N + 1) - 1 = N
    BY <1>1
  <2>7. SubSeq(instrs, 1, N) = instrs
    BY <1>0, <1>9, AllFirst
  <2>8. InstrAt(instrs, N + 1) = Total(Lengths(instrs))
    BY <2>6, <2>7 DEF InstrAt
  <2> QED
    BY <2>2, <2>5, <2>8
<1>13. ListIs(labels, instrs, N, L)
  BY <1>1, <1>2, <1>7, <1>10, <1>11, <1>12 DEF ListIs
<1> QED
  BY <1>13 DEF N, L

\* A word of a block and the instruction it is of.
WordIsAt(labels, instrs, w, x, j, i) ==
  /\ j \in 1 .. Len(instrs) /\ i \in 1 .. Len(InstrWords(labels, instrs[j]))
  /\ 2 * (x - 1) = InstrAt(instrs, j) + 2 * (i - 1)
  /\ w[x] = InstrWords(labels, instrs[j])[i]

AllWordsAt(labels, instrs, w) ==
  /\ w \in Seq(Nat) /\ 2 * Len(w) = Total(Lengths(instrs))
  /\ \A j \in 1 .. Len(instrs) : \A i \in 1 .. Len(InstrWords(labels, instrs[j])) :
       \E x \in 1 .. Len(w) : WordIsAt(labels, instrs, w, x, j, i)
  /\ \A x \in 1 .. Len(w) : \E j, i : WordIsAt(labels, instrs, w, x, j, i)

\* The offsets of the words are half the bytes before.
OffsetsAre(N, L, instrs, O) ==
  /\ N \in Nat /\ O \in [0 .. N -> Nat] /\ O[0] = 0
  /\ \A j \in 1 .. N : O[j] = O[j - 1] + Len(L[j]) /\ Len(L[j]) \in Nat
  /\ InstrAt(instrs, 1) = 0
  /\ \A j \in 1 .. N : InstrAt(instrs, j + 1) = InstrAt(instrs, j) + 2 * Len(L[j])

\* So it is for every number of instructions.
LEMMA OffsetIsHalf ==
  ASSUME NEW N, NEW L, NEW instrs, NEW O, OffsetsAre(N, L, instrs, O)
  PROVE  \A k \in 0 .. N : InstrAt(instrs, k + 1) = 2 * O[k]
<1> DEFINE S == {k \in 0 .. N : InstrAt(instrs, k + 1) = 2 * O[k]}
<1>0. N \in Nat
  BY DEF OffsetsAre
<1>1. 0 \in S
  BY <1>0 DEF OffsetsAre
<1>2. ASSUME NEW k \in 0 .. N - 1, k \in S PROVE k + 1 \in S
  <2> DEFINE j == k + 1
  <2>1. j \in 1 .. N /\ j - 1 = k /\ j \in 0 .. N
    BY <1>0
  <2>2. O[j] = O[k] + Len(L[j]) /\ Len(L[j]) \in Nat
    BY <2>1 DEF OffsetsAre
  <2>3. InstrAt(instrs, j + 1) = InstrAt(instrs, j) + 2 * Len(L[j])
    BY <2>1 DEF OffsetsAre
  <2>4. InstrAt(instrs, j) = 2 * O[k]
    BY <1>2
  <2>5. O[k] \in Nat
    BY <1>0 DEF OffsetsAre
  <2> HIDE DEF j
  <2>6. InstrAt(instrs, j + 1) = 2 * O[j]
    BY <2>2, <2>3, <2>4, <2>5
  <2> QED
    BY <2>1, <2>6 DEF j
<1> HIDE DEF S
<1>3. \A k \in 0 .. N : k \in S
  BY <1>0, <1>1, <1>2, InductionTo
<1> QED
  BY <1>3 DEF S

\* The words of a block are those of its instructions, each behind the bytes before it.
LEMMA WordsPlaced ==
  ASSUME NEW t, NEW labels, NEW instrs, AllWritable(t, labels, instrs),
         NEW w, w = BlockWords(labels, instrs)
  PROVE  AllWordsAt(labels, instrs, w)
<1> DEFINE L == WordsList(labels, instrs)
           N == Len(instrs)
<1>0. L = WordsList(labels, instrs) /\ N = Len(instrs)
  OBVIOUS
<1>1. w = FlattenSeq(L)
  BY DEF BlockWords
<1> HIDE DEF L, N
<1>2. /\ N \in Nat /\ L \in Seq(Seq(Nat)) /\ Len(L) = N
      /\ \A j \in 1 .. N : L[j] = InstrWords(labels, instrs[j])
      /\ InstrAt(instrs, 1) = 0 /\ InstrAt(instrs, N + 1) = Total(Lengths(instrs))
      /\ \A j \in 1 .. N : /\ InstrAt(instrs, j) \in Nat
                           /\ InstrAt(instrs, j + 1) = InstrAt(instrs, j) + 2 * Len(L[j])
  <2>1. ListIs(labels, instrs, N, L)
    BY <1>0, WordsListIs
  <2> QED
    BY <2>1 DEF ListIs
<1>3. w \in Seq(Nat) /\ \E O : FlatAt(L, w, O)
  BY <1>1, <1>2, FlattenIs
<1>4. PICK O : FlatAt(L, w, O)
  BY <1>3
<1>5. FlatTo(L, N, w, O)
  BY <1>2, <1>4 DEF FlatAt
<1>6. \A j \in 1 .. N : Len(L[j]) \in Nat
  BY <1>2
<1>7. OffsetsAre(N, L, instrs, O)
  BY <1>2, <1>5, <1>6 DEF OffsetsAre, FlatTo
<1>8. \A k \in 0 .. N : InstrAt(instrs, k + 1) = 2 * O[k]
  BY <1>7, OffsetIsHalf
<1>9. \A j \in 1 .. N : j - 1 \in 0 .. N /\ O[j - 1] \in Nat /\ InstrAt(instrs, j) = 2 * O[j - 1]
  <2> TAKE j \in 1 .. N
  <2>1. j - 1 \in 0 .. N /\ (j - 1) + 1 = j
    BY <1>2
  <2>2. InstrAt(instrs, (j - 1) + 1) = 2 * O[j - 1]
    BY <1>8, <2>1
  <2>3. O[j - 1] \in Nat
    BY <1>5, <2>1 DEF FlatTo
  <2> QED
    BY <2>1, <2>2, <2>3
<1>10. 2 * Len(w) = Total(Lengths(instrs))
  <2>1. InstrAt(instrs, N + 1) = 2 * O[N]
    BY <1>2, <1>8
  <2>2. Len(w) = O[N]
    BY <1>5 DEF FlatTo
  <2> QED
    BY <1>2, <2>1, <2>2
<1>11. ASSUME NEW j \in 1 .. N, NEW i \in 1 .. Len(L[j])
       PROVE  /\ O[j - 1] + i \in 1 .. Len(w)
              /\ WordIsAt(labels, instrs, w, O[j - 1] + i, j, i)
  <2>1. O[j - 1] + i \in 1 .. Len(w) /\ w[O[j - 1] + i] = L[j][i]
    BY <1>5 DEF FlatTo
  <2>2. InstrAt(instrs, j) = 2 * O[j - 1] /\ O[j - 1] \in Nat
    BY <1>9
  <2>3. i \in Nat
    BY <1>6
  <2>4. 2 * ((O[j - 1] + i) - 1) = InstrAt(instrs, j) + 2 * (i - 1)
    BY <2>2, <2>3
  <2>5. L[j] = InstrWords(labels, instrs[j])
    BY <1>2
  <2>6. j \in 1 .. Len(instrs) /\ i \in 1 .. Len(InstrWords(labels, instrs[j]))
    BY <1>0, <2>5
  <2> QED
    BY <2>1, <2>4, <2>5, <2>6 DEF WordIsAt
<1>12. ASSUME NEW x \in 1 .. Len(w) PROVE \E j, i : WordIsAt(labels, instrs, w, x, j, i)
  <2>1. O \in [0 .. N -> Nat] /\ O[0] = 0 /\ Len(w) = O[N]
    BY <1>5 DEF FlatTo
  <2>2. x \in 1 .. O[N]
    BY <2>1
  <2>3. PICK j \in 1 .. N : O[j - 1] < x /\ x <= O[j]
    BY <1>2, <2>1, <2>2, OffsetBelow
  <2>4. O[j] = O[j - 1] + Len(L[j]) /\ O[j - 1] \in Nat /\ Len(L[j]) \in Nat
    BY <1>5, <1>6, <1>9 DEF FlatTo
  <2> DEFINE i == x - O[j - 1]
  <2>5. x \in Nat
    BY <1>3
  <2>6. i \in 1 .. Len(L[j]) /\ O[j - 1] + i = x
    BY <2>3, <2>4, <2>5
  <2> HIDE DEF i
  <2>7. WordIsAt(labels, instrs, w, O[j - 1] + i, j, i)
    BY <1>11, <2>6
  <2> QED
    BY <2>6, <2>7
<1>13. \A j \in 1 .. Len(instrs) : \A i \in 1 .. Len(InstrWords(labels, instrs[j])) :
         \E x \in 1 .. Len(w) : WordIsAt(labels, instrs, w, x, j, i)
  <2> TAKE j \in 1 .. Len(instrs)
  <2> TAKE i \in 1 .. Len(InstrWords(labels, instrs[j]))
  <2>1. j \in 1 .. N
    BY <1>0
  <2>2. i \in 1 .. Len(L[j])
    BY <1>2, <2>1
  <2>3. /\ O[j - 1] + i \in 1 .. Len(w)
        /\ WordIsAt(labels, instrs, w, O[j - 1] + i, j, i)
    BY <1>11, <2>1, <2>2
  <2> QED
    BY <2>3
<1> QED
  BY <1>3, <1>10, <1>12, <1>13 DEF AllWordsAt

-----------------------------------------------------------------------------
(* The blocks of a file *)

\* What the blocks of a file are of: the boot section, the vectors, the program.
BootAt(a, b, k) == b \in 1 .. Len(a.bootInstructions) /\ k = b
VectorAt(a, v, k) == v \in 1 .. Len(a.excpVectors) /\ k = Len(a.bootInstructions) + v
ProgramAt(a, b, k) ==
  b \in 1 .. Len(a.midInstrDict) /\ k = Len(a.bootInstructions) + Len(a.excpVectors) + b

BlocksAre(a, blocks) ==
  /\ Len(blocks) \in Nat
  /\ \A k \in 1 .. Len(blocks) :
       (\E b : BootAt(a, b, k)) \/ (\E v : VectorAt(a, v, k)) \/ (\E b : ProgramAt(a, b, k))
  /\ \A b, k : BootAt(a, b, k) =>
       /\ k \in 1 .. Len(blocks) /\ blocks[k].addr = bootStartAddr
       /\ blocks[k].instrs = a.bootInstructions[b].instrs
  /\ \A v, k : VectorAt(a, v, k) =>
       /\ k \in 1 .. Len(blocks) /\ blocks[k].addr = a.excpVectors[v].addr
       /\ blocks[k].instrs = <<a.excpVectors[v].instr>>
  /\ \A b, k : ProgramAt(a, b, k) =>
       /\ k \in 1 .. Len(blocks) /\ blocks[k].addr = a.labelDict[a.midInstrDict[b].label]
       /\ blocks[k].instrs = a.midInstrDict[b].instrs

\* Three functions on first numbers behind each other.
ThreeAre(p, q, s, K, M, N, r) ==
  /\ Len(r) = K + M + N
  /\ \A k \in 1 .. K : r[k] = p[k]
  /\ \A k \in 1 .. M : r[K + k] = q[k]
  /\ \A k \in 1 .. N : r[K + M + k] = s[k]

Joined(p, q, r) ==
  /\ Len(r) = Len(p) + Len(q)
  /\ \A i \in 1 .. Len(p) : i \in 1 .. Len(r) /\ r[i] = p[i]
  /\ \A i \in 1 .. Len(q) : Len(p) + i \in 1 .. Len(r) /\ r[Len(p) + i] = q[i]

\* Two sequences joined.
LEMMA JoinedIs ==
  ASSUME NEW X, NEW p \in Seq(X), NEW q \in Seq(X)
  PROVE  Joined(p, q, p \o q) /\ p \o q \in Seq(X)
BY ConcatIs DEF Joined

\* Three sequences joined.
LEMMA ThreeJoined ==
  ASSUME NEW X, NEW p \in Seq(X), NEW q \in Seq(X), NEW s \in Seq(X)
  PROVE  ThreeAre(p, q, s, Len(p), Len(q), Len(s), p \o q \o s)
<1> DEFINE two == p \o q
           r == two \o s
           K == Len(p)
           M == Len(q)
           N == Len(s)
<1>1. two \in Seq(X) /\ Joined(p, q, two)
  BY JoinedIs
<1>2. Joined(two, s, r)
  <2> HIDE DEF two
  <2> QED
    BY <1>1, JoinedIs
<1>3. K \in Nat /\ M \in Nat /\ N \in Nat
  OBVIOUS
<1>4. r = p \o q \o s
  OBVIOUS
<1> HIDE DEF two, r
<1>5. Len(two) = K + M
  BY <1>1 DEF Joined
<1>6. ASSUME NEW k \in 1 .. K PROVE r[k] = p[k]
  <2>1. k \in 1 .. Len(two) /\ two[k] = p[k]
    BY <1>1 DEF Joined
  <2> QED
    BY <1>2, <2>1 DEF Joined
<1>7. ASSUME NEW k \in 1 .. M PROVE r[K + k] = q[k]
  <2>1. K + k \in 1 .. Len(two) /\ two[K + k] = q[k]
    BY <1>1 DEF Joined
  <2> QED
    BY <1>2, <2>1 DEF Joined
<1>8. ASSUME NEW k \in 1 .. N PROVE r[K + M + k] = s[k]
  BY <1>2, <1>5 DEF Joined
<1>9. Len(r) = K + M + N
  BY <1>2, <1>5 DEF Joined
<1> QED
  BY <1>4, <1>6, <1>7, <1>8, <1>9 DEF ThreeAre

\* The elements of each behind those of the ones before.
LEMMA ThreeBehind ==
  ASSUME NEW K \in Nat, NEW M \in Nat, NEW N \in Nat, NEW p, NEW q, NEW s,
         p = [k \in 1 .. K |-> p[k]], q = [k \in 1 .. M |-> q[k]], s = [k \in 1 .. N |-> s[k]]
  PROVE  ThreeAre(p, q, s, K, M, N, p \o q \o s)
<1> DEFINE X == {p[k] : k \in 1 .. K} \union {q[k] : k \in 1 .. M} \union {s[k] : k \in 1 .. N}
<1>1. \A k \in 1 .. K : p[k] \in X
  OBVIOUS
<1>2. \A k \in 1 .. M : q[k] \in X
  OBVIOUS
<1>3. \A k \in 1 .. N : s[k] \in X
  OBVIOUS
<1> HIDE DEF X
<1>4. p \in [1 .. K -> X]
  BY <1>1
<1>5. q \in [1 .. M -> X]
  BY <1>2
<1>6. s \in [1 .. N -> X]
  BY <1>3
<1>7. p \in Seq(X) /\ q \in Seq(X) /\ s \in Seq(X)
  BY <1>4, <1>5, <1>6, FunctionIsSeq
<1>8. Len(p) = K /\ Len(q) = M /\ Len(s) = N
  BY <1>4, <1>5, <1>6, <1>7
<1>9. ThreeAre(p, q, s, Len(p), Len(q), Len(s), p \o q \o s)
  BY <1>7, ThreeJoined, Zenon
<1> QED
  BY <1>8, <1>9, Zenon

\* The blocks that are written of an object.
LEMMA BlocksToWriteAre ==
  ASSUME NEW t, NEW labels, NEW a \in ObjectsWith(t, labels, {NoError}),
         NEW blocks, blocks = BlocksToWrite(a)
  PROVE  BlocksAre(a, blocks)
<1> DEFINE boot == [k \in DOMAIN a.bootInstructions |->
                      [addr |-> bootStartAddr, instrs |-> a.bootInstructions[k].instrs]]
           vect == [k \in DOMAIN a.excpVectors |->
                      [addr |-> a.excpVectors[k].addr, instrs |-> <<a.excpVectors[k].instr>>]]
           mid == [k \in DOMAIN a.midInstrDict |->
                     [addr |-> a.labelDict[a.midInstrDict[k].label],
                      instrs |-> a.midInstrDict[k].instrs]]
           K == Len(a.bootInstructions)
           M == Len(a.excpVectors)
           N == Len(a.midInstrDict)
<1>1. /\ a.bootInstructions \in Seq(Blocks(Names(t), Codes(t)))
      /\ a.midInstrDict \in Seq(Blocks(Names(t), Codes(t)))
      /\ a.excpVectors \in Seq(Vectors(t))
  BY DEF ObjectsWith
<1>2. /\ K \in Nat /\ DOMAIN a.bootInstructions = 1 .. K
      /\ M \in Nat /\ DOMAIN a.excpVectors = 1 .. M
      /\ N \in Nat /\ DOMAIN a.midInstrDict = 1 .. N
  BY <1>1
<1>3. blocks = boot \o vect \o mid
  BY DEF BlocksToWrite
<1>4. \A k \in 1 .. K : /\ boot[k].addr = bootStartAddr
                        /\ boot[k].instrs = a.bootInstructions[k].instrs
  BY <1>2
<1>5. \A k \in 1 .. M : /\ vect[k].addr = a.excpVectors[k].addr
                        /\ vect[k].instrs = <<a.excpVectors[k].instr>>
  BY <1>2
<1>6. \A k \in 1 .. N : /\ mid[k].addr = a.labelDict[a.midInstrDict[k].label]
                        /\ mid[k].instrs = a.midInstrDict[k].instrs
  BY <1>2
<1>7. /\ boot = [k \in 1 .. K |-> boot[k]] /\ vect = [k \in 1 .. M |-> vect[k]]
      /\ mid = [k \in 1 .. N |-> mid[k]]
  BY <1>2
<1> HIDE DEF boot, vect, mid, K, M, N
<1>8. ThreeAre(boot, vect, mid, K, M, N, blocks)
  <2>1. K \in Nat /\ M \in Nat /\ N \in Nat
    BY <1>2
  <2>2. ThreeAre(boot, vect, mid, K, M, N, boot \o vect \o mid)
    BY <1>7, <2>1, ThreeBehind, Zenon
  <2> QED
    BY <1>3, <2>2, Zenon
<1>9. Len(blocks) = K + M + N
  BY <1>8 DEF ThreeAre
<1>10. Len(blocks) \in Nat
  BY <1>2, <1>9
<1>11. ASSUME NEW k \in 1 .. Len(blocks)
       PROVE  (\E b : BootAt(a, b, k)) \/ (\E v : VectorAt(a, v, k)) \/ (\E b : ProgramAt(a, b, k))
  <2>1. \/ k \in 1 .. K
        \/ k - K \in 1 .. M /\ k = K + (k - K)
        \/ k - (K + M) \in 1 .. N /\ k = K + M + (k - (K + M))
    BY <1>2, <1>9
  <2> QED
    BY <2>1 DEF BootAt, VectorAt, ProgramAt, K, M, N
<1>12. ASSUME NEW b, NEW k, BootAt(a, b, k)
       PROVE  /\ k \in 1 .. Len(blocks) /\ blocks[k].addr = bootStartAddr
              /\ blocks[k].instrs = a.bootInstructions[b].instrs
  <2>1. b \in 1 .. K /\ k = b
    BY <1>12 DEF BootAt, K
  <2>2. blocks[k] = boot[b]
    BY <1>8, <2>1 DEF ThreeAre
  <2>3. k \in 1 .. Len(blocks)
    BY <1>2, <1>9, <2>1
  <2> QED
    BY <1>4, <2>1, <2>2, <2>3
<1>13. ASSUME NEW v, NEW k, VectorAt(a, v, k)
       PROVE  /\ k \in 1 .. Len(blocks) /\ blocks[k].addr = a.excpVectors[v].addr
              /\ blocks[k].instrs = <<a.excpVectors[v].instr>>
  <2>1. v \in 1 .. M /\ k = K + v
    BY <1>13 DEF VectorAt, K, M
  <2>2. blocks[k] = vect[v]
    BY <1>8, <2>1 DEF ThreeAre
  <2>3. k \in 1 .. Len(blocks)
    BY <1>2, <1>9, <2>1
  <2> QED
    BY <1>5, <2>1, <2>2, <2>3
<1>14. ASSUME NEW b, NEW k, ProgramAt(a, b, k)
       PROVE  /\ k \in 1 .. Len(blocks) /\ blocks[k].addr = a.labelDict[a.midInstrDict[b].label]
              /\ blocks[k].instrs = a.midInstrDict[b].instrs
  <2>1. b \in 1 .. N /\ k = K + M + b
    BY <1>14 DEF ProgramAt, K, M, N
  <2>2. blocks[k] = mid[b]
    BY <1>8, <2>1 DEF ThreeAre
  <2>3. k \in 1 .. Len(blocks)
    BY <1>2, <1>9, <2>1
  <2> QED
    BY <1>6, <2>1, <2>2, <2>3
<1> QED
  BY <1>10, <1>11, <1>12, <1>13, <1>14 DEF BlocksAre

-----------------------------------------------------------------------------
(* What an accepted text leaves *)

\* An object that a text was assembled to without an error: it holds the text's lines
\* where the listing has them, with the labels new.
AcceptedText(t, begun, new, a) ==
  /\ IsText(t) /\ InRange(new) /\ a \in ObjectsWith(t, new, {NoError})
  /\ Holds(t, begun, Len(t), a) /\ Listed(t, Len(t), a)
  /\ \A n \in 1 .. Len(t) : LegalSoFar(t, n)
  /\ ~TooLarge(a.bootInstructions, bootStartAddr, memoryEnd)
  /\ ~TooLarge(a.midInstrDict, codeStartAddr, bootStartAddr)
  /\ \A b \in DOMAIN a.midInstrDict :
       new[a.midInstrDict[b].label] = codeStartAddr + BlockAt(a.midInstrDict, b)
  /\ \A i \in InstrsToWrite(a) : Unsolved(new, i) = {}

\* The parts of it as sequences.
LEMMA PartsOfAccepted ==
  ASSUME NEW t, NEW begun, NEW new, NEW a, AcceptedText(t, begun, new, a)
  PROVE  /\ Len(t) \in Nat /\ DOMAIN t = 1 .. Len(t)
         /\ a.bootInstructions \in Seq(Blocks(Names(t), Codes(t)))
         /\ a.midInstrDict \in Seq(Blocks(Names(t), Codes(t)))
         /\ a.excpVectors \in Seq(Vectors(t)) /\ a.labelDict = new
         /\ \A i \in Codes(t) : i.length \in Nat
         /\ \A l \in DOMAIN new : new[l] \in Nat
<1>1. IsText(t) /\ InRange(new) /\ a \in ObjectsWith(t, new, {NoError})
  BY DEF AcceptedText
<1>2. \A i \in Codes(t) : i.length \in Nat
  BY <1>1, CodesType
<1>3. \A l \in DOMAIN new : new[l] \in Nat
  BY <1>1, AreasAssumption DEF InRange
<1>4. Len(t) \in Nat /\ DOMAIN t = 1 .. Len(t)
  BY <1>1 DEF IsText
<1> QED
  BY <1>1, <1>2, <1>3, <1>4 DEF ObjectsWith

\* The line of a vector.
VectorLine(t, a, v, n) ==
  /\ n \in LiveLines(t) /\ IsLineOf(t, n, a.excpVectors[v].addr)
  /\ a.excpVectors[v].instr = Encoded(t[n])
  /\ AreaOf(t, n) = SectionOf(t, n) /\ AddressOf(t, n) = a.excpVectors[v].addr

\* The object's vectors are the live lines of the vectors.
LEMMA VectorLines ==
  ASSUME NEW t, NEW begun, NEW new, NEW a, AcceptedText(t, begun, new, a)
  PROVE  /\ \A v \in 1 .. Len(a.excpVectors) : \E n : VectorLine(t, a, v, n)
         /\ \A n \in LiveLines(t) : IsVectorLine(t, n) =>
              \E v \in 1 .. Len(a.excpVectors) : VectorLine(t, a, v, n)
<1> DEFINE N == Len(t)
           vs == a.excpVectors
<1>1. IsText(t) /\ Range(vs) = VectorsTo(t, Len(t))
  BY DEF AcceptedText, Holds
<1>2. DOMAIN vs = 1 .. Len(vs)
  BY PartsOfAccepted
<1>3. ASSUME NEW n, NEW v \in 1 .. Len(vs), n \in LiveLines(t), IsVectorLine(t, n), vs[v] = VectorOf(t, n)
      PROVE  VectorLine(t, a, v, n)
  <2>1. vs[v].addr = VectorAddr[SectionOf(t, n)] /\ vs[v].instr = Encoded(t[n])
    BY <1>3 DEF VectorOf
  <2>2. AreaOf(t, n) = SectionOf(t, n)
    BY <1>3, AreaIs
  <2>3. AreaOf(t, n) \in DOMAIN VectorAddr
    BY <1>3, <2>2 DEF IsVectorLine
  <2>4. AddressOf(t, n) = VectorAddr[AreaOf(t, n)]
    BY <2>3, AddressIs
  <2> QED
    BY <1>3, <2>1, <2>2, <2>4 DEF VectorLine, IsLineOf
<1>4. \A n \in LiveTo(t, Len(t)) : n \in LiveLines(t) /\ IsVectorLine(t, n)
  <2>1. \A n : n \in LiveTo(t, Len(t)) => n \in LiveLines(t)
    BY <1>1, LiveIs
  <2> QED
    BY <2>1 DEF LiveTo
<1>5. ASSUME NEW v \in 1 .. Len(vs) PROVE \E n : VectorLine(t, a, v, n)
  <2>1. vs[v] \in VectorsTo(t, Len(t))
    BY <1>1, <1>2 DEF Range
  <2>2. PICK n \in LiveTo(t, Len(t)) : vs[v] = VectorOf(t, n)
    BY <2>1 DEF VectorsTo
  <2> QED
    BY <1>3, <1>4, <2>2
<1>6. ASSUME NEW n \in LiveLines(t), IsVectorLine(t, n)
      PROVE  \E v \in 1 .. Len(vs) : VectorLine(t, a, v, n)
  <2>1. n \in LiveTo(t, Len(t))
    BY <1>1, <1>6, LiveIs
  <2>2. VectorOf(t, n) \in VectorsTo(t, Len(t))
    BY <2>1 DEF VectorsTo
  <2>3. PICK v \in DOMAIN vs : vs[v] = VectorOf(t, n)
    BY <1>1, <2>2 DEF Range
  <2> QED
    BY <1>2, <1>3, <1>6, <2>3
<1> QED
  BY <1>5, <1>6

\* A block ends where the blocks do or before.
LEMMA BlockEnds ==
  ASSUME NEW X, NEW I, \A i \in I : i.length \in Nat, NEW blocks \in Seq(Blocks(X, I)),
         NEW b \in 1 .. Len(blocks)
  PROVE  /\ BlockAt(blocks, b) \in Nat /\ Total(Lengths(blocks[b].instrs)) \in Nat
         /\ BlockAt(blocks, b) + Total(Lengths(blocks[b].instrs)) <= SizeOf(blocks)
         /\ SizeOf(blocks) \in Nat
<1>1. Len(blocks) \in Nat
  OBVIOUS
<1>2. /\ BlockAt(blocks, b) \in Nat
      /\ BlockAt(blocks, b + 1) = BlockAt(blocks, b) + Total(Lengths(blocks[b].instrs))
      /\ BlockAt(blocks, Len(blocks) + 1) = SizeOf(blocks)
  BY BlockAtStep
<1>3. blocks[b] \in Blocks(X, I)
  OBVIOUS
<1>4. blocks[b].instrs \in Seq(I)
  BY <1>3 DEF Blocks
<1>5. Total(Lengths(blocks[b].instrs)) \in Nat
  BY <1>4, LengthsType
<1>6. SizeOf(blocks) \in Nat
  BY SizesType
<1>7. BlockAt(blocks, b + 1) <= SizeOf(blocks)
  <2>1. CASE b = Len(blocks)
    BY <1>2, <1>6, <2>1
  <2>2. CASE b # Len(blocks)
    <3>1. b + 1 \in 1 .. Len(blocks)
      BY <1>1, <2>2
    <3> QED
      BY <3>1, BlockAtStep
  <2> QED
    BY <2>1, <2>2
<1> QED
  BY <1>2, <1>5, <1>6, <1>7

\* Instructions of the object can be written.
LEMMA HeldAreWritable ==
  ASSUME NEW t, NEW begun, NEW new, NEW a, AcceptedText(t, begun, new, a),
         NEW instrs \in Seq(Codes(t)), \A j \in 1 .. Len(instrs) : instrs[j] \in InstrsToWrite(a)
  PROVE  AllWritable(t, new, instrs)
<1>1. \A l \in DOMAIN new : new[l] \in Nat
  BY PartsOfAccepted
<1>2. IsText(t) /\ \A i \in InstrsToWrite(a) : Unsolved(new, i) = {}
  BY DEF AcceptedText
<1> QED
  BY <1>1, <1>2 DEF AllWritable

\* A block to write is within the memory and can be written.
BlockFits(t, new, b) ==
  /\ b.addr \in Nat /\ AllWritable(t, new, b.instrs)
  /\ Total(Lengths(b.instrs)) \in Nat
  /\ b.addr + Total(Lengths(b.instrs)) <= 65536

\* Blocks of the boot section fit.
LEMMA BootFits ==
  ASSUME NEW t, NEW begun, NEW new, NEW a, AcceptedText(t, begun, new, a),
         NEW blocks, BlocksAre(a, blocks), NEW b, NEW k, BootAt(a, b, k)
  PROVE  BlockFits(t, new, blocks[k])
<1> DEFINE boot == a.bootInstructions
           instrs == boot[b].instrs
<1>1. /\ boot \in Seq(Blocks(Names(t), Codes(t))) /\ \A i \in Codes(t) : i.length \in Nat
  BY PartsOfAccepted
<1>2. b \in 1 .. Len(boot)
  BY DEF BootAt
<1>3. blocks[k].addr = bootStartAddr /\ blocks[k].instrs = instrs
  BY DEF BlocksAre
<1>4. /\ BlockAt(boot, b) \in Nat /\ Total(Lengths(instrs)) \in Nat
      /\ BlockAt(boot, b) + Total(Lengths(instrs)) <= SizeOf(boot) /\ SizeOf(boot) \in Nat
  <2> DEFINE C == Codes(t)
             Z == Names(t)
  <2>1. boot \in Seq(Blocks(Z, C)) /\ \A i \in C : i.length \in Nat
    BY <1>1
  <2> HIDE DEF boot, C, Z
  <2> QED
    BY <1>2, <2>1, BlockEnds
<1>5. bootStartAddr + SizeOf(boot) <= memoryEnd
  <2>1. ~(bootStartAddr + SizeOf(boot) > memoryEnd)
    BY DEF AcceptedText, TooLarge
  <2> HIDE DEF boot
  <2> QED
    BY <1>4, <2>1, AreasAssumption
<1>6. instrs \in Seq(Codes(t))
  <2>1. boot[b] \in Blocks(Names(t), Codes(t))
    BY <1>1, <1>2
  <2> QED
    BY <2>1 DEF Blocks
<1>7. \A j \in 1 .. Len(instrs) : instrs[j] \in InstrsToWrite(a)
  <2>1. DOMAIN boot = 1 .. Len(boot) /\ DOMAIN instrs = 1 .. Len(instrs)
    BY <1>1, <1>6
  <2>2. \A j \in 1 .. Len(instrs) : instrs[j] \in InstrsOf(boot)
    BY <1>2, <2>1 DEF InstrsOf, Range
  <2> QED
    BY <2>2 DEF InstrsToWrite
<1> HIDE DEF instrs, boot
<1>8. AllWritable(t, new, instrs)
  BY <1>6, <1>7, HeldAreWritable
<1>9. bootStartAddr + Total(Lengths(instrs)) <= 65536
  BY <1>4, <1>5, AreasAssumption
<1> QED
  BY <1>3, <1>4, <1>8, <1>9, AreasAssumption DEF BlockFits

\* Blocks of the program fit.
LEMMA ProgramFits ==
  ASSUME NEW t, NEW begun, NEW new, NEW a, AcceptedText(t, begun, new, a),
         NEW blocks, BlocksAre(a, blocks), NEW b, NEW k, ProgramAt(a, b, k)
  PROVE  /\ BlockFits(t, new, blocks[k])
         /\ blocks[k].addr = codeStartAddr + BlockAt(a.midInstrDict, b)
         /\ BlockAt(a.midInstrDict, b) \in Nat
         /\ blocks[k].addr + Total(Lengths(blocks[k].instrs)) <= bootStartAddr
<1> DEFINE mid == a.midInstrDict
           instrs == mid[b].instrs
<1>1. /\ mid \in Seq(Blocks(Names(t), Codes(t))) /\ \A i \in Codes(t) : i.length \in Nat
      /\ a.labelDict = new
  BY PartsOfAccepted
<1>2. b \in 1 .. Len(mid)
  BY DEF ProgramAt
<1>3. blocks[k].addr = a.labelDict[mid[b].label] /\ blocks[k].instrs = instrs
  BY DEF BlocksAre
<1>4. /\ BlockAt(mid, b) \in Nat /\ Total(Lengths(instrs)) \in Nat
      /\ BlockAt(mid, b) + Total(Lengths(instrs)) <= SizeOf(mid) /\ SizeOf(mid) \in Nat
  <2> DEFINE C == Codes(t)
             Z == Names(t)
  <2>1. mid \in Seq(Blocks(Z, C)) /\ \A i \in C : i.length \in Nat
    BY <1>1
  <2> HIDE DEF mid, C, Z
  <2> QED
    BY <1>2, <2>1, BlockEnds
<1>5. codeStartAddr + SizeOf(mid) <= bootStartAddr
  <2>1. ~(codeStartAddr + SizeOf(mid) > bootStartAddr)
    BY DEF AcceptedText, TooLarge
  <2> HIDE DEF mid
  <2> QED
    BY <1>4, <2>1, AreasAssumption
<1>6. instrs \in Seq(Codes(t))
  <2>1. mid[b] \in Blocks(Names(t), Codes(t))
    BY <1>1, <1>2
  <2> QED
    BY <2>1 DEF Blocks
<1>7. \A j \in 1 .. Len(instrs) : instrs[j] \in InstrsToWrite(a)
  <2>1. DOMAIN mid = 1 .. Len(mid) /\ DOMAIN instrs = 1 .. Len(instrs)
    BY <1>1, <1>6
  <2>2. \A j \in 1 .. Len(instrs) : instrs[j] \in InstrsOf(mid)
    BY <1>2, <2>1 DEF InstrsOf, Range
  <2> QED
    BY <2>2 DEF InstrsToWrite
<1>8. blocks[k].addr = codeStartAddr + BlockAt(mid, b)
  <2>1. b \in DOMAIN mid
    BY <1>1, <1>2
  <2> QED
    BY <1>1, <1>3, <2>1 DEF AcceptedText
<1> HIDE DEF instrs, mid
<1>9. AllWritable(t, new, instrs)
  BY <1>6, <1>7, HeldAreWritable
<1>10. (codeStartAddr + BlockAt(mid, b)) + Total(Lengths(instrs)) <= bootStartAddr
  BY <1>4, <1>5, AreasAssumption
<1>11. blocks[k].addr + Total(Lengths(blocks[k].instrs)) <= bootStartAddr
  BY <1>3, <1>8, <1>10
<1>12. blocks[k].addr \in Nat /\ blocks[k].addr + Total(Lengths(blocks[k].instrs)) <= 65536
  BY <1>3, <1>4, <1>8, <1>10, AreasAssumption
<1>13. BlockFits(t, new, blocks[k])
  BY <1>3, <1>4, <1>9, <1>12 DEF BlockFits
<1> QED
  BY <1>4, <1>8, <1>11, <1>13 DEF mid

\* The word of a vector fits.
LEMMA VectorFits ==
  ASSUME NEW t, NEW begun, NEW new, NEW a, AcceptedText(t, begun, new, a), VectorsFit(t),
         NEW blocks, BlocksAre(a, blocks), NEW v, NEW k, VectorAt(a, v, k)
  PROVE  /\ BlockFits(t, new, blocks[k])
         /\ blocks[k].addr + Total(Lengths(blocks[k].instrs)) <= codeStartAddr
<1> DEFINE vs == a.excpVectors
           instrs == <<vs[v].instr>>
<1>1. vs \in Seq(Vectors(t)) /\ \A i \in Codes(t) : i.length \in Nat
  BY PartsOfAccepted
<1>2. v \in 1 .. Len(vs)
  BY DEF VectorAt
<1>3. blocks[k].addr = vs[v].addr /\ blocks[k].instrs = instrs
  BY DEF BlocksAre
<1>4. PICK n : VectorLine(t, a, v, n)
  BY <1>2, VectorLines
<1>5. /\ n \in LiveLines(t) /\ IsLineOf(t, n, vs[v].addr) /\ vs[v].instr = Encoded(t[n])
      /\ AreaOf(t, n) = SectionOf(t, n) /\ AddressOf(t, n) = vs[v].addr
  BY <1>4 DEF VectorLine
<1>6. AreaOf(t, n) \in DOMAIN VectorAddr
  BY <1>5 DEF IsLineOf, IsVectorLine
<1>7. AddressOf(t, n) + 2 * WordsOf(t[n]) <= codeStartAddr
  BY <1>5, <1>6 DEF VectorsFit
<1>8. n \in 1 .. Len(t) /\ t[n].kind = "instr" /\ IsLine(t[n])
  BY <1>5, PartsOfAccepted DEF LiveLines, InstrLines, AcceptedText, IsText
<1>9. Readable(t[n])
  BY <1>8 DEF AcceptedText, LegalSoFar
<1>10. vs[v].instr.length = 2 * WordsOf(t[n]) /\ WordsOf(t[n]) \in Nat
  BY <1>5, <1>8, <1>9, LengthIsWords
<1>11. vs[v].addr \in Nat /\ vs[v].instr \in Codes(t)
  <2>1. vs[v] \in Vectors(t)
    BY <1>1, <1>2
  <2> QED
    BY <2>1 DEF Vectors, VectorAddr
<1>12. Total(Lengths(instrs)) = vs[v].instr.length
  <2>1. vs[v].instr.length \in Nat
    BY <1>1, <1>11
  <2> QED
    BY <2>1, LengthOfOne
<1>13. vs[v].instr \in InstrsToWrite(a)
  <2>1. v \in DOMAIN vs
    BY <1>1, <1>2
  <2> QED
    BY <2>1 DEF InstrsToWrite
<1>14. AllWritable(t, new, instrs)
  <2> DEFINE i == vs[v].instr
  <2>1. i \in Codes(t) /\ i \in InstrsToWrite(a)
    BY <1>11, <1>13
  <2> HIDE DEF i
  <2>2. <<i>> \in Seq(Codes(t)) /\ \A j \in 1 .. Len(<<i>>) : <<i>>[j] \in InstrsToWrite(a)
    BY <2>1
  <2>3. AllWritable(t, new, <<i>>)
    BY <2>2, HeldAreWritable
  <2> QED
    BY <2>3 DEF i
<1> HIDE DEF instrs, vs
<1>15. blocks[k].addr + Total(Lengths(blocks[k].instrs)) <= codeStartAddr
  BY <1>3, <1>5, <1>7, <1>10, <1>12
<1>16. Total(Lengths(instrs)) \in Nat
  BY <1>10, <1>12
<1>17. blocks[k].addr + Total(Lengths(blocks[k].instrs)) <= 65536
  BY <1>3, <1>11, <1>15, <1>16, AreasAssumption
<1> QED
  BY <1>3, <1>11, <1>14, <1>15, <1>16, <1>17 DEF BlockFits

\* All blocks to write fit.
LEMMA AllFit ==
  ASSUME NEW t, NEW begun, NEW new, NEW a, AcceptedText(t, begun, new, a), VectorsFit(t),
         NEW blocks, BlocksAre(a, blocks), NEW k \in 1 .. Len(blocks)
  PROVE  BlockFits(t, new, blocks[k])
<1>1. (\E b : BootAt(a, b, k)) \/ (\E v : VectorAt(a, v, k)) \/ (\E b : ProgramAt(a, b, k))
  BY DEF BlocksAre
<1> QED
  BY <1>1, BootFits, VectorFits, ProgramFits

-----------------------------------------------------------------------------
(* The file loaded *)

\* Where the blocks of a file begin, and their words.
AddrsOf(blocks) == [k \in 1 .. Len(blocks) |-> blocks[k].addr]
WordsOfAll(labels, blocks) == [k \in 1 .. Len(blocks) |-> BlockWords(labels, blocks[k].instrs)]

\* One block to write: its words and its lines.
LEMMA BlockIs ==
  ASSUME NEW t, NEW new, NEW b, BlockFits(t, new, b), NEW w, w = BlockWords(new, b.instrs)
  PROVE  /\ w \in Seq(Nat) /\ AllWordsAt(new, b.instrs, w) /\ b.addr \in Nat
         /\ b.addr + 2 * Len(w) <= 65536
         /\ BlockLines(new, b) = BlockText(b.addr, w)
         /\ BlockLines(new, b) \in Seq(FileLines)
<1>1. /\ b.addr \in Nat /\ AllWritable(t, new, b.instrs)
      /\ b.addr + Total(Lengths(b.instrs)) <= 65536
  BY DEF BlockFits
<1>2. AllWordsAt(new, b.instrs, w)
  BY <1>1, WordsPlaced
<1>3. w \in Seq(Nat) /\ 2 * Len(w) = Total(Lengths(b.instrs))
  BY <1>2 DEF AllWordsAt
<1>4. b.addr + 2 * Len(w) <= 65536
  BY <1>1, <1>3
<1>5. /\ b.instrs \in Seq(Codes(t))
      /\ \A n \in 1 .. Len(b.instrs) : Unsolved(new, b.instrs[n]) = {}
  <2> DEFINE instrs == b.instrs
  <2>1. AllWritable(t, new, instrs)
    BY <1>1
  <2> HIDE DEF instrs
  <2>2. instrs \in Seq(Codes(t)) /\ \A n \in 1 .. Len(instrs) : Unsolved(new, instrs[n]) = {}
    BY <2>1 DEF AllWritable
  <2> QED
    BY <2>2 DEF instrs
<1>6. BlockLines(new, b) = BlockText(b.addr, BlockWords(new, b.instrs))
  BY <1>5, BlockLinesIs
<1>7. BlockText(b.addr, w) \in Seq(FileLines)
  <2> DEFINE ad == b.addr
             s == BlockText(ad, w)
  <2>1. ad \in Nat /\ s = BlockText(ad, w)
    BY <1>1
  <2> HIDE DEF ad, s
  <2>2. s \in Seq(FileLines)
    BY <1>3, <2>1, BlockTextIs
  <2> QED
    BY <2>1, <2>2 DEF ad
<1> QED
  BY <1>1, <1>2, <1>3, <1>4, <1>6, <1>7

\* The file of an accepted text is that of its blocks, and the simulator loads them.
LEMMA AcceptedLoaded ==
  ASSUME NEW t, NEW begun, NEW new, NEW a, AcceptedText(t, begun, new, a), VectorsFit(t),
         NEW blocks, blocks = BlocksToWrite(a), NEW f, f = FileOf(new, blocks),
         WordsFit(f)
  PROVE  /\ Load(f).valid
         /\ CellsOf(AddrsOf(blocks), WordsOfAll(new, blocks), Len(blocks), Load(f).cells)
<1> DEFINE N == Len(blocks)
           ad == AddrsOf(blocks)
           W == WordsOfAll(new, blocks)
           seqs == [k \in 1 .. Len(blocks) |-> BlockLines(new, blocks[k])]
<1>1. BlocksAre(a, blocks)
  <2>1. a \in ObjectsWith(t, new, {NoError})
    BY DEF AcceptedText
  <2> QED
    BY <2>1, BlocksToWriteAre
<1>2. N \in Nat
  BY <1>1 DEF BlocksAre
<1>3. ASSUME NEW k \in 1 .. N
      PROVE  /\ W[k] \in Seq(Nat) /\ ad[k] \in Nat /\ ad[k] + 2 * Len(W[k]) <= 65536
             /\ seqs[k] = BlockText(ad[k], W[k]) /\ seqs[k] \in Seq(FileLines)
  <2> DEFINE w == BlockWords(new, blocks[k].instrs)
             b == blocks[k]
  <2>1. W[k] = w /\ ad[k] = b.addr /\ seqs[k] = BlockLines(new, b)
    BY DEF AddrsOf, WordsOfAll
  <2>2. BlockFits(t, new, b)
    BY <1>1, AllFit
  <2>3. w = BlockWords(new, b.instrs)
    OBVIOUS
  <2> HIDE DEF w, b, W, ad, seqs
  <2>4. /\ w \in Seq(Nat) /\ b.addr \in Nat /\ b.addr + 2 * Len(w) <= 65536
        /\ BlockLines(new, b) = BlockText(b.addr, w) /\ BlockLines(new, b) \in Seq(FileLines)
    BY <2>2, <2>3, BlockIs
  <2> QED
    BY <2>1, <2>4
<1>4. f = FlattenSeq(seqs)
  BY DEF FileOf
<1>5. seqs = [k \in 1 .. N |-> seqs[k]]
  OBVIOUS
<1> HIDE DEF N, ad, W, seqs
<1>6. seqs \in [1 .. N -> Seq(FileLines)]
  BY <1>3, <1>5
<1>7. seqs \in Seq(Seq(FileLines)) /\ Len(seqs) = N
  BY <1>2, <1>6
<1>8. BlocksFit(ad, W, N)
  BY <1>3 DEF BlocksFit
<1>9. \A k \in 1 .. N : seqs[k] = BlockText(ad[k], W[k])
  BY <1>3
<1>10. FileIs(N, ad, W, seqs, f)
  BY <1>2, <1>4, <1>7, <1>8, <1>9 DEF FileIs
<1>11. Load(f).valid /\ CellsOf(ad, W, N, Load(f).cells)
  BY <1>10, FileLoaded
<1> QED
  BY <1>11 DEF N, ad, W

-----------------------------------------------------------------------------
(* Words of lines in blocks *)

\* A cell that the i-th word of a line is in.
Covers(t, new, n, i, d) ==
  /\ n \in LiveLines(t) /\ i \in 1 .. Len(InstrWords(new, Encoded(t[n])))
  /\ d = CellAt(AddressOf(t, n), i)

\* A live line in a block, where the listing has it.
SlotIs(t, b, j, n) ==
  /\ n \in LiveLines(t) /\ j \in 1 .. Len(b.instrs) /\ b.instrs[j] = Encoded(t[n])
  /\ InstrAt(b.instrs, j) \in Nat /\ AddressOf(t, n) = b.addr + InstrAt(b.instrs, j)

\* The x-th word of a block is the i-th word of a line, and in the cell of it.
WordOfLine(t, new, b, x, n, i) ==
  LET w == BlockWords(new, b.instrs)
  IN  /\ x \in 1 .. Len(w) /\ Covers(t, new, n, i, CellAt(b.addr, x))
      /\ w[x] = InstrWords(new, Encoded(t[n]))[i]

\* A word of an instruction that is where the listing has its line.
LEMMA SlotWord ==
  ASSUME NEW t, NEW new, NEW b, b.addr \in Nat, NEW j, NEW n, SlotIs(t, b, j, n),
         NEW w, w = BlockWords(new, b.instrs), NEW x \in 1 .. Len(w), NEW i,
         WordIsAt(new, b.instrs, w, x, j, i)
  PROVE  WordOfLine(t, new, b, x, n, i)
<1>1. /\ i \in 1 .. Len(InstrWords(new, b.instrs[j]))
      /\ 2 * (x - 1) = InstrAt(b.instrs, j) + 2 * (i - 1)
      /\ w[x] = InstrWords(new, b.instrs[j])[i]
  BY DEF WordIsAt
<1>2. /\ n \in LiveLines(t) /\ b.instrs[j] = Encoded(t[n])
      /\ InstrAt(b.instrs, j) \in Nat /\ AddressOf(t, n) = b.addr + InstrAt(b.instrs, j)
  BY DEF SlotIs
<1>3. i \in 1 .. Len(InstrWords(new, Encoded(t[n]))) /\ w[x] = InstrWords(new, Encoded(t[n]))[i]
  BY <1>1, <1>2
<1>4. CellAt(b.addr, x) = CellAt(AddressOf(t, n), i)
  <2> DEFINE p == b.addr
             q == InstrAt(b.instrs, j)
             y == AddressOf(t, n)
  <2>1. p \in Nat /\ q \in Nat /\ y = p + q /\ 2 * (x - 1) = q + 2 * (i - 1)
    BY <1>1, <1>2
  <2>2. x \in Int /\ i \in Int
    BY <1>1
  <2> HIDE DEF p, q, y
  <2>3. p + 2 * (x - 1) = y + 2 * (i - 1)
    BY <2>1, <2>2
  <2> QED
    BY <2>3 DEF p, y, CellAt
<1>5. Covers(t, new, n, i, CellAt(b.addr, x))
  BY <1>2, <1>3, <1>4 DEF Covers
<1> QED
  BY <1>3, <1>5 DEF WordOfLine

\* All the words of a line that is in a block.
LEMMA SlotWords ==
  ASSUME NEW t, NEW new, NEW b, BlockFits(t, new, b), NEW j, NEW n, SlotIs(t, b, j, n),
         NEW i, NEW d, Covers(t, new, n, i, d)
  PROVE  \E x : WordOfLine(t, new, b, x, n, i) /\ d = CellAt(b.addr, x)
<1> DEFINE w == BlockWords(new, b.instrs)
<1>0. w = BlockWords(new, b.instrs)
  OBVIOUS
<1> HIDE DEF w
<1>1. b.addr \in Nat /\ AllWordsAt(new, b.instrs, w)
  BY <1>0, BlockIs
<1>2. j \in 1 .. Len(b.instrs) /\ b.instrs[j] = Encoded(t[n])
  BY DEF SlotIs
<1>3. i \in 1 .. Len(InstrWords(new, b.instrs[j])) /\ d = CellAt(AddressOf(t, n), i)
  BY <1>2 DEF Covers
<1>4. PICK x \in 1 .. Len(w) : WordIsAt(new, b.instrs, w, x, j, i)
  BY <1>1, <1>2, <1>3 DEF AllWordsAt
<1>5. WordOfLine(t, new, b, x, n, i)
  BY <1>0, <1>1, <1>4, SlotWord
<1>6. CellAt(b.addr, x) = d
  BY <1>3, <1>5 DEF WordOfLine, Covers
<1> QED
  BY <1>5, <1>6

\* A word of a block all of whose instructions are where the listing has them.
LEMMA WordSlot ==
  ASSUME NEW t, NEW new, NEW b, BlockFits(t, new, b),
         NEW w, w = BlockWords(new, b.instrs), NEW x \in 1 .. Len(w)
  PROVE  \E j \in 1 .. Len(b.instrs) : \E i :
           \A n : SlotIs(t, b, j, n) => WordOfLine(t, new, b, x, n, i)
<1>1. b.addr \in Nat /\ AllWordsAt(new, b.instrs, w)
  BY BlockIs
<1>2. PICK j, i : WordIsAt(new, b.instrs, w, x, j, i)
  BY <1>1 DEF AllWordsAt
<1>3. j \in 1 .. Len(b.instrs)
  BY <1>2 DEF WordIsAt
<1>4. \A n : SlotIs(t, b, j, n) => WordOfLine(t, new, b, x, n, i)
  BY <1>1, <1>2, SlotWord
<1> QED
  BY <1>3, <1>4

\* The sum of no numbers.
LEMMA TotalOfNone ==
  ASSUME NEW s \in [1 .. 0 -> Nat]
  PROVE  Total(s) = 0
<1>1. 0 \in Nat
  OBVIOUS
<1>2. \E F \in [0 .. 0 -> Nat] : F[0] = 0 /\ F[0] = Total(s)
  BY <1>1, TotalByNumbers
<1> QED
  BY <1>2

\* Behind blocks without instructions there are no bytes.
LEMMA BehindEmpty ==
  ASSUME NEW X, NEW I, \A i \in I : i.length \in Nat, NEW blocks \in Seq(Blocks(X, I)),
         NEW b \in 1 .. Len(blocks), \A k \in 1 .. b - 1 : blocks[k].instrs = << >>
  PROVE  BlockAt(blocks, b) = 0
<1> DEFINE S == {m \in 0 .. b - 1 : BlockAt(blocks, m + 1) = 0}
<1>1. b \in Nat /\ b >= 1 /\ Len(blocks) \in Nat /\ b <= Len(blocks)
  OBVIOUS
<1>2. BlockAt(blocks, 1) = 0
  <2> DEFINE none == SubSeq(blocks, 1, 0)
             s == [k \in DOMAIN none |-> Total(Lengths(none[k].instrs))]
  <2>1. none \in Seq(Blocks(X, I)) /\ Len(none) = 0
    OBVIOUS
  <2>2. SizeOf(none) = Total(s)
    BY DEF SizeOf
  <2>3. BlockAt(blocks, 1) = SizeOf(none)
    BY DEF BlockAt
  <2>4. s \in [1 .. 0 -> Nat]
    <3> HIDE DEF none
    <3> QED
      BY <2>1, SizesType
  <2> HIDE DEF s, none
  <2> QED
    BY <2>2, <2>3, <2>4, TotalOfNone
<1>3. 0 \in S
  <2>1. 0 \in 0 .. b - 1 /\ 0 + 1 = 1
    BY <1>1
  <2> QED
    BY <1>2, <2>1
<1>4. ASSUME NEW m \in 0 .. (b - 1) - 1, m \in S PROVE m + 1 \in S
  <2>1. m + 1 \in 1 .. b - 1 /\ m + 1 \in 1 .. Len(blocks) /\ m + 1 \in 0 .. b - 1
    BY <1>1
  <2>2. BlockAt(blocks, (m + 1) + 1) = BlockAt(blocks, m + 1) + Total(Lengths(blocks[m + 1].instrs))
    BY <2>1, BlockAtStep
  <2>3. Total(Lengths(blocks[m + 1].instrs)) = 0
    <3>1. blocks[m + 1].instrs = << >>
      BY <2>1
    <3>2. Lengths(<< >>) \in [1 .. 0 -> Nat]
      BY DEF Lengths
    <3> QED
      BY <3>1, <3>2, TotalOfNone
  <2>4. BlockAt(blocks, m + 1) = 0
    BY <1>4
  <2>5. BlockAt(blocks, (m + 1) + 1) = 0
    BY <2>2, <2>3, <2>4
  <2> QED
    BY <2>1, <2>5
<1>5. \A m \in 0 .. b - 1 : m \in S
  <2> DEFINE c == b - 1
  <2>1. c \in Nat
    BY <1>1
  <2>2. \A m \in 0 .. c - 1 : m \in S => m + 1 \in S
    BY <1>4
  <2> HIDE DEF S, c
  <2>3. \A m \in 0 .. c : m \in S
    BY <1>3, <2>1, <2>2, InductionTo
  <2> QED
    BY <2>3 DEF c
<1>6. b - 1 \in S /\ (b - 1) + 1 = b
  BY <1>1, <1>5
<1> QED
  BY <1>6

\* One block of the boot section at most has instructions.
OneBoot(a) ==
  \A j, k \in DOMAIN a.bootInstructions :
    a.bootInstructions[j].instrs # << >> /\ a.bootInstructions[k].instrs # << >> => j = k

\* A line in a block, the vector's if it is a vector's line.
LineInBlock(t, a, b, k, j, n) ==
  /\ SlotIs(t, b, j, n)
  /\ IsVectorLine(t, n) => \E v : VectorAt(a, v, k) /\ VectorLine(t, a, v, n)

\* A line that is placed in a block of an area.
LEMMA PlacedIsSlot ==
  ASSUME NEW t, IsText(t), NEW a, NEW area \in {".boot", "program"},
         NEW blocks \in Seq(Blocks(Names(t), Codes(t))), \A i \in Codes(t) : i.length \in Nat,
         NEW c \in 1 .. Len(blocks), NEW j \in 1 .. Len(blocks[c].instrs),
         NEW n \in 1 .. Len(t), IsAt(t, area, blocks, c, j, n),
         NEW b, b.instrs = blocks[c].instrs, BlockAt(blocks, c) \in Nat,
         b.addr = (IF area = ".boot" THEN bootStartAddr ELSE codeStartAddr) + BlockAt(blocks, c),
         NEW k
  PROVE  LineInBlock(t, a, b, k, j, n)
<1> DEFINE instrs == blocks[c].instrs
<1>1. /\ InArea(t, area, n) /\ instrs[j] = Encoded(t[n])
      /\ BlockAt(blocks, c) + InstrAt(instrs, j) = 2 * AreaWords(t, area, n)
  BY DEF IsAt, Before
<1>2. instrs \in Seq(Codes(t))
  <2>1. blocks[c] \in Blocks(Names(t), Codes(t))
    OBVIOUS
  <2> QED
    BY <2>1 DEF Blocks
<1> HIDE DEF instrs
<1>3. InstrAt(instrs, j) \in Nat
  <2>1. j \in 1 .. Len(instrs)
    BY DEF instrs
  <2> QED
    BY <1>2, <2>1, InstrAtStep
<1>4. ~IsVectorLine(t, n) /\ t[n].kind = "instr" /\ AreaOf(t, n) = area
  <2>1. t[n].kind = "instr" /\ AreaOf(t, n) = area
    BY <1>1 DEF InArea
  <2>2. area \notin DOMAIN VectorAddr
    BY DEF VectorAddr
  <2>3. IsVectorLine(t, n) => SectionOf(t, n) \in DOMAIN VectorAddr /\ AreaOf(t, n) = SectionOf(t, n)
    BY AreaIs DEF IsVectorLine
  <2> QED
    BY <2>1, <2>2, <2>3
<1>5. n \in LiveLines(t)
  BY <1>4, LiveIs
<1>6. AddressOf(t, n) = b.addr + InstrAt(instrs, j)
  <2>1. AddressOf(t, n) = (IF area = ".boot" THEN bootStartAddr ELSE codeStartAddr)
                            + 2 * AreaWords(t, area, n)
    BY <1>4, AddressIs
  <2> DEFINE start == IF area = ".boot" THEN bootStartAddr ELSE codeStartAddr
             y == AddressOf(t, n)
             p == BlockAt(blocks, c)
             q == InstrAt(instrs, j)
             m == 2 * AreaWords(t, area, n)
  <2>2. /\ y = start + m /\ p + q = m /\ b.addr = start + p /\ p \in Nat /\ q \in Nat
        /\ start \in Nat
    BY <1>1, <1>3, <2>1, AreasAssumption
  <2> HIDE DEF start, y, p, q, m
  <2>3. y = b.addr + q
    BY <2>2
  <2> QED
    BY <2>3 DEF y, q
<1>7. b.instrs = instrs /\ j \in 1 .. Len(instrs)
  BY DEF instrs
<1>8. SlotIs(t, b, j, n)
  BY <1>1, <1>3, <1>5, <1>6, <1>7 DEF SlotIs
<1> QED
  BY <1>4, <1>8 DEF LineInBlock

\* The line of a vector is in the vector's block.
LEMMA VectorSlot ==
  ASSUME NEW t, NEW begun, NEW new, NEW a, AcceptedText(t, begun, new, a),
         NEW blocks, BlocksAre(a, blocks), NEW v, NEW k, VectorAt(a, v, k),
         NEW n, VectorLine(t, a, v, n)
  PROVE  Len(blocks[k].instrs) = 1 /\ LineInBlock(t, a, blocks[k], k, 1, n)
<1> DEFINE i == a.excpVectors[v].instr
           instrs == <<a.excpVectors[v].instr>>
           b == blocks[k]
<1>1. b.addr = a.excpVectors[v].addr /\ b.instrs = instrs
  BY DEF BlocksAre
<1>2. n \in LiveLines(t) /\ i = Encoded(t[n]) /\ AddressOf(t, n) = a.excpVectors[v].addr
  BY DEF VectorLine
<1>3. /\ v \in 1 .. Len(a.excpVectors) /\ a.excpVectors \in Seq(Vectors(t))
      /\ \A c \in Codes(t) : c.length \in Nat
  BY PartsOfAccepted DEF VectorAt
<1>4. i \in Codes(t) /\ a.excpVectors[v].addr \in Nat
  <2>1. a.excpVectors[v] \in Vectors(t)
    BY <1>3
  <2> QED
    BY <2>1 DEF Vectors, VectorAddr
<1>5. instrs = <<i>>
  OBVIOUS
<1> HIDE DEF i, instrs
<1>6. instrs \in Seq(Codes(t)) /\ Len(instrs) = 1 /\ instrs[1] = i
  BY <1>4, <1>5
<1>7. InstrAt(instrs, 1) = 0
  <2>1. 1 \in 1 .. Len(instrs)
    BY <1>6
  <2>2. \A c \in Codes(t) : c.length \in Nat
    BY <1>3
  <2> QED
    BY <1>6, <2>1, <2>2, InstrAtStep
<1> HIDE DEF b
<1>8. AddressOf(t, n) = b.addr + InstrAt(b.instrs, 1)
  BY <1>1, <1>2, <1>4, <1>7
<1>9. 1 \in 1 .. Len(b.instrs) /\ b.instrs[1] = Encoded(t[n]) /\ InstrAt(b.instrs, 1) \in Nat
  BY <1>1, <1>2, <1>6, <1>7
<1>10. SlotIs(t, b, 1, n)
  BY <1>2, <1>8, <1>9 DEF SlotIs
<1>11. LineInBlock(t, a, b, k, 1, n)
  BY <1>10 DEF LineInBlock
<1> QED
  BY <1>1, <1>6, <1>11 DEF b

\* A line placed in the program is in a block of the file.
LEMMA ProgramSlot ==
  ASSUME NEW t, NEW begun, NEW new, NEW a, AcceptedText(t, begun, new, a),
         NEW blocks, BlocksAre(a, blocks), NEW c, NEW k, ProgramAt(a, c, k),
         NEW j \in 1 .. Len(blocks[k].instrs), NEW n \in 1 .. Len(t),
         IsAt(t, "program", a.midInstrDict, c, j, n)
  PROVE  LineInBlock(t, a, blocks[k], k, j, n)
<1> DEFINE mid == a.midInstrDict
           b == blocks[k]
<1>1. /\ mid \in Seq(Blocks(Names(t), Codes(t))) /\ \A i \in Codes(t) : i.length \in Nat
  BY PartsOfAccepted
<1>2. c \in 1 .. Len(mid) /\ b.instrs = mid[c].instrs
  BY DEF ProgramAt, BlocksAre
<1>3. b.addr = codeStartAddr + BlockAt(mid, c) /\ BlockAt(mid, c) \in Nat
  BY ProgramFits
<1>4. IsText(t) /\ IsAt(t, "program", mid, c, j, n) /\ j \in 1 .. Len(mid[c].instrs)
  BY <1>2 DEF AcceptedText
<1>5. b.addr = (IF "program" = ".boot" THEN bootStartAddr ELSE codeStartAddr) + BlockAt(mid, c)
  BY <1>3
<1> HIDE DEF mid, b
<1>6. LineInBlock(t, a, b, k, j, n)
  BY <1>1, <1>2, <1>3, <1>4, <1>5, PlacedIsSlot
<1> QED
  BY <1>6 DEF b

\* A line placed in the boot section too, with one block of code in it.
LEMMA BootSlot ==
  ASSUME NEW t, NEW begun, NEW new, NEW a, AcceptedText(t, begun, new, a), OneBoot(a),
         NEW blocks, BlocksAre(a, blocks), NEW c, NEW k, BootAt(a, c, k),
         NEW j \in 1 .. Len(blocks[k].instrs), NEW n \in 1 .. Len(t),
         IsAt(t, ".boot", a.bootInstructions, c, j, n)
  PROVE  LineInBlock(t, a, blocks[k], k, j, n)
<1> DEFINE boot == a.bootInstructions
           b == blocks[k]
<1>1. /\ boot \in Seq(Blocks(Names(t), Codes(t))) /\ \A i \in Codes(t) : i.length \in Nat
  BY PartsOfAccepted
<1>2. c \in 1 .. Len(boot) /\ b.instrs = boot[c].instrs /\ b.addr = bootStartAddr
  BY DEF BootAt, BlocksAre
<1>3. IsText(t) /\ IsAt(t, ".boot", boot, c, j, n) /\ j \in 1 .. Len(boot[c].instrs)
  BY <1>2 DEF AcceptedText
<1>4. BlockAt(boot, c) = 0
  <2>1. ASSUME NEW m \in 1 .. c - 1 PROVE boot[m].instrs = << >>
    <3>1. m \in DOMAIN boot /\ c \in DOMAIN boot /\ m # c
      BY <1>1, <1>2
    <3>2. boot[c].instrs # << >>
      <4>1. boot[c] \in Blocks(Names(t), Codes(t))
        BY <1>1, <1>2
      <4>2. boot[c].instrs \in Seq(Codes(t))
        BY <4>1 DEF Blocks
      <4>3. Len(boot[c].instrs) >= 1
        <5> DEFINE N == Len(boot[c].instrs)
        <5>1. N \in Nat /\ j \in 1 .. N
          BY <1>3, <4>2
        <5> HIDE DEF N
        <5>2. N >= 1
          BY <5>1
        <5> QED
          BY <5>2 DEF N
      <4>4. Len(<< >>) = 0
        OBVIOUS
      <4> QED
        BY <4>3, <4>4
    <3> QED
      BY <3>1, <3>2 DEF OneBoot
  <2> HIDE DEF boot
  <2> QED
    BY <1>1, <1>2, <2>1, BehindEmpty
<1>5. /\ b.addr = (IF ".boot" = ".boot" THEN bootStartAddr ELSE codeStartAddr) + BlockAt(boot, c)
      /\ BlockAt(boot, c) \in Nat
  BY <1>2, <1>4, AreasAssumption
<1> HIDE DEF boot, b
<1>6. LineInBlock(t, a, b, k, j, n)
  BY <1>1, <1>2, <1>3, <1>5, PlacedIsSlot
<1> QED
  BY <1>6 DEF b

\* Blocks and lines that are where the listing has them: all, if one block of the boot
\* section at most has instructions, and those outside the boot section in any case.
SureBlock(a, k) == OneBoot(a) \/ ~ \E c : BootAt(a, c, k)
SureLine(t, a, n) == OneBoot(a) \/ AreaOf(t, n) # ".boot"

\* The blocks of an area have lines, and its lines blocks.
LEMMA AreaPlaced ==
  ASSUME NEW t, NEW begun, NEW new, NEW a, AcceptedText(t, begun, new, a),
         NEW area, NEW blocks, \/ area = ".boot" /\ blocks = a.bootInstructions
                               \/ area = "program" /\ blocks = a.midInstrDict
  PROVE  /\ DOMAIN blocks = 1 .. Len(blocks)
         /\ \A c \in DOMAIN blocks : DOMAIN blocks[c].instrs = 1 .. Len(blocks[c].instrs)
         /\ LinesPlaced(t, area, Len(t), blocks) /\ SlotsPlaced(t, area, Len(t), blocks)
<1>1. blocks \in Seq(Blocks(Names(t), Codes(t)))
  BY PartsOfAccepted
<1>2. Listed(t, Len(t), a)
  BY DEF AcceptedText
<1>3. LinesPlaced(t, area, Len(t), blocks) /\ SlotsPlaced(t, area, Len(t), blocks)
  BY <1>2 DEF Listed, Placed
<1>4. DOMAIN blocks = 1 .. Len(blocks)
  BY <1>1
<1>5. ASSUME NEW c \in DOMAIN blocks
      PROVE  DOMAIN blocks[c].instrs = 1 .. Len(blocks[c].instrs)
  <2>1. blocks[c] \in Blocks(Names(t), Codes(t))
    BY <1>1
  <2>2. blocks[c].instrs \in Seq(Codes(t))
    BY <2>1 DEF Blocks
  <2> QED
    BY <2>2
<1> QED
  BY <1>3, <1>4, <1>5

\* Every instruction of a block of the file is a line.
LEMMA BlockHasLines ==
  ASSUME NEW t, NEW begun, NEW new, NEW a, AcceptedText(t, begun, new, a),
         NEW blocks, BlocksAre(a, blocks), NEW k \in 1 .. Len(blocks), SureBlock(a, k),
         NEW j \in 1 .. Len(blocks[k].instrs)
  PROVE  \E n : LineInBlock(t, a, blocks[k], k, j, n)
<1>1. ASSUME NEW v, VectorAt(a, v, k) PROVE \E n : LineInBlock(t, a, blocks[k], k, j, n)
  <2>1. PICK n : VectorLine(t, a, v, n)
    BY <1>1, VectorLines DEF VectorAt
  <2>2. Len(blocks[k].instrs) = 1 /\ LineInBlock(t, a, blocks[k], k, 1, n)
    BY <1>1, <2>1, VectorSlot
  <2>3. j = 1
    BY <2>2
  <2> QED
    BY <2>2, <2>3
<1>2. ASSUME NEW c, ProgramAt(a, c, k) PROVE \E n : LineInBlock(t, a, blocks[k], k, j, n)
  <2> DEFINE mid == a.midInstrDict
  <2>1. blocks[k].instrs = mid[c].instrs /\ c \in 1 .. Len(mid)
    BY <1>2 DEF BlocksAre, ProgramAt
  <2>2. /\ DOMAIN mid = 1 .. Len(mid)
        /\ \A b \in DOMAIN mid : DOMAIN mid[b].instrs = 1 .. Len(mid[b].instrs)
        /\ SlotsPlaced(t, "program", Len(t), mid)
    BY AreaPlaced
  <2>3. c \in DOMAIN mid /\ j \in DOMAIN mid[c].instrs
    BY <2>1, <2>2
  <2>4. PICK n \in 1 .. Len(t) : IsAt(t, "program", mid, c, j, n)
    BY <2>2, <2>3 DEF SlotsPlaced
  <2>5. LineInBlock(t, a, blocks[k], k, j, n)
    BY <1>2, <2>4, ProgramSlot
  <2> QED
    BY <2>5
<1>3. ASSUME NEW c, BootAt(a, c, k) PROVE \E n : LineInBlock(t, a, blocks[k], k, j, n)
  <2> DEFINE boot == a.bootInstructions
  <2>1. blocks[k].instrs = boot[c].instrs /\ c \in 1 .. Len(boot)
    BY <1>3 DEF BlocksAre, BootAt
  <2>2. /\ DOMAIN boot = 1 .. Len(boot)
        /\ \A b \in DOMAIN boot : DOMAIN boot[b].instrs = 1 .. Len(boot[b].instrs)
        /\ SlotsPlaced(t, ".boot", Len(t), boot)
    BY AreaPlaced
  <2>3. c \in DOMAIN boot /\ j \in DOMAIN boot[c].instrs
    BY <2>1, <2>2
  <2>4. PICK n \in 1 .. Len(t) : IsAt(t, ".boot", boot, c, j, n)
    BY <2>2, <2>3 DEF SlotsPlaced
  <2>5. OneBoot(a)
    BY <1>3 DEF SureBlock
  <2>6. LineInBlock(t, a, blocks[k], k, j, n)
    BY <1>3, <2>4, <2>5, BootSlot
  <2> QED
    BY <2>6
<1>4. (\E b : BootAt(a, b, k)) \/ (\E v : VectorAt(a, v, k)) \/ (\E b : ProgramAt(a, b, k))
  BY DEF BlocksAre
<1> QED
  BY <1>1, <1>2, <1>3, <1>4

\* Every line that counts is in a block of the file.
LEMMA LineHasBlock ==
  ASSUME NEW t, NEW begun, NEW new, NEW a, AcceptedText(t, begun, new, a),
         NEW blocks, BlocksAre(a, blocks), NEW n \in LiveLines(t), SureLine(t, a, n)
  PROVE  \E k \in 1 .. Len(blocks) : \E j : LineInBlock(t, a, blocks[k], k, j, n)
<1>1. n \in 1 .. Len(t) /\ t[n].kind = "instr"
  BY PartsOfAccepted DEF LiveLines, InstrLines
<1>2. CASE IsVectorLine(t, n)
  <2>1. PICK v \in 1 .. Len(a.excpVectors) : VectorLine(t, a, v, n)
    BY <1>2, VectorLines
  <2> DEFINE k == Len(a.bootInstructions) + v
  <2>2. VectorAt(a, v, k)
    BY DEF VectorAt
  <2> HIDE DEF k
  <2>3. LineInBlock(t, a, blocks[k], k, 1, n)
    BY <2>1, <2>2, VectorSlot
  <2>4. k \in 1 .. Len(blocks)
    BY <2>2 DEF BlocksAre
  <2> QED
    BY <2>3, <2>4
<1>3. CASE InArea(t, "program", n)
  <2> DEFINE mid == a.midInstrDict
  <2>2. /\ DOMAIN mid = 1 .. Len(mid)
        /\ \A b \in DOMAIN mid : DOMAIN mid[b].instrs = 1 .. Len(mid[b].instrs)
        /\ LinesPlaced(t, "program", Len(t), mid)
    BY AreaPlaced
  <2>3. PICK c \in DOMAIN mid : \E j \in DOMAIN mid[c].instrs : IsAt(t, "program", mid, c, j, n)
    BY <1>1, <1>3, <2>2 DEF LinesPlaced
  <2>4. PICK j \in DOMAIN mid[c].instrs : IsAt(t, "program", mid, c, j, n)
    BY <2>3
  <2> DEFINE k == Len(a.bootInstructions) + Len(a.excpVectors) + c
  <2>5. ProgramAt(a, c, k)
    BY <2>2 DEF ProgramAt
  <2> HIDE DEF k
  <2>6. k \in 1 .. Len(blocks) /\ blocks[k].instrs = mid[c].instrs
    BY <2>5 DEF BlocksAre
  <2>7. j \in 1 .. Len(blocks[k].instrs)
    BY <2>2, <2>6
  <2>8. LineInBlock(t, a, blocks[k], k, j, n)
    BY <1>1, <2>4, <2>5, <2>7, ProgramSlot
  <2> QED
    BY <2>6, <2>8
<1>4. CASE InArea(t, ".boot", n)
  <2> DEFINE boot == a.bootInstructions
  <2>1. OneBoot(a)
    BY <1>4 DEF SureLine, InArea
  <2>2. /\ DOMAIN boot = 1 .. Len(boot)
        /\ \A b \in DOMAIN boot : DOMAIN boot[b].instrs = 1 .. Len(boot[b].instrs)
        /\ LinesPlaced(t, ".boot", Len(t), boot)
    BY AreaPlaced
  <2>3. PICK c \in DOMAIN boot : \E j \in DOMAIN boot[c].instrs : IsAt(t, ".boot", boot, c, j, n)
    BY <1>1, <1>4, <2>2 DEF LinesPlaced
  <2>4. PICK j \in DOMAIN boot[c].instrs : IsAt(t, ".boot", boot, c, j, n)
    BY <2>3
  <2>5. BootAt(a, c, c)
    BY <2>2 DEF BootAt
  <2>6. c \in 1 .. Len(blocks) /\ blocks[c].instrs = boot[c].instrs
    BY <2>5 DEF BlocksAre
  <2>7. j \in 1 .. Len(blocks[c].instrs)
    BY <2>2, <2>6
  <2>8. LineInBlock(t, a, blocks[c], c, j, n)
    BY <1>1, <2>1, <2>4, <2>5, <2>7, BootSlot
  <2> QED
    BY <2>6, <2>8
<1>5. IsVectorLine(t, n) \/ InArea(t, "program", n) \/ InArea(t, ".boot", n)
  <2> DEFINE s == SectionOf(t, n)
  <2>1. /\ InArea(t, ".boot", n) <=> t[n].kind = "instr" /\ s = ".boot"
        /\ InArea(t, "program", n) <=> t[n].kind = "instr" /\ s # ".boot" /\ s \notin DOMAIN VectorAddr
    BY AreaIs
  <2> QED
    BY <1>1, <2>1 DEF IsVectorLine
<1> QED
  BY <1>2, <1>3, <1>4, <1>5

-----------------------------------------------------------------------------
(* Cells of lines *)

\* The words of an area up to a line are no fewer than up to an earlier one.
LEMMA WordsGrow ==
  ASSUME NEW t, IsText(t), NEW area, NEW q \in 1 .. Len(t) + 1, NEW p \in 1 .. q
  PROVE  /\ AreaWords(t, area, p) \in Nat /\ AreaWords(t, area, q) \in Nat
         /\ AreaWords(t, area, p) <= AreaWords(t, area, q)
<1> DEFINE N == Len(t)
           A(n) == AreaWords(t, area, n)
           S == {k \in 0 .. Len(t) : A(k + 1) \in Nat /\ \A n \in 1 .. k + 1 : A(n) \in Nat /\ A(n) <= A(k + 1)}
<1>1. N \in Nat
  BY DEF IsText
<1>2. A(1) = 0
  BY NoWords
<1>3. \A k \in 0 .. N - 1 : A(k + 1) \in Nat /\ A(k + 2) \in Nat /\ A(k + 1) <= A(k + 2)
  <2> TAKE k \in 0 .. N - 1
  <2> DEFINE x == WordsIn(t, area, k + 1)
  <2>1. A(k + 1) \in Nat /\ x \in Nat /\ A(k + 2) = A(k + 1) + x
    BY AreaWordsStep
  <2> HIDE DEF A, x
  <2> QED
    BY <2>1
<1> HIDE DEF A
<1>4. 0 \in S
  BY <1>1, <1>2
<1>5. ASSUME NEW k \in 0 .. N - 1, k \in S PROVE k + 1 \in S
  <2>1. k + 1 \in 0 .. N /\ (k + 1) + 1 = k + 2
    BY <1>1
  <2>2. A(k + 1) \in Nat /\ A(k + 2) \in Nat /\ A(k + 1) <= A(k + 2)
    BY <1>3
  <2>3. ASSUME NEW n \in 1 .. k + 2 PROVE A(n) \in Nat /\ A(n) <= A(k + 2)
    <3>1. CASE n = k + 2
      BY <2>2, <3>1
    <3>2. CASE n # k + 2
      <4>1. n \in 1 .. k + 1
        BY <1>1, <3>2
      <4>2. A(n) \in Nat /\ A(n) <= A(k + 1)
        BY <1>5, <4>1
      <4> QED
        BY <2>2, <4>2
    <3> QED
      BY <3>1, <3>2
  <2> QED
    BY <2>1, <2>2, <2>3
<1>6. \A k \in 0 .. N : k \in S
  <2> HIDE DEF S, N
  <2>1. \A k \in 0 .. N - 1 : k \in S => k + 1 \in S
    BY <1>5
  <2> QED
    BY <1>1, <1>4, <2>1, InductionTo
<1>7. q - 1 \in 0 .. N /\ (q - 1) + 1 = q
  BY <1>1
<1>8. q - 1 \in S
  BY <1>6, <1>7
<1>9. A(q) \in Nat /\ \A n \in 1 .. q : A(n) \in Nat /\ A(n) <= A(q)
  BY <1>7, <1>8
<1> QED
  BY <1>9 DEF A

\* The words of a line that is written, and where it is.
LEMMA LiveLineIs ==
  ASSUME NEW t, NEW begun, NEW new, NEW a, AcceptedText(t, begun, new, a), NEW n \in LiveLines(t)
  PROVE  /\ n \in 1 .. Len(t) /\ t[n].kind = "instr" /\ WordsOf(t[n]) \in Nat
         /\ InstrWords(new, Encoded(t[n])) \in Seq(Nat)
         /\ Len(InstrWords(new, Encoded(t[n]))) = WordsOf(t[n])
         /\ Unsolved(new, Encoded(t[n])) = {}
         /\ IsVectorLine(t, n) \/ InArea(t, "program", n) \/ InArea(t, ".boot", n)
<1>1. n \in 1 .. Len(t) /\ n \in DOMAIN t /\ t[n].kind = "instr"
  BY PartsOfAccepted DEF LiveLines, InstrLines
<1>2. IsText(t) /\ IsLine(t[n]) /\ Readable(t[n])
  BY <1>1 DEF AcceptedText, IsText, LegalSoFar
<1>3. WordsOf(t[n]) \in Nat /\ Encoded(t[n]).length = 2 * WordsOf(t[n])
  BY <1>1, <1>2, LengthIsWords
<1>4. Encoded(t[n]) \in Codes(t)
  BY <1>1, <1>2 DEF Codes
<1>5. Unsolved(new, Encoded(t[n])) = {}
  <2>1. Holds(t, begun, Len(t), a) /\ \A i \in InstrsToWrite(a) : Unsolved(new, i) = {}
    BY DEF AcceptedText
  <2>2. InstrsToWrite(a) = {Encoded(t[m]) : m \in LiveLines(t)}
    BY <1>2, <2>1, WrittenAreLive
  <2> QED
    BY <2>1, <2>2
<1>6. \A l \in DOMAIN new : new[l] \in Nat
  BY PartsOfAccepted
<1>7. /\ InstrWords(new, Encoded(t[n])) \in Seq(Nat)
      /\ 2 * Len(InstrWords(new, Encoded(t[n]))) = Encoded(t[n]).length
  BY <1>2, <1>4, <1>5, <1>6, WordsWritten
<1>8. Len(InstrWords(new, Encoded(t[n]))) = WordsOf(t[n])
  <2> DEFINE w == InstrWords(new, Encoded(t[n]))
             x == Len(w)
             y == WordsOf(t[n])
             z == Encoded(t[n]).length
  <2>1. x \in Nat
    BY <1>7
  <2>2. y \in Nat /\ z = 2 * y /\ 2 * x = z
    BY <1>3, <1>7
  <2> HIDE DEF x, y, z
  <2>3. x = y
    BY <2>1, <2>2
  <2> QED
    BY <2>3 DEF x, y
<1>9. IsVectorLine(t, n) \/ InArea(t, "program", n) \/ InArea(t, ".boot", n)
  <2> DEFINE s == SectionOf(t, n)
  <2>1. /\ InArea(t, ".boot", n) <=> t[n].kind = "instr" /\ s = ".boot"
        /\ InArea(t, "program", n) <=> t[n].kind = "instr" /\ s # ".boot" /\ s \notin DOMAIN VectorAddr
    BY AreaIs
  <2> QED
    BY <1>1, <2>1 DEF IsVectorLine
<1> QED
  BY <1>1, <1>3, <1>5, <1>7, <1>8, <1>9

\* The cells of a line lie between its address and the next line's.
CellsBetween(n, d, low, high) == d \in Nat /\ low \in Nat /\ high \in Nat /\ low <= d /\ d + 2 <= high

\* The cells of some words that begin and end in between.
LEMMA CellsFrom ==
  ASSUME NEW t, NEW begun, NEW new, NEW a, AcceptedText(t, begun, new, a),
         NEW n, NEW i, NEW d, Covers(t, new, n, i, d), AddressOf(t, n) \in Nat
  PROVE  CellsBetween(n, d, AddressOf(t, n), AddressOf(t, n) + 2 * WordsOf(t[n]))
<1> DEFINE w == InstrWords(new, Encoded(t[n]))
           x == WordsOf(t[n])
           y == AddressOf(t, n)
<1>1. n \in LiveLines(t) /\ i \in 1 .. Len(w) /\ d = y + 2 * (i - 1)
  BY DEF Covers, CellAt
<1>2. x \in Nat /\ Len(w) = x
  BY <1>1, LiveLineIs
<1>3. y \in Nat
  OBVIOUS
<1> HIDE DEF w, x, y
<1>4. CellsBetween(n, d, y, y + 2 * x)
  BY <1>1, <1>2, <1>3 DEF CellsBetween
<1> QED
  BY <1>4 DEF x, y

\* In the program and in the boot section a line ends where the next one begins.
LEMMA AreaCells ==
  ASSUME NEW t, NEW begun, NEW new, NEW a, AcceptedText(t, begun, new, a),
         NEW n, NEW i, NEW d, Covers(t, new, n, i, d), NEW area, InArea(t, area, n),
         NEW start, \/ area = ".boot" /\ start = bootStartAddr
                    \/ area = "program" /\ start = codeStartAddr
  PROVE  CellsBetween(n, d, start + 2 * AreaWords(t, area, n), start + 2 * AreaWords(t, area, n + 1))
<1>1. n \in LiveLines(t)
  BY DEF Covers
<1>2. n \in 1 .. Len(t) /\ t[n].kind = "instr"
  BY <1>1, LiveLineIs
<1>3. AreaOf(t, n) = area
  BY DEF InArea
<1>4. AddressOf(t, n) = start + 2 * AreaWords(t, area, n)
  BY <1>3, AddressIs
<1>5. IsText(t) /\ Len(t) \in Nat
  BY DEF AcceptedText, IsText
<1> DEFINE k == n - 1
<1>6. k \in 0 .. Len(t) - 1 /\ k + 1 = n /\ k + 2 = n + 1
  BY <1>2, <1>5
<1> HIDE DEF k
<1>7. /\ AreaWords(t, area, n) \in Nat
      /\ AreaWords(t, area, n + 1) = AreaWords(t, area, n) + WordsIn(t, area, n)
  BY <1>5, <1>6, AreaWordsStep
<1>8. WordsIn(t, area, n) = WordsOf(t[n])
  BY <1>2, <1>3 DEF WordsIn
<1> DEFINE p == AreaWords(t, area, n)
           q == AreaWords(t, area, n + 1)
           x == WordsOf(t[n])
           y == AddressOf(t, n)
<1>9. start \in Nat
  BY AreasAssumption
<1>10. y \in Nat
  BY <1>4, <1>7, <1>9
<1>11. CellsBetween(n, d, y, y + 2 * x)
  BY <1>10, CellsFrom
<1>12. x \in Nat
  BY <1>1, LiveLineIs
<1>13. y = start + 2 * p /\ p \in Nat /\ q = p + x
  BY <1>4, <1>7, <1>8
<1> HIDE DEF p, q, x, y
<1>14. y + 2 * x = start + 2 * q
  BY <1>9, <1>12, <1>13
<1>15. CellsBetween(n, d, start + 2 * p, start + 2 * q)
  BY <1>11, <1>13, <1>14
<1> QED
  BY <1>15 DEF p, q

\* The cells of a vector lie below the program, those of the program below the boot section.
LEMMA KindOfCell ==
  ASSUME NEW t, NEW begun, NEW new, NEW a, AcceptedText(t, begun, new, a), VectorsFit(t),
         NEW n, NEW i, NEW d, Covers(t, new, n, i, d)
  PROVE  /\ d \in Nat
         /\ IsVectorLine(t, n) => d < codeStartAddr
         /\ InArea(t, "program", n) => codeStartAddr <= d /\ d < bootStartAddr
         /\ InArea(t, ".boot", n) => bootStartAddr <= d
<1>1. n \in LiveLines(t)
  BY DEF Covers
<1>2. n \in 1 .. Len(t) /\ WordsOf(t[n]) \in Nat
      /\ (IsVectorLine(t, n) \/ InArea(t, "program", n) \/ InArea(t, ".boot", n))
  BY <1>1, LiveLineIs
<1>3. ASSUME IsVectorLine(t, n) PROVE d \in Nat /\ d < codeStartAddr
  <2>1. AreaOf(t, n) = SectionOf(t, n) /\ AreaOf(t, n) \in DOMAIN VectorAddr
    <3>1. AreaOf(t, n) = SectionOf(t, n)
      BY <1>3, AreaIs
    <3> QED
      BY <1>3, <3>1 DEF IsVectorLine
  <2>2. AddressOf(t, n) = VectorAddr[AreaOf(t, n)]
    BY <2>1, AddressIs
  <2>3. AddressOf(t, n) \in Nat
    BY <2>1, <2>2 DEF VectorAddr
  <2>4. CellsBetween(n, d, AddressOf(t, n), AddressOf(t, n) + 2 * WordsOf(t[n]))
    BY <2>3, CellsFrom
  <2>5. AddressOf(t, n) + 2 * WordsOf(t[n]) <= codeStartAddr
    BY <1>1, <2>1 DEF VectorsFit
  <2> DEFINE high == AddressOf(t, n) + 2 * WordsOf(t[n])
  <2>6. d \in Nat /\ high \in Nat /\ d + 2 <= high /\ high <= codeStartAddr
    BY <2>4, <2>5 DEF CellsBetween
  <2> HIDE DEF high
  <2> QED
    BY <2>6, AreasAssumption
<1>4. ASSUME InArea(t, "program", n)
      PROVE  d \in Nat /\ codeStartAddr <= d /\ d < bootStartAddr
  <2> DEFINE p == AreaWords(t, "program", n)
             q == AreaWords(t, "program", n + 1)
             r == AreaWords(t, "program", Len(t) + 1)
  <2>1. CellsBetween(n, d, codeStartAddr + 2 * p, codeStartAddr + 2 * q)
    BY <1>4, AreaCells
  <2>2. IsText(t) /\ Len(t) \in Nat
    BY DEF AcceptedText, IsText
  <2>3. n + 1 \in 1 .. Len(t) + 1 /\ Len(t) + 1 \in 1 .. Len(t) + 1 /\ n \in 1 .. n + 1
        /\ n + 1 \in 1 .. (Len(t) + 1)
    BY <1>2, <2>2
  <2>4. p \in Nat /\ q \in Nat
    BY <2>2, <2>3, WordsGrow
  <2>5. r \in Nat /\ q <= r
    BY <2>2, <2>3, WordsGrow
  <2>6. codeStartAddr + 2 * r <= bootStartAddr
    <3>1. SizeOf(a.midInstrDict) = 2 * r
      BY DEF AcceptedText, Holds
    <3>2. ~(codeStartAddr + SizeOf(a.midInstrDict) > bootStartAddr)
      BY DEF AcceptedText, TooLarge
    <3> HIDE DEF r
    <3>3. ~(codeStartAddr + 2 * r > bootStartAddr)
      BY <3>1, <3>2
    <3> QED
      BY <2>5, <3>3, AreasAssumption
  <2>7. d \in Nat /\ codeStartAddr + 2 * p <= d /\ d + 2 <= codeStartAddr + 2 * q
    BY <2>1 DEF CellsBetween
  <2> HIDE DEF p, q, r
  <2> QED
    BY <2>4, <2>5, <2>6, <2>7, AreasAssumption
<1>5. ASSUME InArea(t, ".boot", n) PROVE d \in Nat /\ bootStartAddr <= d
  <2> DEFINE p == AreaWords(t, ".boot", n)
             q == AreaWords(t, ".boot", n + 1)
  <2>1. CellsBetween(n, d, bootStartAddr + 2 * p, bootStartAddr + 2 * q)
    BY <1>5, AreaCells
  <2>2. IsText(t) /\ Len(t) \in Nat
    BY DEF AcceptedText, IsText
  <2>3. n + 1 \in 1 .. Len(t) + 1 /\ n \in 1 .. n + 1
    BY <1>2, <2>2
  <2>4. p \in Nat
    BY <2>2, <2>3, WordsGrow
  <2>5. d \in Nat /\ bootStartAddr + 2 * p <= d
    BY <2>1 DEF CellsBetween
  <2> HIDE DEF p, q
  <2> QED
    BY <2>4, <2>5, AreasAssumption
<1> QED
  BY <1>2, <1>3, <1>4, <1>5

\* Two lines of the program, or of the boot section, have no cell in common.
LEMMA LaterLine ==
  ASSUME NEW t, NEW begun, NEW new, NEW a, AcceptedText(t, begun, new, a),
         NEW n, NEW i, NEW d, Covers(t, new, n, i, d),
         NEW m, NEW j, Covers(t, new, m, j, d),
         NEW area \in {".boot", "program"}, InArea(t, area, n), InArea(t, area, m)
  PROVE  ~(n < m)
<1> DEFINE start == IF area = ".boot" THEN bootStartAddr ELSE codeStartAddr
           p == AreaWords(t, area, n + 1)
           q == AreaWords(t, area, m)
<1>1. n \in 1 .. Len(t) /\ m \in 1 .. Len(t)
  <2>1. n \in LiveLines(t) /\ m \in LiveLines(t)
    BY DEF Covers
  <2> QED
    BY <2>1, LiveLineIs
<1>2. IsText(t) /\ Len(t) \in Nat
  BY DEF AcceptedText, IsText
<1>3. \/ area = ".boot" /\ start = bootStartAddr
      \/ area = "program" /\ start = codeStartAddr
  OBVIOUS
<1>4. start \in Nat
  BY AreasAssumption
<1> HIDE DEF start
<1>5. CellsBetween(n, d, start + 2 * AreaWords(t, area, n), start + 2 * p)
  BY <1>3, AreaCells
<1>6. CellsBetween(m, d, start + 2 * q, start + 2 * AreaWords(t, area, m + 1))
  BY <1>3, AreaCells
<1>7. d \in Nat /\ d + 2 <= start + 2 * p /\ start + 2 * q <= d
  BY <1>5, <1>6 DEF CellsBetween
<1> SUFFICES ASSUME n < m PROVE FALSE
  OBVIOUS
<1>8. m \in 1 .. Len(t) + 1 /\ n + 1 \in 1 .. m
  BY <1>1, <1>2
<1>9. p \in Nat /\ q \in Nat /\ p <= q
  BY <1>2, <1>8, WordsGrow
<1> HIDE DEF p, q
<1> QED
  BY <1>4, <1>7, <1>9

\* Lines with a cell in common are of different vectors.
LEMMA Overlap ==
  ASSUME NEW t, NEW begun, NEW new, NEW a, AcceptedText(t, begun, new, a), VectorsFit(t),
         NEW n, NEW i, NEW d, Covers(t, new, n, i, d),
         NEW m, NEW j, Covers(t, new, m, j, d), n # m
  PROVE  IsVectorLine(t, n) /\ IsVectorLine(t, m) /\ SectionOf(t, n) # SectionOf(t, m)
<1>1. n \in LiveLines(t) /\ m \in LiveLines(t)
  BY DEF Covers
<1>2. n \in 1 .. Len(t) /\ m \in 1 .. Len(t) /\ t[n].kind = "instr" /\ t[m].kind = "instr"
  BY <1>1, LiveLineIs
<1>3. n \in Nat /\ m \in Nat
  BY <1>2
<1>4. ASSUME NEW area \in {".boot", "program"} PROVE ~(InArea(t, area, n) /\ InArea(t, area, m))
  <2> SUFFICES ASSUME InArea(t, area, n), InArea(t, area, m) PROVE FALSE
    OBVIOUS
  <2>1. ~(n < m)
    BY LaterLine
  <2>2. ~(m < n)
    BY LaterLine
  <2> QED
    BY <1>3, <2>1, <2>2
<1>5. /\ d \in Nat
      /\ IsVectorLine(t, n) => d < codeStartAddr
      /\ InArea(t, "program", n) => codeStartAddr <= d /\ d < bootStartAddr
      /\ InArea(t, ".boot", n) => bootStartAddr <= d
  BY KindOfCell
<1>6. /\ IsVectorLine(t, m) => d < codeStartAddr
      /\ InArea(t, "program", m) => codeStartAddr <= d /\ d < bootStartAddr
      /\ InArea(t, ".boot", m) => bootStartAddr <= d
  BY KindOfCell
<1>7. /\ IsVectorLine(t, n) \/ InArea(t, "program", n) \/ InArea(t, ".boot", n)
      /\ IsVectorLine(t, m) \/ InArea(t, "program", m) \/ InArea(t, ".boot", m)
  BY <1>1, LiveLineIs
<1>8. IsVectorLine(t, n) /\ IsVectorLine(t, m)
  <2>1. ~(InArea(t, "program", n) /\ InArea(t, "program", m))
    BY <1>4
  <2>2. ~(InArea(t, ".boot", n) /\ InArea(t, ".boot", m))
    BY <1>4
  <2> QED
    BY <1>5, <1>6, <1>7, <2>1, <2>2, AreasAssumption
<1>9. SectionOf(t, n) # SectionOf(t, m)
  <2> SUFFICES ASSUME SectionOf(t, n) = SectionOf(t, m) PROVE FALSE
    OBVIOUS
  <2>1. n \in InstrLines(t) /\ m \in InstrLines(t)
    BY <1>1 DEF LiveLines
  <2>2. m <= n
    BY <1>1, <1>8, <2>1 DEF LiveLines, IsVectorLine
  <2>3. n <= m
    BY <1>1, <1>8, <2>1 DEF LiveLines, IsVectorLine
  <2> QED
    BY <1>3, <2>2, <2>3
<1> QED
  BY <1>8, <1>9

-----------------------------------------------------------------------------
(* The memory of the listing *)

\* The address of a line that counts is a number.
LEMMA AddressIsNat ==
  ASSUME NEW t, NEW begun, NEW new, NEW a, AcceptedText(t, begun, new, a), NEW n \in LiveLines(t)
  PROVE  AddressOf(t, n) \in Nat
<1>1. /\ n \in 1 .. Len(t)
      /\ IsVectorLine(t, n) \/ InArea(t, "program", n) \/ InArea(t, ".boot", n)
  BY LiveLineIs
<1>2. IsText(t) /\ Len(t) \in Nat
  BY DEF AcceptedText, IsText
<1>3. n \in 1 .. Len(t) + 1 /\ n \in 1 .. n
  BY <1>1, <1>2
<1>4. AreaWords(t, ".boot", n) \in Nat /\ AreaWords(t, "program", n) \in Nat
  BY <1>2, <1>3, WordsGrow
<1>5. CASE IsVectorLine(t, n)
  <2>1. AreaOf(t, n) = SectionOf(t, n)
    BY <1>5, AreaIs
  <2>2. AreaOf(t, n) \in DOMAIN VectorAddr
    BY <1>5, <2>1 DEF IsVectorLine
  <2>3. AddressOf(t, n) = VectorAddr[AreaOf(t, n)]
    BY <2>2, AddressIs
  <2> QED
    BY <2>2, <2>3 DEF VectorAddr
<1>6. CASE InArea(t, ".boot", n)
  <2>1. AddressOf(t, n) = bootStartAddr + 2 * AreaWords(t, ".boot", n)
    BY <1>6, AddressIs DEF InArea
  <2> QED
    BY <1>4, <2>1, AreasAssumption
<1>7. CASE InArea(t, "program", n)
  <2>1. AddressOf(t, n) = codeStartAddr + 2 * AreaWords(t, "program", n)
    BY <1>7, AddressIs DEF InArea
  <2> QED
    BY <1>4, <2>1, AreasAssumption
<1> QED
  BY <1>1, <1>5, <1>6, <1>7

\* The memory of the listing: the cells of the live lines, and in each the word of the last
\* one of them.
CoveredLast(t, new, n, i, d) ==
  Covers(t, new, n, i, d) /\ \A m, j : Covers(t, new, m, j, d) => m <= n
MemoryIs(t, new, mem) ==
  /\ mem = [d \in DOMAIN mem |-> mem[d]]
  /\ \A d : (d \in DOMAIN mem) <=> (\E n, i : Covers(t, new, n, i, d))
  /\ \A n, i, d : CoveredLast(t, new, n, i, d) => mem[d] = InstrWords(new, Encoded(t[n]))[i]

\* The memory of the listing is that.
LEMMA ListedMemory ==
  ASSUME NEW t, NEW begun, NEW new, NEW a, AcceptedText(t, begun, new, a),
         NEW values,
         \A n \in LiveLines(t) : InstrWords(values, Encoded(t[n])) = InstrWords(new, Encoded(t[n])),
         NEW mem, mem = MemoryOf(t, values)
  PROVE  MemoryIs(t, new, mem)
<1> DEFINE L == LiveLines(t)
           at == [n \in LiveLines(t) |-> AddressOf(t, n)]
           words == [n \in LiveLines(t) |-> InstrWords(values, Encoded(t[n]))]
           cellsOf(n) == {at[n] + 2 * (k - 1) : k \in DOMAIN words[n]}
           last(d) == Max({m \in LiveLines(t) : d \in cellsOf(m)})
<1>1. mem = [d \in UNION {cellsOf(n) : n \in L} |->
               words[last(d)][(d - at[last(d)]) \div 2 + 1]]
  BY DEF MemoryOf
<1>2. ASSUME NEW n \in L
      PROVE  /\ at[n] = AddressOf(t, n) /\ words[n] = InstrWords(new, Encoded(t[n]))
             /\ n \in Nat /\ DOMAIN words[n] = 1 .. Len(InstrWords(new, Encoded(t[n])))
  <2>1. at[n] = AddressOf(t, n) /\ words[n] = InstrWords(new, Encoded(t[n]))
    OBVIOUS
  <2> HIDE DEF at, words
  <2>2. n \in 1 .. Len(t) /\ InstrWords(new, Encoded(t[n])) \in Seq(Nat)
    BY LiveLineIs
  <2> QED
    BY <2>1, <2>2
<1> HIDE DEF at, words
<1>3. ASSUME NEW n, NEW d
      PROVE  (n \in L /\ d \in cellsOf(n)) <=> (\E i : Covers(t, new, n, i, d))
  <2>1. ASSUME n \in L PROVE d \in cellsOf(n) <=> (\E i : Covers(t, new, n, i, d))
    <3> DEFINE w == InstrWords(new, Encoded(t[n]))
               y == AddressOf(t, n)
    <3>1. cellsOf(n) = {y + 2 * (k - 1) : k \in 1 .. Len(w)}
      BY <1>2, <2>1
    <3>2. \A i : Covers(t, new, n, i, d) <=> i \in 1 .. Len(w) /\ d = y + 2 * (i - 1)
      BY <2>1 DEF Covers, CellAt
    <3> HIDE DEF w, y, cellsOf
    <3> QED
      BY <3>1, <3>2
  <2>2. ASSUME n \notin L PROVE ~ \E i : Covers(t, new, n, i, d)
    BY <2>2 DEF Covers
  <2> QED
    BY <2>1, <2>2
<1> DEFINE D == UNION {cellsOf(n) : n \in L}
           value(d) == words[last(d)][(d - at[last(d)]) \div 2 + 1]
<1>4. mem = [d \in D |-> value(d)]
  BY <1>1
<1> HIDE DEF cellsOf
<1>5. \A d : d \in D <=> (\E n, i : Covers(t, new, n, i, d))
  BY <1>3
<1>6. ASSUME NEW n, NEW i, NEW d, CoveredLast(t, new, n, i, d)
      PROVE  d \in D /\ value(d) = InstrWords(new, Encoded(t[n]))[i]
  <2>1. Covers(t, new, n, i, d) /\ \A m, j : Covers(t, new, m, j, d) => m <= n
    BY <1>6 DEF CoveredLast
  <2> DEFINE S == {m \in L : d \in cellsOf(m)}
  <2>2. n \in S
    BY <1>3, <2>1
  <2>3. S \subseteq Int
    BY <1>2
  <2>4. \A m \in S : n >= m
    <3> TAKE m \in S
    <3>1. m \in L /\ d \in cellsOf(m)
      OBVIOUS
    <3>2. PICK j : Covers(t, new, m, j, d)
      BY <1>3, <3>1
    <3>3. m <= n
      BY <2>1, <3>2
    <3> QED
      BY <2>2, <2>3, <3>3
  <2>5. last(d) = Max(S)
    OBVIOUS
  <2> HIDE DEF last, S
  <2>6. last(d) = n
    <3>1. Max(S) = n
      BY <2>2, <2>3, <2>4, MaxIs
    <3> QED
      BY <2>5, <3>1
  <2>7. n \in L
    BY <2>1 DEF Covers
  <2>8. value(d) = InstrWords(new, Encoded(t[n]))[(d - AddressOf(t, n)) \div 2 + 1]
    BY <1>2, <2>6, <2>7
  <2>9. (d - AddressOf(t, n)) \div 2 + 1 = i
    <3> DEFINE y == AddressOf(t, n)
               w == InstrWords(new, Encoded(t[n]))
    <3>1. d = y + 2 * (i - 1) /\ i \in 1 .. Len(w)
      BY <2>1 DEF Covers, CellAt
    <3>2. y \in Nat
      BY <2>7, AddressIsNat
    <3>3. i \in Int
      BY <3>1
    <3> HIDE DEF y, w
    <3>4. d - y = 2 * (i - 1)
      BY <3>1, <3>2, <3>3
    <3>5. (2 * (i - 1)) \div 2 = i - 1
      BY <3>3
    <3>6. (d - y) \div 2 + 1 = i
      BY <3>3, <3>4, <3>5
    <3> QED
      BY <3>6 DEF y
  <2>10. d \in D
    BY <1>5, <2>1
  <2> HIDE DEF value
  <2> QED
    BY <2>8, <2>9, <2>10
<1> HIDE DEF D, value
<1>7. DOMAIN mem = D
  BY <1>4
<1>8. \A n, i, d : CoveredLast(t, new, n, i, d) => mem[d] = InstrWords(new, Encoded(t[n]))[i]
  <2> TAKE n, i, d
  <2> HAVE CoveredLast(t, new, n, i, d)
  <2>1. d \in D /\ value(d) = InstrWords(new, Encoded(t[n]))[i]
    BY <1>6
  <2>2. mem[d] = value(d)
    BY <1>4, <2>1
  <2> QED
    BY <2>1, <2>2
<1>9. mem = [d \in DOMAIN mem |-> mem[d]]
  BY <1>4
<1>10. \A d : (d \in DOMAIN mem) <=> (\E n, i : Covers(t, new, n, i, d))
  BY <1>5, <1>7
<1> QED
  BY <1>8, <1>9, <1>10 DEF MemoryIs

-----------------------------------------------------------------------------
(* The memory loaded *)

\* Some first numbers have a greatest.
LEMMA GreatestOf ==
  ASSUME NEW N \in Nat, NEW K, K \subseteq 1 .. N, K # {}
  PROVE  \E k \in K : \A m \in K : m <= k
<1> DEFINE T == {N - k : k \in K}
<1>1. T \subseteq Nat /\ T # {}
  <2>1. PICK k \in K : TRUE
    OBVIOUS
  <2>2. N - k \in T
    BY <2>1
  <2>3. ASSUME NEW y \in T PROVE y \in Nat
    <3>1. PICK m \in K : y = N - m
      OBVIOUS
    <3> QED
      BY <3>1
  <2> QED
    BY <2>2, <2>3
<1>2. PICK x \in T : \A y \in T : x <= y
  <2> HIDE DEF T
  <2> QED
    BY <1>1, LeastNatural
<1>3. PICK k \in K : x = N - k
  OBVIOUS
<1>4. \A m \in K : N - k <= N - m
  BY <1>2, <1>3
<1>5. \A m \in K : m <= k
  BY <1>4
<1> QED
  BY <1>5

\* A file of an accepted text, loaded, and the memory of its listing.
LoadedAndListed(t, begun, new, a, blocks, c, mem) ==
  /\ AcceptedText(t, begun, new, a) /\ VectorsFit(t) /\ BlocksAre(a, blocks)
  /\ CellsOf(AddrsOf(blocks), WordsOfAll(new, blocks), Len(blocks), c)
  /\ MemoryIs(t, new, mem)

\* The x-th word of the k-th block is in the cell d.
InCell(new, blocks, k, x, d) ==
  /\ k \in 1 .. Len(blocks) /\ x \in 1 .. Len(BlockWords(new, blocks[k].instrs))
  /\ d = CellAt(blocks[k].addr, x)

\* That word is the i-th of a line.
CellLine(t, new, a, blocks, k, x, n, i) ==
  /\ WordOfLine(t, new, blocks[k], x, n, i)
  /\ IsVectorLine(t, n) => \E v : VectorAt(a, v, k) /\ VectorLine(t, a, v, n)

\* The cells of the file, by its blocks.
LEMMA CellsByBlocks ==
  ASSUME NEW t, NEW begun, NEW new, NEW a, NEW blocks, NEW c, NEW mem,
         LoadedAndListed(t, begun, new, a, blocks, c, mem)
  PROVE  /\ \A d : (d \in DOMAIN c) <=> (\E k, x : InCell(new, blocks, k, x, d))
         /\ \A k, x, d : InCell(new, blocks, k, x, d)
                         /\ (\A m, y : InCell(new, blocks, m, y, d) => m <= k)
                           => c[d] = BlockWords(new, blocks[k].instrs)[x]
<1> DEFINE N == Len(blocks)
           ad == AddrsOf(blocks)
           W == WordsOfAll(new, blocks)
<1>1. N \in Nat /\ CellsOf(ad, W, N, c)
  BY DEF LoadedAndListed, BlocksAre
<1>2. ASSUME NEW k, NEW x, NEW d
      PROVE  InCell(new, blocks, k, x, d)
               <=> k \in 1 .. N /\ x \in 1 .. Len(W[k]) /\ d = CellAt(ad[k], x)
  <2>1. CASE k \in 1 .. N
    <3>1. ad[k] = blocks[k].addr /\ W[k] = BlockWords(new, blocks[k].instrs)
      BY <2>1 DEF AddrsOf, WordsOfAll
    <3> HIDE DEF ad, W
    <3> QED
      BY <3>1 DEF InCell
  <2>2. CASE k \notin 1 .. N
    BY <2>2 DEF InCell
  <2> QED
    BY <2>1, <2>2
<1>3. \A k \in 1 .. N : W[k] = BlockWords(new, blocks[k].instrs)
  BY DEF WordsOfAll
<1> HIDE DEF N, ad, W
<1>4. ASSUME NEW d PROVE (d \in DOMAIN c) <=> (\E k, x : InCell(new, blocks, k, x, d))
  <2>1. (d \in DOMAIN c) <=> (\E k \in 1 .. N : \E x \in 1 .. Len(W[k]) : d = CellAt(ad[k], x))
    BY <1>1 DEF CellsOf
  <2> QED
    BY <1>2, <2>1
<1>5. ASSUME NEW k, NEW x, NEW d, InCell(new, blocks, k, x, d),
             \A m, y : InCell(new, blocks, m, y, d) => m <= k
      PROVE  c[d] = BlockWords(new, blocks[k].instrs)[x]
  <2>1. k \in 1 .. N /\ x \in 1 .. Len(W[k]) /\ d = CellAt(ad[k], x)
    BY <1>2, <1>5
  <2>2. ASSUME NEW m \in k + 1 .. N, NEW y \in 1 .. Len(W[m]), CellAt(ad[m], y) = d
        PROVE  FALSE
    <3>1. m \in 1 .. N /\ ~(m <= k)
      BY <1>1, <2>1
    <3>2. InCell(new, blocks, m, y, d)
      BY <1>2, <2>2, <3>1
    <3> QED
      BY <1>5, <3>1, <3>2
  <2>3. \A m \in k + 1 .. N : \A y \in 1 .. Len(W[m]) : CellAt(ad[m], y) # CellAt(ad[k], x)
    BY <2>1, <2>2
  <2>4. c[CellAt(ad[k], x)] = W[k][x]
    BY <1>1, <2>1, <2>3 DEF CellsOf
  <2> QED
    BY <1>3, <2>1, <2>4
<1> QED
  BY <1>4, <1>5

\* Below the boot section, and in it with one block of code, every word in a cell is a
\* line's, and every line's is in a block.
SureCell(a, d) == OneBoot(a) \/ d < bootStartAddr

\* A word of a block in a cell is a word of a line that covers it.
LEMMA WordHasLine ==
  ASSUME NEW t, NEW begun, NEW new, NEW a, AcceptedText(t, begun, new, a), VectorsFit(t),
         NEW blocks, BlocksAre(a, blocks), NEW k, NEW x, NEW d, InCell(new, blocks, k, x, d),
         SureCell(a, d)
  PROVE  \E n, i : CellLine(t, new, a, blocks, k, x, n, i) /\ Covers(t, new, n, i, d)
<1> DEFINE w == BlockWords(new, blocks[k].instrs)
<1>1. k \in 1 .. Len(blocks) /\ x \in 1 .. Len(w) /\ d = CellAt(blocks[k].addr, x)
  BY DEF InCell
<1>2. BlockFits(t, new, blocks[k])
  BY <1>1, AllFit
<1>3. SureBlock(a, k)
  <2>1. ASSUME NEW c, BootAt(a, c, k) PROVE OneBoot(a)
    <3>1. blocks[k].addr = bootStartAddr
      BY <2>1 DEF BlocksAre
    <3>2. d = bootStartAddr + 2 * (x - 1)
      BY <1>1, <3>1 DEF CellAt
    <3>3. x \in Int /\ x >= 1
      BY <1>1
    <3>4. ~(d < bootStartAddr)
      BY <3>2, <3>3, AreasAssumption
    <3> QED
      BY <3>4 DEF SureCell
  <2> QED
    BY <2>1 DEF SureBlock
<1>4. PICK j \in 1 .. Len(blocks[k].instrs) : \E i :
        \A n : SlotIs(t, blocks[k], j, n) => WordOfLine(t, new, blocks[k], x, n, i)
  <2> DEFINE b == blocks[k]
  <2>1. w = BlockWords(new, b.instrs) /\ BlockFits(t, new, b) /\ x \in 1 .. Len(w)
    BY <1>1, <1>2
  <2> HIDE DEF w, b
  <2>2. \E j \in 1 .. Len(b.instrs) : \E i :
          \A n : SlotIs(t, b, j, n) => WordOfLine(t, new, b, x, n, i)
    BY <2>1, WordSlot
  <2> QED
    BY <2>2 DEF b
<1>5. PICK i : \A n : SlotIs(t, blocks[k], j, n) => WordOfLine(t, new, blocks[k], x, n, i)
  BY <1>4
<1>6. PICK n : LineInBlock(t, a, blocks[k], k, j, n)
  BY <1>1, <1>3, BlockHasLines
<1>7. WordOfLine(t, new, blocks[k], x, n, i)
  BY <1>5, <1>6 DEF LineInBlock
<1>8. CellLine(t, new, a, blocks, k, x, n, i)
  BY <1>6, <1>7 DEF LineInBlock, CellLine
<1>9. Covers(t, new, n, i, d)
  BY <1>1, <1>7 DEF WordOfLine
<1> QED
  BY <1>8, <1>9

\* A line that covers a cell has a word of a block in it.
LEMMA LineHasWord ==
  ASSUME NEW t, NEW begun, NEW new, NEW a, AcceptedText(t, begun, new, a), VectorsFit(t),
         NEW blocks, BlocksAre(a, blocks), NEW n, NEW i, NEW d, Covers(t, new, n, i, d),
         SureCell(a, d)
  PROVE  \E k, x : CellLine(t, new, a, blocks, k, x, n, i) /\ InCell(new, blocks, k, x, d)
<1>1. n \in LiveLines(t)
  BY DEF Covers
<1>2. SureLine(t, a, n)
  <2>1. ASSUME AreaOf(t, n) = ".boot" PROVE OneBoot(a)
    <3>1. InArea(t, ".boot", n)
      BY <1>1, <2>1, LiveLineIs DEF InArea
    <3>2. d \in Nat /\ bootStartAddr <= d
      BY <3>1, KindOfCell
    <3>3. ~(d < bootStartAddr)
      BY <3>2, AreasAssumption
    <3> QED
      BY <3>3 DEF SureCell
  <2> QED
    BY <2>1 DEF SureLine
<1>3. PICK k \in 1 .. Len(blocks) : \E j : LineInBlock(t, a, blocks[k], k, j, n)
  BY <1>1, <1>2, LineHasBlock
<1>4. PICK j : LineInBlock(t, a, blocks[k], k, j, n)
  BY <1>3
<1>5. SlotIs(t, blocks[k], j, n) /\ BlockFits(t, new, blocks[k])
  BY <1>4, AllFit DEF LineInBlock
<1>6. PICK x : WordOfLine(t, new, blocks[k], x, n, i) /\ d = CellAt(blocks[k].addr, x)
  BY <1>5, SlotWords
<1>7. InCell(new, blocks, k, x, d)
  BY <1>3, <1>6 DEF InCell, WordOfLine
<1>8. CellLine(t, new, a, blocks, k, x, n, i)
  BY <1>4, <1>6 DEF LineInBlock, CellLine
<1> QED
  BY <1>7, <1>8

\* Of two lines in a cell, the one whose block is written last is the later one.
LEMMA LastBlockLastLine ==
  ASSUME NEW t, NEW begun, NEW new, NEW a, AcceptedText(t, begun, new, a), VectorsFit(t),
         NEW blocks, NEW d, NEW k, NEW x, NEW n, NEW i, CellLine(t, new, a, blocks, k, x, n, i),
         Covers(t, new, n, i, d),
         NEW r, NEW y, NEW m, NEW j, CellLine(t, new, a, blocks, r, y, m, j),
         Covers(t, new, m, j, d), r <= k, n # m
  PROVE  m < n
<1>1. IsVectorLine(t, n) /\ IsVectorLine(t, m) /\ SectionOf(t, n) # SectionOf(t, m)
  BY Overlap
<1>2. PICK v : VectorAt(a, v, k) /\ VectorLine(t, a, v, n)
  BY <1>1 DEF CellLine
<1>3. PICK w : VectorAt(a, w, r) /\ VectorLine(t, a, w, m)
  BY <1>1 DEF CellLine
<1>4. v \in 1 .. Len(a.excpVectors) /\ w \in 1 .. Len(a.excpVectors)
  BY <1>2, <1>3 DEF VectorAt
<1>5. w <= v
  <2>1. a.bootInstructions \in Seq(Blocks(Names(t), Codes(t)))
    BY PartsOfAccepted
  <2>2. Len(a.bootInstructions) \in Nat
    BY <2>1
  <2>3. k = Len(a.bootInstructions) + v /\ r = Len(a.bootInstructions) + w
    BY <1>2, <1>3 DEF VectorAt
  <2>4. v \in Int /\ w \in Int
    BY <1>4
  <2> QED
    BY <2>2, <2>3, <2>4
<1>6. /\ IsLineOf(t, n, a.excpVectors[v].addr) /\ IsLineOf(t, m, a.excpVectors[w].addr)
      /\ n \in LiveLines(t) /\ m \in LiveLines(t)
  BY <1>2, <1>3 DEF VectorLine
<1>7. w # v
  <2>1. SUFFICES ASSUME w = v PROVE FALSE
    OBVIOUS
  <2>2. VectorAddr[SectionOf(t, n)] = VectorAddr[SectionOf(t, m)]
    BY <1>6, <2>1 DEF IsLineOf
  <2>3. SectionOf(t, n) \in DOMAIN VectorAddr /\ SectionOf(t, m) \in DOMAIN VectorAddr
    BY <1>1 DEF IsVectorLine
  <2> QED
    BY <1>1, <2>2, <2>3, OtherVectors
<1>8. w < v
  BY <1>4, <1>5, <1>7
<1>9. n \in 1 .. Len(t) /\ m \in 1 .. Len(t)
  BY <1>6, LiveLineIs
<1>10. LinesInOrder(t, Len(t), a.excpVectors)
  BY DEF AcceptedText, Listed, VectorsInOrder
<1>11. w \in DOMAIN a.excpVectors /\ v \in DOMAIN a.excpVectors
  <2>1. a.excpVectors \in Seq(Vectors(t))
    BY PartsOfAccepted
  <2> QED
    BY <1>4, <2>1
<1> QED
  BY <1>6, <1>8, <1>9, <1>10, <1>11 DEF LinesInOrder

\* The word loaded in a cell is the last line's.
LEMMA SureCellLoaded ==
  ASSUME NEW t, NEW begun, NEW new, NEW a, NEW blocks, NEW c, NEW mem, NEW d,
         LoadedAndListed(t, begun, new, a, blocks, c, mem), SureCell(a, d)
  PROVE  /\ d \in DOMAIN c <=> d \in DOMAIN mem
         /\ d \in DOMAIN c => c[d] = mem[d]
<1>1. AcceptedText(t, begun, new, a) /\ VectorsFit(t) /\ BlocksAre(a, blocks) /\ MemoryIs(t, new, mem)
  BY DEF LoadedAndListed
<1>2. /\ (d \in DOMAIN c) <=> (\E k, x : InCell(new, blocks, k, x, d))
      /\ \A k, x : InCell(new, blocks, k, x, d)
                   /\ (\A m, y : InCell(new, blocks, m, y, d) => m <= k)
                     => c[d] = BlockWords(new, blocks[k].instrs)[x]
  BY CellsByBlocks
<1>3. (d \in DOMAIN mem) <=> (\E n, i : Covers(t, new, n, i, d))
  BY <1>1 DEF MemoryIs
<1>4. \A k, x : InCell(new, blocks, k, x, d) =>
        \E n, i : CellLine(t, new, a, blocks, k, x, n, i) /\ Covers(t, new, n, i, d)
  BY <1>1, WordHasLine
<1>5. \A n, i : Covers(t, new, n, i, d) =>
        \E k, x : CellLine(t, new, a, blocks, k, x, n, i) /\ InCell(new, blocks, k, x, d)
  BY <1>1, LineHasWord
<1>6. ASSUME d \in DOMAIN c PROVE c[d] = mem[d]
  <2> DEFINE K == {k \in 1 .. Len(blocks) : \E x : InCell(new, blocks, k, x, d)}
  <2>1. \A k, x : InCell(new, blocks, k, x, d) => k \in K
    BY DEF InCell
  <2>2. K # {} /\ K \subseteq 1 .. Len(blocks) /\ Len(blocks) \in Nat
    BY <1>1, <1>2, <1>6, <2>1 DEF BlocksAre
  <2>3. \A k \in K : \E x : InCell(new, blocks, k, x, d)
    OBVIOUS
  <2> HIDE DEF K
  <2>4. PICK k \in K : \A r \in K : r <= k
    BY <2>2, GreatestOf
  <2>5. PICK x : InCell(new, blocks, k, x, d)
    BY <2>3
  <2>6. c[d] = BlockWords(new, blocks[k].instrs)[x]
    BY <1>2, <2>1, <2>4, <2>5
  <2>7. PICK n, i : CellLine(t, new, a, blocks, k, x, n, i) /\ Covers(t, new, n, i, d)
    BY <1>4, <2>5
  <2>8. ASSUME NEW m, NEW j, Covers(t, new, m, j, d) PROVE m <= n
    <3>1. PICK r, y : CellLine(t, new, a, blocks, r, y, m, j) /\ InCell(new, blocks, r, y, d)
      BY <1>5, <2>8
    <3>2. r <= k
      BY <2>1, <2>4, <3>1
    <3>3. n # m => m < n
      BY <1>1, <2>7, <2>8, <3>1, <3>2, LastBlockLastLine
    <3>4. n \in LiveLines(t) /\ m \in LiveLines(t)
      BY <2>7, <2>8 DEF Covers
    <3>5. n \in 1 .. Len(t) /\ m \in 1 .. Len(t)
      BY <1>1, <3>4, LiveLineIs
    <3> QED
      BY <3>3, <3>5
  <2>9. CoveredLast(t, new, n, i, d)
    BY <2>7, <2>8 DEF CoveredLast
  <2>10. mem[d] = InstrWords(new, Encoded(t[n]))[i]
    BY <1>1, <2>9 DEF MemoryIs
  <2>11. BlockWords(new, blocks[k].instrs)[x] = InstrWords(new, Encoded(t[n]))[i]
    BY <2>7 DEF CellLine, WordOfLine
  <2> QED
    BY <2>6, <2>10, <2>11
<1> QED
  BY <1>2, <1>3, <1>4, <1>5, <1>6

-----------------------------------------------------------------------------
(* Texts accepted and loaded *)

\* The labels of a text have the values of its listing.
OwnLabels(t, new) == \A l \in DefinedLabels(t) : l \in DOMAIN new /\ new[l] = LabelValues(t)[l]

\* The text as parsed.
LEMMA ParsedTextIs ==
  ASSUME NEW t, IsText(t), NEW begun, Begins(t, begun), NEW labels,
         NEW a, Reseted(t, labels, begun, a), NEW p, p = Parsed(a, t), p.error = NoError
  PROVE  ParsedText(t, begun, p)
<1>1. Holds(t, begun, Len(t), p) /\ \A n \in 1 .. Len(t) : LegalSoFar(t, n)
  BY ParsedHolds
<1>2. Listed(t, Len(t), p)
  BY ParsedListed
<1> QED
  BY <1>1, <1>2 DEF ParsedText

\* The labels solved are where the blocks of the program are, and those of the listing.
LEMMA SolvedListed ==
  ASSUME NEW t, IsText(t), NEW begun, NEW labels, NEW p \in ObjectsWith(t, labels, {NoError}),
         ParsedText(t, begun, p), NEW new, new = SolvedLabels(labels, p)
  PROVE  /\ \A b \in DOMAIN p.midInstrDict :
              new[p.midInstrDict[b].label] = codeStartAddr + BlockAt(p.midInstrDict, b)
         /\ OwnLabels(t, new)
<1>1. /\ Holds(t, begun, Len(t), p) /\ Listed(t, Len(t), p)
      /\ \A n \in 1 .. Len(t) : LegalSoFar(t, n)
  BY DEF ParsedText
<1>2. OwnLabels(t, new)
  <2> SUFFICES ASSUME NEW l \in DefinedLabels(t)
               PROVE  l \in DOMAIN new /\ new[l] = LabelValues(t)[l]
    BY DEF OwnLabels
  <2> QED
    BY LabelsListed
<1>3. ASSUME NEW b \in DOMAIN p.midInstrDict
      PROVE  new[p.midInstrDict[b].label] = codeStartAddr + BlockAt(p.midInstrDict, b)
  <2> DEFINE mid == p.midInstrDict
             l == mid[b].label
             sm == SolveLabels(mid, codeStartAddr)
             l1 == Updated(labels, SolveLabels(p.bootInstructions, bootStartAddr))
  <2>1. mid \in Seq(Blocks(Names(t), Codes(t)))
    BY DEF ObjectsWith
  <2>2. LastIs(mid, p.currentLabel)
    BY <1>1 DEF Listed, Placed
  <2>3. new = Updated(l1, sm)
    BY DEF SolvedLabels
  <2>4. DOMAIN sm = LabelsOf(mid)
    BY DEF SolveLabels
  <2>5. b \in DOMAIN mid
    OBVIOUS
  <2> HIDE DEF mid, l1
  <2>6. l \in LabelsOf(mid)
    BY <2>5 DEF LabelsOf
  <2>7. sm[l] = codeStartAddr + BlockAt(mid, b)
    BY <2>1, <2>2, <2>5, SolvedAt
  <2> HIDE DEF sm, l
  <2>8. new[l] = sm[l]
    BY <2>3, <2>4, <2>6 DEF Updated
  <2> QED
    BY <2>7, <2>8 DEF l, mid
<1> QED
  BY <1>2, <1>3

\* A text accepted by an object that an earlier text left.
LEMMA AcceptedAs ==
  ASSUME NEW t, IsText(t), StartsInSection(t), NEW before, NEW old, Left(old, before),
         NEW r, r = Assemble(Reset(old), t), r.asm.error = NoError,
         NEW new, new = r.asm.labelDict
  PROVE  /\ \E begun : AcceptedText(t, begun, new, r.asm)
         /\ OwnLabels(t, new) /\ r.file = FileOf(new, BlocksToWrite(r.asm))
<1>1. PICK t0, labels, e :
        /\ old \in ObjectsWith(t0, labels, {e}) /\ InRange(labels)
        /\ ~before.any => DOMAIN labels = {} /\ old.currentSection = "none"
  BY DEF Left
<1> DEFINE begun == old.currentSection
           a == Reset(old)
           p == Parsed(a, t)
           s == SolvedLabels(labels, p)
<1>2. /\ a \in Objects(t, labels) /\ a.error = NoError /\ a.currentSection = begun
      /\ a.sectionDict = {} /\ a.midInstrDict = << >> /\ a.bootInstructions = << >>
      /\ a.excpVectors = << >> /\ a.currentLabel = "0" /\ a.bootLabel = "1"
  BY <1>1, ResetType
<1>3. begun \in Sections \union {"none"}
  BY <1>1 DEF ObjectsWith
<1>4. Begins(t, begun)
  BY <1>3 DEF Begins
<1>5. Left(r.asm, [any |-> TRUE, labels |-> before.labels \union DefinedLabels(t)])
  BY AssembledIs
<1>6. InRange(new)
  <2>1. PICK t1, labels1, e1 : r.asm \in ObjectsWith(t1, labels1, {e1}) /\ InRange(labels1)
    BY <1>5 DEF Left
  <2> QED
    BY <2>1 DEF ObjectsWith
<1>7. r = Assemble(a, t) /\ p = Parsed(a, t) /\ s = SolvedLabels(labels, p)
  OBVIOUS
<1> HIDE DEF begun, a, p, s
<1>8. Reseted(t, labels, begun, a)
  BY <1>2 DEF Reseted
<1>9. /\ p \in ObjectsWith(t, labels, {NoError})
      /\ ~TooLarge(p.bootInstructions, bootStartAddr, memoryEnd)
      /\ ~TooLarge(p.midInstrDict, codeStartAddr, bootStartAddr)
      /\ r.asm = [p EXCEPT !.labelDict = s]
      /\ \A i \in InstrsToWrite(p) : Unsolved(s, i) = {}
      /\ r.file = FileOf(s, BlocksToWrite(r.asm))
  <2>1. IsText(t) /\ InRange(labels) /\ r.asm.error = NoError
    BY <1>1
  <2>2. a \in Objects(t, labels) /\ a.error = NoError
    BY <1>2
  <2>3. FileWrittenOf(t, labels, p, s, r)
    BY <1>7, <2>1, <2>2, AcceptedFile
  <2> QED
    BY <2>3 DEF FileWrittenOf
<1>10. p.error = NoError
  BY <1>9 DEF ObjectsWith
<1>11. ParsedText(t, begun, p)
  BY <1>4, <1>7, <1>8, <1>10, ParsedTextIs
<1>12. /\ \A b \in DOMAIN p.midInstrDict :
            s[p.midInstrDict[b].label] = codeStartAddr + BlockAt(p.midInstrDict, b)
       /\ OwnLabels(t, s)
  BY <1>7, <1>9, <1>11, SolvedListed
<1> DEFINE b == r.asm
<1>13. /\ b \in ObjectsWith(t, s, {NoError})
       /\ b.sectionDict = p.sectionDict /\ b.midInstrDict = p.midInstrDict
       /\ b.bootInstructions = p.bootInstructions /\ b.excpVectors = p.excpVectors
       /\ b.currentSection = p.currentSection /\ b.labelDict = s
       /\ b.currentLabel = p.currentLabel /\ b.bootLabel = p.bootLabel
  <2> HIDE DEF b
  <2>1. b = [p EXCEPT !.labelDict = s]
    BY <1>9 DEF b
  <2> QED
    BY <1>9, <2>1, LabelsReplaced
<1>14. new = s
  BY <1>13
<1> HIDE DEF b
<1>15. Holds(t, begun, Len(t), b)
  <2>1. Holds(t, begun, Len(t), p)
    BY <1>11 DEF ParsedText
  <2> QED
    BY <1>13, <2>1 DEF Holds
<1>16. Listed(t, Len(t), b)
  <2>1. Listed(t, Len(t), p)
    BY <1>11 DEF ParsedText
  <2> QED
    BY <1>13, <2>1 DEF Listed
<1>17. InstrsToWrite(b) = InstrsToWrite(p)
  BY <1>13 DEF InstrsToWrite
<1>18. \A n \in 1 .. Len(t) : LegalSoFar(t, n)
  BY <1>11 DEF ParsedText
<1>19. AcceptedText(t, begun, s, b)
  BY <1>6, <1>9, <1>12, <1>13, <1>14, <1>15, <1>16, <1>17, <1>18 DEF AcceptedText
<1> QED
  BY <1>9, <1>12, <1>14, <1>19 DEF b

\* The words of the lines that count are those of the listing.
LEMMA ListedWords ==
  ASSUME NEW t, NEW begun, NEW new, NEW a, AcceptedText(t, begun, new, a), OwnLabels(t, new),
         NEW values, values = Updated(new, LabelValues(t)), NEW n \in LiveLines(t)
  PROVE  InstrWords(values, Encoded(t[n])) = InstrWords(new, Encoded(t[n]))
<1> DEFINE own == LabelValues(t)
<1>1. Unsolved(new, Encoded(t[n])) = {}
  BY LiveLineIs
<1>2. DOMAIN own = DefinedLabels(t)
  BY DEF LabelValues
<1>3. \A l \in DOMAIN own : l \in DOMAIN new /\ new[l] = own[l]
  BY <1>2 DEF OwnLabels
<1>4. values = Updated(new, own)
  OBVIOUS
<1> HIDE DEF own
<1> QED
  BY <1>1, <1>3, <1>4, SameWords

\* The cells loaded are a function of addresses.
IsMap(c) == c = [d \in DOMAIN c |-> c[d]]
IsLoading(m) ==
  \E v, a, c : m \in [valid : {v}, addr : {a}, cells : {c}] /\ IsMap(c)

\* So they are after one line more.
LEMMA LineKeepsMap ==
  ASSUME NEW m, IsLoading(m), NEW line
  PROVE  IsLoading(LoadLine(m, line))
<1>1. PICK v, a, c : m \in [valid : {v}, addr : {a}, cells : {c}] /\ IsMap(c)
  BY DEF IsLoading
<1>2. m.valid = v /\ m.addr = a /\ m.cells = c
  BY <1>1
<1> DEFINE x == line.value
           one == [d \in {a} |-> x]
           new == Updated(c, one)
           b == (a + 2) % 65536
<1>3. IsMap(new)
  <2>1. new = [d \in DOMAIN c \union DOMAIN one |-> IF d \in DOMAIN one THEN one[d] ELSE c[d]]
    BY DEF Updated
  <2> HIDE DEF new, one
  <2> QED
    BY <2>1 DEF IsMap
<1>4. /\ [m EXCEPT !.addr = x] \in [valid : {v}, addr : {x}, cells : {c}]
      /\ [m EXCEPT !.valid = FALSE] \in [valid : {FALSE}, addr : {a}, cells : {c}]
  BY <1>1
<1>5. [m EXCEPT !.cells = new, !.addr = b] \in [valid : {v}, addr : {b}, cells : {new}]
  <2> HIDE DEF new, b
  <2> QED
    BY <1>1
<1>6. \/ LoadLine(m, line) = m
      \/ LoadLine(m, line) = [m EXCEPT !.addr = x]
      \/ LoadLine(m, line) = [m EXCEPT !.valid = FALSE]
      \/ LoadLine(m, line) = [m EXCEPT !.cells = new, !.addr = b]
  BY <1>2 DEF LoadLine
<1> DEFINE q == LoadLine(m, line)
<1> HIDE DEF x, new, b, q
<1>7. IsLoading(q)
  <2>1. CASE q = m
    BY <2>1
  <2>2. CASE q = [m EXCEPT !.addr = x]
    BY <1>1, <1>4, <2>2 DEF IsLoading
  <2>3. CASE q = [m EXCEPT !.valid = FALSE]
    BY <1>1, <1>4, <2>3 DEF IsLoading
  <2>4. CASE q = [m EXCEPT !.cells = new, !.addr = b]
    BY <1>3, <1>5, <2>4 DEF IsLoading
  <2> QED
    BY <1>6, <2>1, <2>2, <2>3, <2>4 DEF q
<1> QED
  BY <1>7 DEF q

\* What is loaded of a file.
LEMMA LoadedMap ==
  ASSUME NEW f \in Seq(FileLines)
  PROVE  IsMap(Load(f).cells)
<1> DEFINE N == Len(f)
           empty == [valid |-> TRUE, addr |-> 0, cells |-> << >>]
<1>1. N \in Nat /\ DOMAIN f = 1 .. N
  OBVIOUS
<1>2. IsLoading(empty)
  <2>1. IsMap(<< >>)
    BY DEF IsMap
  <2>2. empty \in [valid : {TRUE}, addr : {0}, cells : {<< >>}]
    OBVIOUS
  <2> QED
    BY <2>1, <2>2 DEF IsLoading
<1> HIDE DEF N
<1>3. PICK F : LoadStates(f, N, F)
  BY <1>1, LoadedByLines
<1>4. F[0] = empty /\ F[N] = Load(f) /\ \A k \in 1 .. N : F[k] = LoadLine(F[k - 1], f[k])
  BY <1>3 DEF LoadStates
<1> HIDE DEF empty
<1> DEFINE S == {k \in 0 .. N : IsLoading(F[k])}
<1>5. 0 \in S
  BY <1>1, <1>2, <1>4
<1>6. ASSUME NEW k \in 0 .. N - 1, k \in S PROVE k + 1 \in S
  <2>1. k + 1 \in 1 .. N /\ k + 1 \in 0 .. N /\ (k + 1) - 1 = k
    BY <1>1
  <2>2. F[k + 1] = LoadLine(F[k], f[k + 1])
    BY <1>4, <2>1
  <2>3. IsLoading(F[k + 1])
    BY <1>6, <2>2, LineKeepsMap
  <2> QED
    BY <2>1, <2>3
<1>7. \A k \in 0 .. N : k \in S
  <2> HIDE DEF S
  <2> QED
    BY <1>1, <1>5, <1>6, InductionTo
<1>8. IsLoading(Load(f))
  BY <1>1, <1>4, <1>7
<1>9. PICK v, a, c : Load(f) \in [valid : {v}, addr : {a}, cells : {c}] /\ IsMap(c)
  BY <1>8 DEF IsLoading
<1>10. Load(f).cells = c
  BY <1>9
<1> QED
  BY <1>9, <1>10

\* Two functions with the same domain and values.
LEMMA SameMaps ==
  ASSUME NEW c, NEW d, IsMap(c), IsMap(d), DOMAIN c = DOMAIN d, \A x \in DOMAIN c : c[x] = d[x]
  PROVE  c = d
  BY DEF IsMap

\* What is loaded of a text accepted, and the memory of its listing.
ListedNow == MemoryOf(text, Updated(asm.labelDict, LabelValues(text)))

\* Of a text accepted both are functions, and as the blocks and the lines have it.
LEMMA AcceptedMemory ==
  ASSUME IInv, Accepted, Fits, VectorsFit(text), StartsInSection(text)
  PROVE  /\ Load(file).valid /\ IsMap(Load(file).cells) /\ IsMap(ListedNow)
         /\ \E begun, blocks :
              LoadedAndListed(text, begun, asm.labelDict, asm, blocks, Load(file).cells, ListedNow)
<1>1. phase = "converted" /\ asm.error = NoError
  BY DEF Accepted, Converted
<1>2. PICK old : /\ Left(old, earlier) /\ asm = Assemble(Reset(old), text).asm
                 /\ file = Assemble(Reset(old), text).file
  BY <1>1 DEF IInv
<1>3. IsText(text) /\ file \in Seq(FileLines)
  BY TextsAreTexts DEF IInv
<1> DEFINE r == Assemble(Reset(old), text)
           new == asm.labelDict
           values == Updated(new, LabelValues(text))
           blocks == BlocksToWrite(asm)
<1>4. r = Assemble(Reset(old), text) /\ r.asm = asm /\ r.file = file
  BY <1>2
<1>5. new = r.asm.labelDict
  BY <1>4
<1> HIDE DEF r, new
<1>6. /\ \E begun : AcceptedText(text, begun, new, r.asm)
      /\ OwnLabels(text, new) /\ r.file = FileOf(new, BlocksToWrite(r.asm))
  <2>1. r.asm.error = NoError
    BY <1>1, <1>4
  <2> QED
    BY <1>2, <1>3, <1>4, <1>5, <2>1, AcceptedAs
<1>7. PICK begun : AcceptedText(text, begun, new, asm)
  BY <1>4, <1>6
<1>8. file = FileOf(new, blocks)
  BY <1>4, <1>6
<1>9. WordsFit(file)
  BY DEF Fits, WordsFit
<1>10. blocks = BlocksToWrite(asm)
  OBVIOUS
<1> HIDE DEF blocks
<1>11. /\ Load(file).valid
       /\ CellsOf(AddrsOf(blocks), WordsOfAll(new, blocks), Len(blocks), Load(file).cells)
  BY <1>7, <1>8, <1>9, <1>10, AcceptedLoaded
<1>12. BlocksAre(asm, blocks)
  <2>1. asm \in ObjectsWith(text, new, {NoError})
    BY <1>7 DEF AcceptedText
  <2> QED
    BY <1>10, <2>1, BlocksToWriteAre
<1>13. ListedNow = MemoryOf(text, values) /\ values = Updated(new, LabelValues(text))
  BY DEF ListedNow, new
<1> HIDE DEF values
<1>14. \A n \in LiveLines(text) : InstrWords(values, Encoded(text[n])) = InstrWords(new, Encoded(text[n]))
  BY <1>6, <1>7, <1>13, ListedWords
<1>15. MemoryIs(text, new, ListedNow)
  BY <1>7, <1>13, <1>14, ListedMemory
<1>16. LoadedAndListed(text, begun, new, asm, blocks, Load(file).cells, ListedNow)
  BY <1>7, <1>11, <1>12, <1>15 DEF LoadedAndListed
<1>17. IsMap(Load(file).cells)
  BY <1>3, LoadedMap
<1>18. IsMap(ListedNow)
  BY <1>15 DEF MemoryIs, IsMap
<1> QED
  BY <1>11, <1>16, <1>17, <1>18 DEF new

\* Of every text accepted with one block of code in the boot section, and with vectors
\* that end below the program, the simulator loads the memory of the listing
\* (pyasm.py 188-196, 311-374; Memory.cpp 8-48).
THEOREM LoadedAsListedHolds == Spec => []LoadedAsListed
<1>1. IInv => LoadedAsListed
  <2> SUFFICES ASSUME IInv, Accepted, OneBlockOf(asm.bootInstructions),
                      Fits, VectorsFit(text), StartsInSection(text)
               PROVE  Load(file).valid /\ Load(file).cells = ListedNow
    BY DEF LoadedAsListed, ListedNow
  <2> DEFINE c == Load(file).cells
             mem == ListedNow
  <2>1. /\ Load(file).valid /\ IsMap(c) /\ IsMap(mem)
        /\ \E begun, blocks : LoadedAndListed(text, begun, asm.labelDict, asm, blocks, c, mem)
    BY AcceptedMemory
  <2> HIDE DEF c, mem
  <2>2. PICK begun, blocks : LoadedAndListed(text, begun, asm.labelDict, asm, blocks, c, mem)
    BY <2>1
  <2>3. \A d : SureCell(asm, d)
    BY DEF SureCell, OneBoot, OneBlockOf
  <2>4. \A d : (d \in DOMAIN c <=> d \in DOMAIN mem) /\ (d \in DOMAIN c => c[d] = mem[d])
    BY <2>2, <2>3, SureCellLoaded
  <2>5. DOMAIN c = DOMAIN mem
    BY <2>4
  <2>6. c = mem
    BY <2>1, <2>4, <2>5, SameMaps
  <2> QED
    BY <2>1, <2>6 DEF c, mem
<1> QED
  BY <1>1, IInvHolds, PTL

\* However many blocks the boot section has, every word of the listing below it is
\* loaded (pyasm.py 352-353, 360-374; Memory.cpp 8-48).
THEOREM ProgramKeptHolds == Spec => []ProgramKept
<1>1. IInv => ProgramKept
  <2> SUFFICES ASSUME IInv, Accepted, Fits, VectorsFit(text), StartsInSection(text),
                      NEW d \in DOMAIN ListedNow, d < bootStartAddr
               PROVE  d \in DOMAIN Load(file).cells /\ Load(file).cells[d] = ListedNow[d]
    BY DEF ProgramKept, ListedNow
  <2> DEFINE c == Load(file).cells
             mem == ListedNow
  <2>1. \E begun, blocks : LoadedAndListed(text, begun, asm.labelDict, asm, blocks, c, mem)
    BY AcceptedMemory
  <2> HIDE DEF c, mem
  <2>2. PICK begun, blocks : LoadedAndListed(text, begun, asm.labelDict, asm, blocks, c, mem)
    BY <2>1
  <2>3. SureCell(asm, d)
    BY DEF SureCell
  <2>4. (d \in DOMAIN c <=> d \in DOMAIN mem) /\ (d \in DOMAIN c => c[d] = mem[d])
    BY <2>2, <2>3, SureCellLoaded
  <2>5. d \in DOMAIN mem
    BY DEF mem
  <2> QED
    BY <2>4, <2>5 DEF c, mem
<1> QED
  BY <1>1, IInvHolds, PTL

-----------------------------------------------------------------------------
(* A new object *)

\* A new object is as it would be reset.
LEMMA FreshIsReset == Reset(FreshAssembler) = FreshAssembler
<1> DEFINE e == NoError
           no == << >>
           a == [sectionDict |-> {}, midInstrDict |-> no, bootInstructions |-> no,
                 excpVectors |-> no, currentLabel |-> "0", bootLabel |-> "1",
                 currentSection |-> "none", labelDict |-> no, error |-> e]
<1>1. FreshAssembler = a
  BY DEF FreshAssembler
<1>2. Reset(a) = [a EXCEPT !.sectionDict = {}, !.midInstrDict = no, !.bootInstructions = no,
                           !.excpVectors = no, !.currentLabel = "0", !.bootLabel = "1",
                           !.error = e]
  BY DEF Reset
<1> HIDE DEF e, no
<1>3. Reset(a) = a
  BY <1>2
<1> QED
  BY <1>1, <1>3

\* A word of more than four digits is no valid line (Memory.cpp 32-41).
LEMMA ValidLine ==
  ASSUME NEW m, IsLoading(m), NEW line, line.value \in Nat, LoadLine(m, line).valid
  PROVE  m.valid /\ (line.header \/ line.value < 65536)
<1>1. PICK v, a, c : m \in [valid : {v}, addr : {a}, cells : {c}]
  BY DEF IsLoading
<1>2. ~[m EXCEPT !.valid = FALSE].valid
  BY <1>1
<1>3. m.valid
  BY DEF LoadLine
<1>4. ~line.header => ~(line.value > 65535)
  BY <1>2, <1>3 DEF LoadLine
<1> QED
  BY <1>3, <1>4

\* A file that can be loaded has no such word.
LEMMA ValidWords ==
  ASSUME NEW f \in Seq(FileLines), Load(f).valid
  PROVE  WordsFit(f)
<1> DEFINE N == Len(f)
           empty == [valid |-> TRUE, addr |-> 0, cells |-> << >>]
<1>1. N \in Nat /\ DOMAIN f = 1 .. N
  OBVIOUS
<1>2. IsLoading(empty)
  <2>1. IsMap(<< >>)
    BY DEF IsMap
  <2>2. empty \in [valid : {TRUE}, addr : {0}, cells : {<< >>}]
    OBVIOUS
  <2> QED
    BY <2>1, <2>2 DEF IsLoading
<1> HIDE DEF N
<1>3. PICK F : LoadStates(f, N, F)
  BY <1>1, LoadedByLines
<1>4. F[0] = empty /\ F[N] = Load(f) /\ \A k \in 1 .. N : F[k] = LoadLine(F[k - 1], f[k])
  BY <1>3 DEF LoadStates
<1> HIDE DEF empty
<1> DEFINE Right(k) == F[k].valid => \A x \in 1 .. k : f[x].header \/ f[x].value < 65536
           S == {k \in 0 .. N : IsLoading(F[k]) /\ Right(k)}
<1>5. 0 \in S
  BY <1>1, <1>2, <1>4
<1>6. ASSUME NEW k \in 0 .. N - 1, k \in S PROVE k + 1 \in S
  <2>1. k + 1 \in 1 .. N /\ k + 1 \in 0 .. N /\ (k + 1) - 1 = k /\ k \in Nat
    BY <1>1
  <2>2. F[k + 1] = LoadLine(F[k], f[k + 1])
    BY <1>4, <2>1
  <2>3. IsLoading(F[k])
    BY <1>6
  <2>4. IsLoading(F[k + 1])
    BY <2>2, <2>3, LineKeepsMap
  <2>5. ASSUME F[k + 1].valid
        PROVE  F[k].valid /\ (f[k + 1].header \/ f[k + 1].value < 65536)
    <3> DEFINE m == F[k]
               line == f[k + 1]
               next == F[k + 1]
    <3>1. next = LoadLine(m, line) /\ IsLoading(m) /\ next.valid
      BY <2>2, <2>3, <2>5
    <3>2. line.value \in Nat
      <4>1. line \in FileLines
        BY <1>1, <2>1
      <4> QED
        BY <4>1 DEF FileLines
    <3> HIDE DEF m, line, next
    <3>3. m.valid /\ (line.header \/ line.value < 65536)
      BY <3>1, <3>2, ValidLine
    <3> QED
      BY <3>3 DEF m, line
  <2>6. Right(k + 1)
    <3>1. Right(k)
      BY <1>6
    <3>2. \A x \in 1 .. k + 1 : x \in 1 .. k \/ x = k + 1
      BY <2>1
    <3> QED
      BY <2>5, <3>1, <3>2
  <2> HIDE DEF Right
  <2> QED
    BY <2>1, <2>4, <2>6
<1>7. \A k \in 0 .. N : k \in S
  <2> HIDE DEF S
  <2> QED
    BY <1>1, <1>5, <1>6, InductionTo
<1>8. Right(N)
  <2> HIDE DEF Right
  <2> QED
    BY <1>1, <1>7
<1> QED
  BY <1>1, <1>4, <1>8 DEF WordsFit

\* A legal text of a new object uses labels of its own only: the words of the lines that
\* count are those of the listing.
LEMMA LegalWords ==
  ASSUME NEW t, IsText(t), LegalBesidesVectors(t, DefinedLabels(t)), NEW new, OwnLabels(t, new),
         NEW n \in LiveLines(t)
  PROVE  InstrWords(LabelValues(t), Encoded(t[n])) = InstrWords(new, Encoded(t[n]))
<1> DEFINE i == Encoded(t[n])
<1>1. i.src1 = t[n].src1 /\ i.src2 = t[n].src2
  BY DEF Encoded
<1> HIDE DEF i
<1>2. \A o \in {i.src1, i.src2} : o.label = "" \/ o.label \in DefinedLabels(t)
  <2>1. {t[n].src1.label, t[n].src2.label} \ {""} \subseteq UsedLabels(t)
    BY DEF UsedLabels
  <2>2. UsedLabels(t) \subseteq DefinedLabels(t)
    BY DEF LegalBesidesVectors
  <2> QED
    BY <1>1, <2>1, <2>2
<1>3. \A l \in DefinedLabels(t) : LabelValues(t)[l] = new[l]
  BY DEF OwnLabels
<1>4. InstrWords(LabelValues(t), i) = InstrWords(new, i)
  BY <1>2, <1>3, WordsAgree
<1> QED
  BY <1>4 DEF i

\* A new object assembles a legal text, and writes its file.
LEMMA LegalAssembles ==
  ASSUME NEW t, IsText(t), LegalBesidesVectors(t, DefinedLabels(t)),
         NEW r, r = Assemble(FreshAssembler, t)
  PROVE  r.asm.error = NoError /\ r.opened /\ r.file \in Seq(FileLines)
<1> DEFINE before == [any |-> FALSE, labels |-> {}]
<1>1. Left(FreshAssembler, before) /\ ~before.any
  BY FreshIsLeft
<1>2. r = Assemble(Reset(FreshAssembler), t)
  BY FreshIsReset
<1> HIDE DEF before
<1>3. PICK labels : /\ DOMAIN labels = {}
                    /\ r.asm.error = NoError <=> LegalBesidesVectors(t, KnownLabels(t, labels))
  BY <1>1, <1>2, AcceptedByLeft
<1>4. KnownLabels(t, labels) = DefinedLabels(t)
  BY <1>3 DEF KnownLabels
<1>5. r.asm.error = NoError
  BY <1>3, <1>4
<1>6. r.opened
  BY <1>5, AcceptedOpened
<1>7. r.file \in Seq(FileLines)
  BY <1>1, <1>2, AssembledIs
<1> QED
  BY <1>5, <1>6, <1>7

\* Of a legal text that a new object assembles the simulator loads the memory of the
\* listing, with one block of code in the boot section and vectors that end below the
\* program, if it can load the file at all (pyasm.py 188-196, 311-374; Memory.cpp 8-48).
THEOREM NewAssemblerLoads ==
  ASSUME NEW t, IsText(t), LegalBesidesVectors(t, DefinedLabels(t)), VectorsFit(t),
         OneBlockOf(Assemble(FreshAssembler, t).asm.bootInstructions),
         Load(Assemble(FreshAssembler, t).file).valid
  PROVE  Load(Assemble(FreshAssembler, t).file).cells = MemoryOf(t, LabelValues(t))
<1> DEFINE r == Assemble(FreshAssembler, t)
           a == r.asm
           new == a.labelDict
           blocks == BlocksToWrite(a)
           c == Load(r.file).cells
           mem == MemoryOf(t, LabelValues(t))
           before == [any |-> FALSE, labels |-> {}]
<1>1. r.asm.error = NoError /\ r.file \in Seq(FileLines)
  BY LegalAssembles
<1>2. Left(FreshAssembler, before)
  BY FreshIsLeft
<1>3. r = Assemble(Reset(FreshAssembler), t) /\ new = r.asm.labelDict
  BY FreshIsReset
<1>4. StartsInSection(t)
  BY LegalStarts
<1>5. OneBlockOf(a.bootInstructions) /\ Load(r.file).valid
  OBVIOUS
<1>6. c = Load(r.file).cells /\ mem = MemoryOf(t, LabelValues(t)) /\ blocks = BlocksToWrite(a)
  OBVIOUS
<1>7. a = r.asm
  OBVIOUS
<1> HIDE DEF r, new, before, c, mem, blocks
<1>8. /\ \E begun : AcceptedText(t, begun, new, r.asm)
      /\ OwnLabels(t, new) /\ r.file = FileOf(new, BlocksToWrite(r.asm))
  BY <1>1, <1>2, <1>3, <1>4, AcceptedAs
<1> HIDE DEF a
<1>9. PICK begun : AcceptedText(t, begun, new, a)
  BY <1>7, <1>8
<1>10. r.file = FileOf(new, blocks) /\ WordsFit(r.file)
  BY <1>1, <1>5, <1>6, <1>7, <1>8, ValidWords
<1>11. CellsOf(AddrsOf(blocks), WordsOfAll(new, blocks), Len(blocks), c)
  BY <1>6, <1>9, <1>10, AcceptedLoaded
<1>12. BlocksAre(a, blocks)
  <2>1. a \in ObjectsWith(t, new, {NoError})
    BY <1>9 DEF AcceptedText
  <2> QED
    BY <1>6, <2>1, BlocksToWriteAre
<1>13. \A n \in LiveLines(t) :
         InstrWords(LabelValues(t), Encoded(t[n])) = InstrWords(new, Encoded(t[n]))
  BY <1>8, LegalWords
<1>14. MemoryIs(t, new, mem)
  BY <1>6, <1>9, <1>13, ListedMemory
<1>15. LoadedAndListed(t, begun, new, a, blocks, c, mem)
  BY <1>9, <1>11, <1>12, <1>14 DEF LoadedAndListed
<1>16. \A d : SureCell(a, d)
  BY <1>5 DEF SureCell, OneBoot, OneBlockOf
<1>17. \A d : (d \in DOMAIN c <=> d \in DOMAIN mem) /\ (d \in DOMAIN c => c[d] = mem[d])
  BY <1>15, <1>16, SureCellLoaded
<1>18. IsMap(c)
  BY <1>1, <1>6, LoadedMap
<1>19. IsMap(mem)
  BY <1>14 DEF MemoryIs, IsMap
<1>20. DOMAIN c = DOMAIN mem
  BY <1>17
<1>21. c = mem
  BY <1>17, <1>18, <1>19, <1>20, SameMaps
<1> QED
  BY <1>21 DEF c, mem, r
=============================================================================
