--------------------------- MODULE Pipeline_proofs ---------------------------
(***************************************************************************)
(* Decode and Execute agree on where the program is, for every size of     *)
(* memory and windows, every program and every length of the pipes.        *)
(***************************************************************************)
EXTENDS Pipeline, SequenceTheorems, TLAPS

-----------------------------------------------------------------------------
(* Addresses and windows.                                                  *)

NextWindow(w) == (w + WindowWords) % NumAddr

\* Division with a remainder.
LEMMA Division ==
  ASSUME NEW x \in Nat, NEW n \in Nat \ {0}
  PROVE  /\ x \div n \in Nat /\ (x \div n) * n \in Nat
         /\ x % n \in 0 .. n - 1
         /\ x = (x \div n) * n + (x % n)
<1>1. x \div n \in Nat /\ x % n \in 0 .. n - 1
  BY Z3
<1>2. (x \div n) * n + (x % n) = x
  BY Z3
<1> QED
  BY <1>1, <1>2, Z3

\* The remainder of a multiple and a bit more is that bit.
LEMMA Remainder ==
  ASSUME NEW q \in Nat, NEW n \in Nat \ {0}, NEW r \in 0 .. n - 1
  PROVE  (q * n + r) % n = r
<1>1. q * n \in Nat /\ r \in Nat /\ n \in Nat /\ r < n
  BY Z3
<1> DEFINE y == q * n + r
           d == y \div n
           z == y % n
<1>2. y \in Nat
  BY <1>1
<1>3. d \in Nat /\ d * n \in Nat /\ z \in 0 .. n - 1 /\ y = d * n + z
  BY <1>2, Division
<1> HIDE DEF d, z
<1>4. ASSUME NEW a \in Nat, NEW b \in Nat, a < b
      PROVE  a * n + n <= b * n
  <2>1. (a + 1) * n <= b * n
    BY <1>4, Z3
  <2>2. (a + 1) * n = a * n + n
    BY Z3
  <2>3. a * n \in Nat /\ b * n \in Nat
    BY Z3
  <2> QED
    BY <2>1, <2>2, <2>3
<1>5. ~(q < d) /\ ~(d < q)
  BY <1>1, <1>3, <1>4
<1>6. q = d
  BY <1>3, <1>5
<1> QED
  BY <1>1, <1>3, <1>6 DEF z

\* The address space and a window are so many whole windows.
LEMMA WholeWindows ==
  /\ NumAddr \in Nat /\ WindowWords \in Nat /\ NumAddr > 0 /\ WindowWords > 0
  /\ \E m \in Nat : NumAddr = m * WindowWords
  /\ \A w \in Window : w \in Addr /\ w \in Nat /\ \E q \in Nat : w = q * WindowWords
<1>1. NumAddr \in Nat /\ WindowWords \in Nat /\ NumAddr > 0 /\ WindowWords > 0
      /\ NumAddr % WindowWords = 0
  BY AddressAssumption
<1>2. ASSUME NEW x \in Nat, x % WindowWords = 0
      PROVE  \E q \in Nat : x = q * WindowWords
  <2>1. /\ x \div WindowWords \in Nat /\ (x \div WindowWords) * WindowWords \in Nat
        /\ x = (x \div WindowWords) * WindowWords + (x % WindowWords)
    BY <1>1, Division
  <2>2. x = (x \div WindowWords) * WindowWords
    BY <2>1, <1>2
  <2> QED
    BY <2>1, <2>2
<1>3. \A w \in Window : w \in Addr /\ w \in Nat /\ w % WindowWords = 0
  BY <1>1 DEF Window, Addr
<1> QED
  BY <1>1, <1>2, <1>3

\* A word of a window is behind its first one, without wrapping.
LEMMA WordOfWindow ==
  ASSUME NEW w \in Window, NEW i \in 1 .. WindowWords
  PROVE  /\ w + i - 1 \in Addr
         /\ WordAt(w, i) = w + i - 1
         /\ WindowOf(w + i - 1) = w
<1>1. PICK q \in Nat, m \in Nat : w = q * WindowWords /\ NumAddr = m * WindowWords
  BY WholeWindows
<1>2. w < NumAddr /\ w \in Nat
  BY WholeWindows DEF Window, Addr
<1>3. q < m
  BY <1>1, <1>2, WholeWindows, Z3
<1>4. w + WindowWords <= NumAddr
  <2>1. q + 1 <= m
    BY <1>3
  <2>2. (q + 1) * WindowWords <= m * WindowWords
    BY <2>1, WholeWindows, Z3
  <2>3. (q + 1) * WindowWords = q * WindowWords + WindowWords
    BY WholeWindows, Z3
  <2> QED
    BY <1>1, <2>2, <2>3
<1>5. w + i - 1 \in Addr
  BY <1>2, <1>4, WholeWindows DEF Addr
<1>6. (w + i - 1) % NumAddr = w + i - 1
  BY <1>5, WholeWindows, Z3 DEF Addr
<1>7. (w + i - 1) % WindowWords = i - 1
  <2>1. (q * WindowWords + (i - 1)) % WindowWords = i - 1
    BY WholeWindows, Remainder
  <2> QED
    BY <2>1, <1>1, <1>2
<1> QED
  BY <1>5, <1>6, <1>7, <1>2 DEF WordAt, WindowOf

\* Every word lies in a window.
LEMMA WindowOfWord ==
  ASSUME NEW a \in Addr
  PROVE  WindowOf(a) \in Window
<1>1. a \in Nat /\ a < NumAddr /\ WindowWords \in Nat \ {0}
  BY WholeWindows DEF Addr
<1>2. /\ a \div WindowWords \in Nat /\ (a \div WindowWords) * WindowWords \in Nat
      /\ a % WindowWords \in 0 .. WindowWords - 1
      /\ a = (a \div WindowWords) * WindowWords + (a % WindowWords)
  BY <1>1, Division
<1>3. ((a \div WindowWords) * WindowWords + 0) % WindowWords = 0
  BY <1>1, <1>2, Remainder
<1>4. WindowOf(a) = (a \div WindowWords) * WindowWords
  BY <1>1, <1>2 DEF WindowOf
<1> QED
  BY <1>1, <1>2, <1>3, <1>4, WholeWindows DEF Window, Addr

\* The window after a window is one.
LEMMA NextIsWindow ==
  ASSUME NEW w \in Window
  PROVE  NextWindow(w) \in Window
<1>1. PICK q \in Nat, m \in Nat : w = q * WindowWords /\ NumAddr = m * WindowWords
  BY WholeWindows
<1>2. w \in Nat /\ w < NumAddr
  BY WholeWindows DEF Window, Addr
<1>3. w + WindowWords <= NumAddr
  <2>1. q < m
    BY <1>1, <1>2, WholeWindows, Z3
  <2>2. (q + 1) * WindowWords <= m * WindowWords
    BY <2>1, WholeWindows, Z3
  <2>3. (q + 1) * WindowWords = q * WindowWords + WindowWords
    BY WholeWindows, Z3
  <2> QED
    BY <1>1, <2>2, <2>3
<1>4. CASE w + WindowWords = NumAddr
  <2>1. NextWindow(w) = 0
    BY <1>4, WholeWindows, Z3 DEF NextWindow
  <2> QED
    BY <2>1, WholeWindows, Z3 DEF Window, Addr
<1>5. CASE w + WindowWords < NumAddr
  <2>1. NextWindow(w) = w + WindowWords
    BY <1>2, <1>5, WholeWindows, Z3 DEF NextWindow
  <2>2. (w + WindowWords) % WindowWords = 0
    <3>1. ((q + 1) * WindowWords + 0) % WindowWords = 0
      BY WholeWindows, Remainder
    <3>2. (q + 1) * WindowWords = q * WindowWords + WindowWords
      BY WholeWindows, Z3
    <3> QED
      BY <3>1, <3>2, <1>1, <1>2, WholeWindows
  <2> QED
    BY <2>1, <2>2, <1>2, <1>5, WholeWindows DEF Window, Addr
<1> QED
  BY <1>2, <1>3, <1>4, <1>5, WholeWindows

\* Going on by m and then by n words is going on by all of them.
LEMMA PastPast ==
  ASSUME NEW a \in Addr, NEW m \in Nat, NEW n \in Nat
  PROVE  /\ Past(a, 0) = a /\ Past(a, m) \in Addr
         /\ Past(Past(a, m), n) = Past(a, m + n)
<1>1. /\ a \in Nat /\ a < NumAddr /\ NumAddr \in Nat \ {0}
      /\ a + m \in Nat /\ m \in Nat /\ n \in Nat
  BY WholeWindows DEF Addr
<1>2. PICK d \in Nat, r \in 0 .. NumAddr - 1 :
        d * NumAddr \in Nat /\ a + m = d * NumAddr + r /\ r = (a + m) % NumAddr
  <2>1. a + m \in Nat
    BY <1>1
  <2> QED
    BY <1>1, <2>1, Division
<1>3. PICK e \in Nat, s \in 0 .. NumAddr - 1 :
        e * NumAddr \in Nat /\ r + n = e * NumAddr + s /\ s = (r + n) % NumAddr
  <2>1. r + n \in Nat
    BY <1>1, <1>2
  <2> QED
    BY <1>1, <2>1, Division
<1>4. ((d + e) * NumAddr + s) % NumAddr = s
  <2>1. d + e \in Nat
    BY Z3
  <2> QED
    BY <1>1, <1>3, <2>1, Remainder, Zenon
<1>5. a + (m + n) = (d + e) * NumAddr + s
  <2>1. (d + e) * NumAddr = d * NumAddr + e * NumAddr
    BY <1>1, Z3
  <2> DEFINE D == d * NumAddr
             E == e * NumAddr
  <2>2. D \in Nat /\ E \in Nat /\ a + m = D + r /\ r + n = E + s /\ r \in Nat /\ s \in Nat
    BY <1>1, <1>2, <1>3
  <2>3. (d + e) * NumAddr = D + E
    BY <2>1
  <2> HIDE DEF D, E
  <2>4. a + (m + n) = D + E + s
    BY <1>1, <2>2
  <2> QED
    BY <2>3, <2>4
<1>6. Past(a, 0) = a
  BY <1>1, Z3 DEF Past
<1> QED
  BY <1>2, <1>3, <1>4, <1>5, <1>6 DEF Past, Addr

\* The words of a window from its i-th on.
LEMMA WordsOfWindow ==
  ASSUME NEW w \in Window, NEW i \in 1 .. WindowWords
  PROVE  /\ w + (i - 1) \in Addr
         /\ WordsFrom(w, i) \in Seq(Addr)
         /\ Len(WordsFrom(w, i)) = WindowWords - i + 1
         /\ \A j \in 1 .. WindowWords - i + 1 : WordsFrom(w, i)[j] = Past(w + (i - 1), j - 1)
<1>1. WindowWords \in Nat /\ w \in Nat /\ i \in Nat /\ NumAddr \in Nat
  BY WholeWindows
<1>2. \A j \in 1 .. WindowWords - i + 1 :
        /\ WordAt(w, i + j - 1) \in Addr
        /\ WordAt(w, i + j - 1) = Past(w + (i - 1), j - 1)
  <2> TAKE j \in 1 .. WindowWords - i + 1
  <2>1. i + j - 1 \in 1 .. WindowWords
    BY <1>1
  <2>2. WordAt(w, i + j - 1) = w + (i + j - 1) - 1 /\ w + (i + j - 1) - 1 \in Addr
    BY <2>1, WordOfWindow
  <2>3. w + (i + j - 1) - 1 = (w + (i - 1)) + (j - 1) /\ w + (i + j - 1) - 1 = w + (i + j - 1 - 1)
    BY <1>1
  <2> QED
    BY <1>1, <2>2, <2>3 DEF WordAt, Past
<1>3. WindowWords - i + 1 \in Nat
  BY <1>1
<1>4. WordsFrom(w, i) \in Seq(Addr) /\ Len(WordsFrom(w, i)) = WindowWords - i + 1
  BY <1>2, <1>3 DEF WordsFrom
<1>5. w + (i - 1) \in Addr
  BY <1>1, WordOfWindow
<1> QED
  BY <1>2, <1>4, <1>5 DEF WordsFrom

\* What follows the words of a window is the window after it.
LEMMA AfterWindow ==
  ASSUME NEW a \in Addr
  PROVE  /\ a % WindowWords \in 0 .. WindowWords - 1
         /\ a = WindowOf(a) + (a % WindowWords)
         /\ WindowOf(a) \in Window
         /\ Past(a, WindowWords - (a % WindowWords)) = NextWindow(WindowOf(a))
<1>1. a \in Nat /\ WindowWords \in Nat \ {0}
  BY WholeWindows DEF Addr
<1>2. a % WindowWords \in 0 .. WindowWords - 1
  BY <1>1, Division
<1>3. WindowOf(a) \in Window
  BY WindowOfWord
<1>4. WindowOf(a) \in Nat /\ a = WindowOf(a) + (a % WindowWords)
  BY <1>1, <1>2, <1>3, WholeWindows DEF WindowOf
<1>5. a + (WindowWords - (a % WindowWords)) = WindowOf(a) + WindowWords
  BY <1>1, <1>2, <1>4
<1> QED
  BY <1>2, <1>3, <1>4, <1>5 DEF Past, NextWindow

-----------------------------------------------------------------------------
(* Sequences.                                                              *)

\* A function on an initial interval is a sequence.
LEMMA IntervalSeq ==
  ASSUME NEW S, NEW n \in Nat, NEW f \in [1 .. n -> S]
  PROVE  f \in Seq(S) /\ Len(f) = n
OBVIOUS

\* The tail of a sequence, with its domain.
LEMMA TailIs ==
  ASSUME NEW S, NEW s \in Seq(S), s # << >>
  PROVE  /\ Tail(s) \in Seq(S) /\ Len(s) \in Nat
         /\ Len(Tail(s)) = Len(s) - 1 /\ Tail(s) \in [1 .. Len(s) - 1 -> S]
         /\ \A i \in 1 .. Len(s) - 1 : Tail(s)[i] = s[i + 1] /\ i + 1 \in DOMAIN s
<1>1. Tail(s) \in Seq(S) /\ Len(s) \in Nat /\ DOMAIN s = 1 .. Len(s)
  BY HeadTailProperties, LenProperties
<1>2. Len(Tail(s)) = Len(s) - 1 /\ Tail(s) \in [1 .. Len(Tail(s)) -> S]
  BY <1>1, HeadTailProperties, LenProperties
<1>3. \A i \in 1 .. Len(Tail(s)) : Tail(s)[i] = s[i + 1]
  BY HeadTailProperties
<1> QED
  BY <1>1, <1>2, <1>3

\* Only the empty sequence has no element.
LEMMA EmptyIs ==
  ASSUME NEW S, NEW s \in Seq(S)
  PROVE  s = <<>> <=> Len(s) = 0
BY EmptySeq

\* One more element at the end of a sequence.
LEMMA AppendIs ==
  ASSUME NEW S, NEW s \in Seq(S), NEW e \in S
  PROVE  /\ Append(s, e) \in Seq(S) /\ Len(s) \in Nat
         /\ Len(Append(s, e)) = Len(s) + 1 /\ DOMAIN Append(s, e) = 1 .. Len(s) + 1
         /\ DOMAIN s = 1 .. Len(s)
         /\ \A i \in 1 .. Len(s) : Append(s, e)[i] = s[i]
         /\ Append(s, e)[Len(s) + 1] = e
<1>1. Append(s, e) \in Seq(S) /\ Len(Append(s, e)) = Len(s) + 1
  BY AppendProperties
<1>2. /\ \A i \in 1 .. Len(s) : Append(s, e)[i] = s[i]
      /\ Append(s, e)[Len(s) + 1] = e
  BY AppendProperties
<1>3. Len(s) \in Nat /\ DOMAIN s = 1 .. Len(s)
  BY LenProperties
<1>4. DOMAIN Append(s, e) = 1 .. Len(s) + 1
  BY <1>1, LenProperties
<1> QED
  BY <1>1, <1>2, <1>3, <1>4

\* A sequence cut in two after its n-th element.
LEMMA CutIs ==
  ASSUME NEW S, NEW s \in Seq(S), NEW n \in 1 .. Len(s)
  PROVE  /\ SubSeq(s, 1, n) \in Seq(S) /\ Len(SubSeq(s, 1, n)) = n
         /\ \A j \in 1 .. n : SubSeq(s, 1, n)[j] = s[j]
         /\ SubSeq(s, n + 1, Len(s)) \in Seq(S) /\ Len(SubSeq(s, n + 1, Len(s))) = Len(s) - n
         /\ \A j \in 1 .. Len(s) - n : SubSeq(s, n + 1, Len(s))[j] = s[n + j]
<1>1. /\ Len(s) \in Nat /\ n \in Int /\ Len(s) \in Int /\ n + 1 \in Int /\ 1 \in Int
      /\ n <= Len(s) /\ 1 <= n
  BY LenProperties
<1>2. \A i \in 1 .. Len(s) : s[i] \in S
  BY ElementOfSeq
<1>3. (\A i \in 1 .. n : s[i] \in S) /\ (\A i \in n + 1 .. Len(s) : s[i] \in S)
  BY <1>1, <1>2
<1>4. /\ SubSeq(s, 1, n) \in Seq(S)
      /\ Len(SubSeq(s, 1, n)) = IF 1 <= n THEN n - 1 + 1 ELSE 0
      /\ \A i \in 1 .. n - 1 + 1 : SubSeq(s, 1, n)[i] = s[1 + i - 1]
  BY <1>1, <1>3, SubSeqProperties
<1>5. /\ SubSeq(s, n + 1, Len(s)) \in Seq(S)
      /\ Len(SubSeq(s, n + 1, Len(s))) =
           IF n + 1 <= Len(s) THEN Len(s) - (n + 1) + 1 ELSE 0
      /\ \A i \in 1 .. Len(s) - (n + 1) + 1 :
           SubSeq(s, n + 1, Len(s))[i] = s[(n + 1) + i - 1]
  BY <1>1, <1>3, SubSeqProperties
<1>6. /\ n - 1 + 1 = n /\ Len(s) - (n + 1) + 1 = Len(s) - n
      /\ ~(n + 1 <= Len(s)) => Len(s) - n = 0
      /\ \A i \in Int : 1 + i - 1 = i /\ (n + 1) + i - 1 = n + i
  BY <1>1
<1>7. /\ Len(SubSeq(s, 1, n)) = n
      /\ \A j \in 1 .. n : SubSeq(s, 1, n)[j] = s[j]
  <2>1. \A j \in 1 .. n : j \in 1 .. n - 1 + 1 /\ 1 + j - 1 = j
    BY <1>1
  <2> QED
    BY <1>1, <1>4, <1>6, <2>1
<1>8. Len(SubSeq(s, n + 1, Len(s))) = Len(s) - n
  BY <1>1, <1>5, <1>6
<1>9. \A j \in 1 .. Len(s) - n : SubSeq(s, n + 1, Len(s))[j] = s[n + j]
  <2>1. \A j \in 1 .. Len(s) - n : j \in 1 .. Len(s) - (n + 1) + 1 /\ (n + 1) + j - 1 = n + j
    BY <1>1
  <2> QED
    BY <1>5, <2>1
<1> QED
  BY <1>4, <1>5, <1>7, <1>8, <1>9, Zenon

-----------------------------------------------------------------------------
(* Words and instructions.                                                 *)

\* Even pointers are word addresses, and the dummy address is none.
LEMMA PointerIs ==
  /\ Addr \subseteq Pointer
  /\ None \in Pointer /\ None \notin Addr
  /\ \A p \in Pointer : WordOf(p) \in Addr /\ (~IsOdd(p) <=> p \in Addr)
<1>1. NumAddr \in Nat \ {0}
  BY WholeWindows
<1>2. \A p \in Pointer : p \in Nat /\ p % NumAddr \in 0 .. NumAddr - 1
  BY <1>1, Division DEF Pointer
<1> QED
  BY <1>1, <1>2 DEF Addr, Pointer, None, WordOf, IsOdd

\* A word of memory.
LEMMA WordIs ==
  ASSUME prog \in Programs, NEW a \in Addr
  PROVE  /\ prog[a] \in [kind : Kinds, len : 1 .. WindowWords, to : Pointer]
         /\ prog[a].kind \in Kinds /\ prog[a].len \in 1 .. WindowWords
         /\ prog[a].to \in Pointer
         /\ \A k : Size(k, prog[a]) \in 1 .. prog[a].len
<1>1. prog[a] \in [kind : Kinds, len : 1 .. WindowWords, to : Pointer]
  BY ProgramAssumption
<1>2. prog[a].len \in 1 .. WindowWords
  BY <1>1
<1> QED
  BY <1>1, <1>2 DEF Size

\* What is decoded from words h, and what is left of them.
LEMMA DecodedIs ==
  ASSUME prog \in Programs, NEW h \in Seq(Addr), h # <<>>, prog[h[1]].len <= Len(h),
         NEW at \in Addr
  PROVE  /\ h[1] \in Addr /\ 1 \in DOMAIN h
         /\ Decoded(h, at) \in InstructionAt
         /\ Decoded(h, at).at = at
         /\ \/ Decoded(h, at).kind = prog[h[1]].kind
            \/ Decoded(h, at).kind = "undef" /\ prog[h[1]].kind = "exit"
         /\ Decoded(h, at).kind # "misaligned"
         /\ Decoded(h, at).words \in Seq(Addr)
         /\ Len(Decoded(h, at).words) = Size(Decoded(h, at).kind, prog[h[1]])
         /\ Len(Decoded(h, at).words) \in 1 .. Len(h)
         /\ \A j \in 1 .. Len(Decoded(h, at).words) : Decoded(h, at).words[j] = h[j]
<1>1. Len(h) \in Nat \ {0} /\ DOMAIN h = 1 .. Len(h)
  BY EmptySeq, LenProperties
<1>2. h[1] \in Addr
  BY <1>1, ElementOfSeq
<1> DEFINE w == prog[h[1]]
           k == IF w.kind = "exit" /\ ~regs.excp THEN "undef" ELSE w.kind
           n == Size(k, w)
<1>3. w.kind \in Kinds /\ n \in 1 .. w.len /\ w.len \in 1 .. WindowWords
  BY <1>2, WordIs
<1>4. n \in 1 .. Len(h)
  BY <1>1, <1>3
<1>5. k \in Kinds /\ k # "misaligned"
  BY <1>3 DEF Kinds
<1>6. k = w.kind \/ (k = "undef" /\ w.kind = "exit")
  OBVIOUS
<1>7. Decoded(h, at) = [at |-> at, kind |-> k, words |-> SubSeq(h, 1, n)]
  BY DEF Decoded
<1>11. /\ Decoded(h, at).at = at /\ Decoded(h, at).kind = k
       /\ Decoded(h, at).words = SubSeq(h, 1, n)
  BY DEF Decoded
<1> HIDE DEF w, k, n
<1>8. /\ SubSeq(h, 1, n) \in Seq(Addr) /\ Len(SubSeq(h, 1, n)) = n
      /\ \A j \in 1 .. n : SubSeq(h, 1, n)[j] = h[j]
  BY <1>4, CutIs
<1>9. at \in Pointer
  BY PointerIs
<1>10. Decoded(h, at) \in InstructionAt
  BY <1>5, <1>7, <1>8, <1>9 DEF InstructionAt
<1>12. Size(k, prog[h[1]]) = n /\ w = prog[h[1]]
  BY DEF w, n
<1> QED
  BY <1>1, <1>2, <1>4, <1>5, <1>6, <1>8, <1>10, <1>11, <1>12

-----------------------------------------------------------------------------
(* Types.                                                                  *)

ICOps == [stage : {"idle"}] \cup [stage : {"fetch", "check", "push"}, at : Window]

DecodedAt == {e \in InstructionAt : e.kind = "misaligned" \/ e.words # <<>>}

\* The types, with the operation of the cache, and that an instruction has a word.
Typed ==
  /\ TypeOK
  /\ icOp \in ICOps
  /\ deToEX \in Seq(DecodedAt)
  /\ deOp.stage = "emit" => deOp.entry \in DecodedAt

\* The operators of the instances are those of the modules.
LEMMA SameOperators ==
  /\ EX!Pointer = Pointer /\ EX!Registers = Registers /\ EX!Frame = Frame /\ EX!Addr = Addr
  /\ \A p, n : EX!Past(p, n) = Past(p, n) /\ EX!IsOdd(p) = IsOdd(p) /\ EX!Size(p, n) = Size(p, n)
  /\ \A a : IC!WindowOf(a) = WindowOf(a) /\ IC!NextWindow(a) = NextWindow(a)
BY DEF EX!Pointer, Pointer, EX!Registers, Registers, EX!Frame, Frame, EX!Addr, Addr,
       EX!Past, Past, EX!IsOdd, IsOdd, EX!Size, Size, IC!WindowOf, WindowOf,
       IC!NextWindow, NextWindow

\* The operation of the cache, by its stage.
LEMMA ICOpIs ==
  ASSUME NEW o \in ICOps
  PROVE  /\ o.stage \in {"idle", "fetch", "check", "push"}
         /\ o.stage # "idle" =>
              /\ o.at \in Window /\ o \in [stage : {"fetch", "check", "push"}, at : Window]
BY DEF ICOps

\* The operation of Decode, by its stage.
LEMMA DEOpIs ==
  ASSUME NEW o \in DEStates
  PROVE  /\ o.stage \in {"top", "drain", "sift", "emit"}
         /\ o.stage = "emit" => o.entry \in InstructionAt
BY DEF DEStates

LEMMA TypedInit == Init => Typed
<1> SUFFICES ASSUME Init PROVE Typed
  OBVIOUS
<1> USE DEF Init, IC!Init, EX!Init
<1>1. StartAddr \in Window /\ StartAddr \in Addr /\ StartAddr \in Pointer /\ 0 \in Addr
  BY ProgramAssumption, WholeWindows, PointerIs DEF Addr
<1>2. EX!TypeOK
  <2>1. regs \in Registers /\ saved \in Registers
    BY <1>1, ProgramAssumption DEF EX!Reset, Registers
  <2>2. stack \in [1 .. MaxDepth -> Frame]
    BY <1>1, ProgramAssumption DEF Frame
  <2> QED
    BY <2>1, <2>2, SameOperators DEF EX!TypeOK
<1>3. deOp \in DEStates /\ deOp.stage = "top"
  BY DEF DEStates, At
<1>4. <<>> \in Seq(Window) /\ <<>> \in Seq(Addr) /\ <<>> \in Seq(InstructionAt)
      /\ <<>> \in Seq(Pointer) /\ <<>> \in Seq(DecodedAt)
  BY EmptySeq
<1>5. TypeOK
  BY <1>1, <1>2, <1>3, <1>4 DEF TypeOK
<1> QED
  BY <1>3, <1>4, <1>5 DEF Typed, ICOps, IC!Idle

\* What the machine does keeps its state in its types.
LEMMA MachineKeepsType ==
  ASSUME EX!TypeOK, UNCHANGED prog,
         NEW p \in Pointer, NEW n \in Nat,
         \/ \E c \in Causes : EX!Raise(c, p)
         \/ \E k : EX!Proceed(k, n, p) \/ EX!Redirect(k, p)
  PROVE  EX!TypeOK'
<1>1. /\ prog \in Programs /\ regs \in Registers /\ saved \in Registers
      /\ stack \in [1 .. MaxDepth -> Frame]
      /\ ended \in {"no", "normal", "double_exception"}
  BY SameOperators DEF EX!TypeOK
<1>2. MaxDepth \in Nat /\ Handler \in [Causes -> Pointer] /\ NumAddr \in Nat \ {0}
  BY ProgramAssumption, WholeWindows
<1>3. \A m \in Nat : \A a \in Pointer : Past(a, m) \in Pointer
  <2> SUFFICES ASSUME NEW m \in Nat, NEW a \in Pointer PROVE Past(a, m) \in Pointer
    OBVIOUS
  <2>1. a + m \in Nat
    BY <1>2 DEF Pointer
  <2>2. (a + m) % NumAddr \in Addr
    BY <1>2, <2>1, Division DEF Addr
  <2> QED
    BY <2>2, PointerIs DEF Past
<1>4. /\ regs.ip \in Pointer /\ saved.ip \in Pointer /\ regs.excp \in BOOLEAN
      /\ regs.sp \in 0 .. MaxDepth
      /\ regs = [ip |-> regs.ip, excp |-> regs.excp, sp |-> regs.sp]
      /\ saved = [ip |-> saved.ip, excp |-> saved.excp, sp |-> saved.sp]
  BY <1>1 DEF Registers
<1> DEFINE Kept == /\ regs' \in Registers /\ saved' \in Registers
                   /\ stack' \in [1 .. MaxDepth -> Frame]
                   /\ ended' \in {"no", "normal", "double_exception"}
<1>5. SUFFICES Kept
  BY <1>1, SameOperators DEF EX!TypeOK
<1>6. ASSUME NEW a \in Pointer, EX!GoTo(a) PROVE Kept
  BY <1>1, <1>6 DEF EX!GoTo, Registers
<1>7. ASSUME NEW c \in Causes, NEW a \in Pointer, EX!Raise(c, a) PROVE Kept
  BY <1>1, <1>2, <1>7 DEF EX!Raise, Registers
<1>8. CASE EX!Call(p)
  <2>1. [ip |-> Past(regs.ip, 2), excp |-> regs.excp] \in Frame
    BY <1>3, <1>4 DEF Frame
  <2>2. stack' \in [1 .. MaxDepth -> Frame]
    <3>1. stack' = [stack EXCEPT ![regs.sp + 1] = [ip |-> Past(regs.ip, 2), excp |-> regs.excp]]
      BY <1>8, SameOperators, Zenon DEF EX!Call
    <3> QED
      BY <1>1, <2>1, <3>1
  <2>3. regs' \in Registers
    <3>1. regs' = [regs EXCEPT !.ip = p, !.sp = regs.sp + 1] /\ regs.sp < MaxDepth
      BY <1>8 DEF EX!Call
    <3>2. regs.sp + 1 \in 0 .. MaxDepth
      BY <1>2, <1>4, <3>1
    <3> QED
      BY <1>1, <3>1, <3>2 DEF Registers
  <2> QED
    BY <1>1, <1>8, <2>2, <2>3 DEF EX!Call
<1>9. CASE EX!Return
  <2>1. stack[regs.sp] \in Frame /\ regs.sp - 1 \in 0 .. MaxDepth
    BY <1>1, <1>2, <1>4, <1>9 DEF EX!Return
  <2> QED
    BY <1>1, <1>9, <2>1 DEF EX!Return, Registers, Frame
<1>10. CASE EX!LeaveHandler
  BY <1>1, <1>10 DEF EX!LeaveHandler, Registers
<1>11. CASE EX!SetReturn(n, p)
  BY <1>1, <1>3, <1>4, <1>11, SameOperators DEF EX!SetReturn, Registers
<1>12. CASE EX!End
  BY <1>1, <1>12 DEF EX!End
<1>13. ASSUME NEW k, EX!Proceed(k, n, p) PROVE Kept
  BY <1>3, <1>4, <1>6, <1>11, <1>12, <1>13, SameOperators DEF EX!Proceed
<1>14. ASSUME NEW k, EX!Redirect(k, p) PROVE Kept
  BY <1>4, <1>6, <1>7, <1>8, <1>9, <1>10, <1>14 DEF EX!Redirect, Causes
<1> QED
  BY <1>7, <1>13, <1>14

\* The sequences the threads cut and extend.
LEMMA Sequences ==
  ASSUME NEW S, NEW s \in Seq(S)
  PROVE  /\ \A e \in S : Append(s, e) \in Seq(S)
         /\ s # <<>> => Head(s) \in S /\ Tail(s) \in Seq(S)
         /\ <<>> \in Seq(S)
BY AppendProperties, HeadTailProperties, EmptySeq

LEMMA ICKeepsType == Typed /\ ICStep => Typed'
<1> SUFFICES ASSUME Typed, ICStep PROVE Typed'
  OBVIOUS
<1>1. /\ internalIP \in Window /\ icOp \in ICOps /\ toDE \in Seq(Window) /\ fromDE \in Seq(Addr)
      /\ \A w \in Window : IC!NextWindow(w) \in Window
      /\ \A a \in Addr : IC!WindowOf(a) \in Window
  BY NextIsWindow, WindowOfWord, SameOperators DEF Typed, TypeOK
<1>2. UNCHANGED <<machineVars, deVars, deToEX, exToDE, redirecting>>
  BY DEF ICStep
<1>3. SUFFICES /\ internalIP' \in Window /\ icOp' \in ICOps
               /\ toDE' \in Seq(Window) /\ fromDE' \in Seq(Addr)
  BY <1>2, SMT DEF Typed, TypeOK, EX!TypeOK, machineVars, deVars
<1>4. CASE IC!BeginFetch
  BY <1>1, <1>4 DEF IC!BeginFetch, ICOps
<1>5. CASE IC!EndFetch
  BY <1>1, <1>5, ICOpIs DEF IC!EndFetch, ICOps
<1>6. CASE IC!ObeySignal
  BY <1>1, <1>6, Sequences DEF IC!ObeySignal, IC!Idle, ICOps
<1>7. CASE IC!NoSignal
  BY <1>1, <1>7, ICOpIs DEF IC!NoSignal, ICOps
<1>8. CASE IC!PushWindow
  BY <1>1, <1>8, ICOpIs, Sequences DEF IC!PushWindow, IC!Idle, ICOps
<1> QED
  BY <1>4, <1>5, <1>6, <1>7, <1>8 DEF ICStep, IC!FetchStep

\* What Decode is left with when it has decoded from words h held for address at.
LEMMA DecodingKeepsType ==
  ASSUME prog \in Programs, NEW h \in Seq(Addr), h # <<>>, prog[h[1]].len <= Len(h),
         NEW at \in Addr, DecodeFrom(h, at)
  PROVE  /\ held' \in Seq(Addr) /\ heldAt' \in Addr /\ deOp' \in DEStates
         /\ deOp'.stage = "emit" /\ deOp'.entry \in DecodedAt
<1> DEFINE e == Decoded(h, at)
<1>1. e \in InstructionAt /\ e.words \in Seq(Addr) /\ Len(e.words) \in 1 .. Len(h)
  BY DecodedIs
<1>2. e.words # <<>>
  BY <1>1, EmptySeq
<1>3. /\ deOp' = [stage |-> "emit", entry |-> e] /\ held' = SubSeq(h, Len(e.words) + 1, Len(h))
      /\ heldAt' = Past(at, Len(e.words))
  BY DEF DecodeFrom
<1> HIDE DEF e
<1>4. held' \in Seq(Addr)
  BY <1>1, <1>3, CutIs
<1>5. heldAt' \in Addr
  BY <1>1, <1>3, LenProperties, PastPast
<1> QED
  BY <1>1, <1>2, <1>3, <1>4, <1>5 DEF DEStates, DecodedAt

\* The words Decode goes on with when a window comes.
LEMMA WordsAppended ==
  ASSUME prog \in Programs, NEW h \in Seq(Addr), NEW w \in Window
  PROVE  /\ h \o WordsFrom(w, 1) \in Seq(Addr) /\ h \o WordsFrom(w, 1) # <<>>
         /\ Len(h) \in Nat /\ Len(h \o WordsFrom(w, 1)) = Len(h) + WindowWords
         /\ prog[(h \o WordsFrom(w, 1))[1]].len <= Len(h \o WordsFrom(w, 1))
         /\ \A j \in 1 .. Len(h) : (h \o WordsFrom(w, 1))[j] = h[j]
         /\ \A j \in 1 .. WindowWords : (h \o WordsFrom(w, 1))[Len(h) + j] = Past(w, j - 1)
<1>1. WindowWords \in Nat /\ WindowWords > 0 /\ w \in Nat /\ w + (1 - 1) = w /\ 1 \in 1 .. WindowWords
      /\ WindowWords - 1 + 1 = WindowWords
  BY WholeWindows
<1> DEFINE f == WordsFrom(w, 1)
           g == h \o f
<1>2. /\ f \in Seq(Addr) /\ Len(f) = WindowWords
      /\ \A j \in 1 .. WindowWords : f[j] = Past(w, j - 1)
  BY <1>1, WordsOfWindow
<1> HIDE DEF f
<1>3. /\ g \in Seq(Addr) /\ Len(g) = Len(h) + WindowWords /\ Len(h) \in Nat
      /\ \A i \in 1 .. Len(h) + WindowWords : g[i] = IF i <= Len(h) THEN h[i] ELSE f[i - Len(h)]
  BY <1>2, ConcatProperties, LenProperties
<1> HIDE DEF g
<1>4. g # <<>> /\ 1 \in 1 .. Len(g)
  BY <1>1, <1>3, EmptySeq
<1>5. prog[g[1]].len <= Len(g)
  <2>1. g[1] \in Addr
    BY <1>3, <1>4, ElementOfSeq
  <2>2. prog[g[1]].len \in 1 .. WindowWords
    BY <2>1, WordIs
  <2> QED
    BY <1>1, <1>3, <2>2
<1>6. \A j \in 1 .. Len(h) : g[j] = h[j]
  BY <1>1, <1>3
<1>7. \A j \in 1 .. WindowWords : g[Len(h) + j] = Past(w, j - 1)
  <2> TAKE j \in 1 .. WindowWords
  <2>1. Len(h) + j \in 1 .. Len(h) + WindowWords /\ ~(Len(h) + j <= Len(h))
        /\ (Len(h) + j) - Len(h) = j
    BY <1>1, <1>3
  <2> QED
    BY <1>2, <1>3, <2>1
<1> QED
  BY <1>3, <1>4, <1>5, <1>6, <1>7 DEF g, f

LEMMA DEKeepsType == Typed /\ DEStep => Typed'
<1> SUFFICES ASSUME Typed, DEStep PROVE Typed'
  OBVIOUS
<1>1. /\ prog \in Programs /\ toDE \in Seq(Window) /\ fromDE \in Seq(Addr)
      /\ held \in Seq(Addr) /\ heldAt \in Addr /\ discardUntil \in Addr \cup {None}
      /\ deOp \in DEStates /\ deToEX \in Seq(DecodedAt) /\ exToDE \in Seq(Pointer)
      /\ deOp.stage = "emit" => deOp.entry \in DecodedAt
  BY DEF Typed, TypeOK, EX!TypeOK
<1>2. UNCHANGED <<internalIP, icOp, machineVars, redirecting>>
  BY SMT DEF DEStep, NoChange, Acknowledge, Drain, Sift, Idles, DecodeHeld, DecodeNext, Emit,
             fetchVars
<1> DEFINE Kept ==
      /\ toDE' \in Seq(Window) /\ fromDE' \in Seq(Addr)
      /\ held' \in Seq(Addr) /\ heldAt' \in Addr /\ discardUntil' \in Addr \cup {None}
      /\ deOp' \in DEStates /\ deToEX' \in Seq(DecodedAt) /\ exToDE' \in Seq(Pointer)
      /\ deOp'.stage = "emit" => deOp'.entry \in DecodedAt
<1>3. SUFFICES Kept
  <2>1. \A s : s \in Seq(DecodedAt) => s \in Seq(InstructionAt)
    BY DEF DecodedAt
  <2>2. EX!TypeOK'
    BY <1>2, SMT DEF Typed, TypeOK, EX!TypeOK, machineVars
  <2>3. /\ Kept => TypeOK'
    BY <1>2, <2>1, <2>2, SMT DEF Typed, TypeOK
  <2> QED
    BY <1>2, <2>3, SMT DEF Typed
<1>4. \A s : s \in {"top", "drain", "sift"} => At(s) \in DEStates /\ At(s).stage = s
  BY DEF At, DEStates
<1> HIDE DEF Kept
<1>5. CASE NoChange
  BY <1>1, <1>4, <1>5, SMT DEF NoChange, fetchVars, Kept
<1>6. CASE Acknowledge
  <2> DEFINE p == Head(exToDE)
  <2>1. p \in Pointer /\ Tail(exToDE) \in Seq(Pointer)
    BY <1>1, <1>6, Sequences DEF Acknowledge
  <2>2. WordOf(p) \in Addr /\ (~IsOdd(p) => p \in Addr)
    BY <2>1, PointerIs
  <2>3. MisalignedAt(p) \in DecodedAt
    BY <2>1 DEF MisalignedAt, DecodedAt, InstructionAt
  <2>4. /\ exToDE' = Tail(exToDE) /\ fromDE' = Append(fromDE, WordOf(p))
        /\ UNCHANGED <<toDE, heldAt>>
    BY <1>6 DEF Acknowledge
  <2>5. fromDE' \in Seq(Addr)
    BY <1>1, <2>2, <2>4, Sequences
  <2>6. CASE IsOdd(p)
    <3>1. /\ deToEX' = Append(deToEX, MisalignedAt(p)) /\ discardUntil' = None
          /\ UNCHANGED <<held, deOp>>
      BY <1>6, <2>6 DEF Acknowledge
    <3>2. deToEX' \in Seq(DecodedAt)
      BY <1>1, <2>3, <3>1, Sequences
    <3> QED
      BY <1>1, <2>1, <2>4, <2>5, <3>1, <3>2 DEF Kept
  <2>7. CASE ~IsOdd(p)
    <3>1. /\ discardUntil' = p /\ held' = <<>> /\ deOp' = At("drain") /\ UNCHANGED deToEX
      BY <1>6, <2>7 DEF Acknowledge
    <3> QED
      BY <1>1, <1>4, <2>1, <2>2, <2>4, <2>5, <2>7, <3>1, EmptySeq DEF Kept
  <2> QED
    BY <2>6, <2>7
<1>7. CASE Drain
  BY <1>1, <1>4, <1>7, EmptySeq DEF Drain, Kept
<1>8. CASE Sift
  <2>1. Head(toDE) \in Window /\ Tail(toDE) \in Seq(Window) /\ discardUntil \in Addr
    BY <1>1, <1>8, Sequences DEF Sift
  <2>2. held' \in Seq(Addr)
    <3> DEFINE i == (discardUntil % WindowWords) + 1
    <3>1. i \in 1 .. WindowWords
      <4>1. discardUntil % WindowWords \in 0 .. WindowWords - 1 /\ WindowWords \in Nat
        BY <2>1, AfterWindow, WholeWindows
      <4> QED
        BY <4>1
    <3> HIDE DEF i
    <3>2. WordsFrom(Head(toDE), i) \in Seq(Addr)
      BY <2>1, <3>1, WordsOfWindow
    <3> QED
      BY <1>1, <1>8, <3>2 DEF Sift, i
  <2> QED
    BY <1>1, <1>8, <2>1, <2>2 DEF Sift, Kept
<1>9. CASE Idles
  BY <1>1, <1>4, <1>9, SMT DEF Idles, fetchVars, Kept
<1>10. CASE DecodeHeld
  <2>1. /\ held' \in Seq(Addr) /\ heldAt' \in Addr /\ deOp' \in DEStates
        /\ deOp'.stage = "emit" /\ deOp'.entry \in DecodedAt
    BY <1>1, <1>10, DecodingKeepsType DEF DecodeHeld, IsFull
  <2> QED
    BY <1>1, <1>10, <2>1, SMT DEF DecodeHeld, fetchVars, Kept
<1>11. CASE DecodeNext
  <2> DEFINE h == held \o WordsFrom(Head(toDE), 1)
             at == IF held = <<>> THEN Head(toDE) ELSE heldAt
  <2>1. Head(toDE) \in Window /\ Tail(toDE) \in Seq(Window) /\ toDE' = Tail(toDE)
    BY <1>1, <1>11, Sequences DEF DecodeNext
  <2>2. at \in Addr
    BY <1>1, <2>1, WholeWindows
  <2>3. h \in Seq(Addr) /\ h # <<>> /\ prog[h[1]].len <= Len(h)
    BY <1>1, <2>1, WordsAppended
  <2>4. DecodeFrom(h, at)
    BY <1>11 DEF DecodeNext
  <2> HIDE DEF h, at
  <2>5. /\ held' \in Seq(Addr) /\ heldAt' \in Addr /\ deOp' \in DEStates
        /\ deOp'.stage = "emit" /\ deOp'.entry \in DecodedAt
    BY <1>1, <2>2, <2>3, <2>4, DecodingKeepsType
  <2> QED
    BY <1>1, <1>11, <2>1, <2>5 DEF DecodeNext, Kept
<1>12. CASE Emit
  <2>1. Append(deToEX, deOp.entry) \in Seq(DecodedAt)
    BY <1>1, <1>12, Sequences DEF Emit
  <2> QED
    BY <1>1, <1>4, <1>12, <2>1, SMT DEF Emit, fetchVars, Kept
<1> QED
  BY <1>5, <1>6, <1>7, <1>8, <1>9, <1>10, <1>11, <1>12 DEF DEStep

LEMMA EXKeepsType == Typed /\ EXStep => Typed'
<1> SUFFICES ASSUME Typed, EXStep PROVE Typed'
  OBVIOUS
<1>1. /\ EX!TypeOK /\ prog \in Programs /\ deToEX \in Seq(DecodedAt) /\ exToDE \in Seq(Pointer)
      /\ redirecting \in BOOLEAN /\ regs.ip \in Pointer
  BY SameOperators DEF Typed, TypeOK, EX!TypeOK, Registers
<1>2. UNCHANGED <<fetchVars, prog, deVars>>
  BY SMT DEF EXStep, Discard, Perform, TellDecode, machineVars
<1> DEFINE Kept ==
      /\ EX!TypeOK' /\ deToEX' \in Seq(DecodedAt) /\ exToDE' \in Seq(Pointer)
      /\ redirecting' \in BOOLEAN
<1>3. SUFFICES Kept
  <2>1. \A s : s \in Seq(DecodedAt) => s \in Seq(InstructionAt)
    BY DEF DecodedAt
  <2> QED
    BY <1>2, <2>1, SMT DEF Typed, TypeOK, fetchVars, deVars
<1> HIDE DEF Kept
<1>4. CASE Discard
  <2>1. EX!TypeOK'
    BY <1>1, <1>4, SMT DEF Discard, EX!TypeOK, machineVars
  <2>2. deToEX' \in Seq(DecodedAt)
    BY <1>1, <1>4, Sequences DEF Discard, Waiting
  <2> QED
    BY <1>1, <1>4, <2>1, <2>2 DEF Discard, Kept
<1>5. CASE Perform
  <2> DEFINE e == Head(deToEX)
             p == prog[e.words[Len(e.words)]].to
  <2>1. e \in DecodedAt /\ deToEX' \in Seq(DecodedAt)
    BY <1>1, <1>5, Sequences DEF Perform, Waiting
  <2>2. e.at \in Pointer /\ e.words \in Seq(Addr) /\ Len(e.words) \in Nat
    <3>1. e.at \in Pointer /\ e.words \in Seq(Addr)
      BY <2>1 DEF DecodedAt, InstructionAt
    <3> QED
      BY <3>1, LenProperties
  <2>3. e.kind # "misaligned" => p \in Pointer
    <3> SUFFICES ASSUME e.kind # "misaligned" PROVE p \in Pointer
      OBVIOUS
    <3>1. e.words # <<>>
      BY <2>1 DEF DecodedAt
    <3>2. Len(e.words) \in 1 .. Len(e.words)
      BY <2>2, <3>1, EmptySeq
    <3>3. e.words[Len(e.words)] \in Addr
      BY <2>2, <3>2, ElementOfSeq
    <3> QED
      BY <1>1, <3>3, WordIs
  <2>4. /\ UNCHANGED prog /\ exToDE' = exToDE
        /\ \/ EX!Raise("misaligned_ip", e.at)
           \/ /\ e.kind # "misaligned"
              /\ \E k : EX!Proceed(k, Len(e.words), p) \/ EX!Redirect(k, p)
    BY <1>5 DEF Perform
  <2>5. redirecting' \in BOOLEAN
    BY <1>1, <1>5 DEF Perform
  <2> HIDE DEF e, p
  <2>6. CASE EX!Raise("misaligned_ip", e.at)
    <3>1. "misaligned_ip" \in Causes
      BY DEF Causes
    <3> QED
      BY <1>1, <2>1, <2>2, <2>4, <2>5, <2>6, <3>1, MachineKeepsType DEF Kept
  <2>7. CASE e.kind # "misaligned" /\ \E k : EX!Proceed(k, Len(e.words), p) \/ EX!Redirect(k, p)
    BY <1>1, <2>1, <2>2, <2>3, <2>4, <2>5, <2>7, MachineKeepsType DEF Kept
  <2> QED
    BY <2>4, <2>6, <2>7
<1>6. CASE TellDecode
  <2>1. EX!TypeOK'
    BY <1>1, <1>6, SMT DEF TellDecode, EX!TypeOK, machineVars
  <2>2. exToDE' \in Seq(Pointer)
    BY <1>1, <1>6, Sequences DEF TellDecode
  <2> QED
    BY <1>1, <1>6, <2>1, <2>2 DEF TellDecode, Kept
<1> QED
  BY <1>4, <1>5, <1>6 DEF EXStep

LEMMA TypedStep == Typed /\ [Next]_vars => Typed'
<1>1. ASSUME Typed, UNCHANGED vars PROVE Typed'
  BY <1>1, SMT DEF vars, Typed, TypeOK, EX!TypeOK
<1> QED
  BY <1>1, ICKeepsType, DEKeepsType, EXKeepsType DEF Next

LEMMA AlwaysTyped == Spec => []Typed
<1> QED
  BY TypedInit, TypedStep, PTL DEF Spec

\* What the threads of Decode and Execute and the pipes between them hold is of its type,
\* for every program and every length of the pipes (Decode.cpp, Execute.cpp).
THEOREM PipelineTypeCorrect == Spec => []TypeOK
<1>1. Typed => TypeOK
  BY DEF Typed
<1> QED
  BY <1>1, AlwaysTyped, PTL

-----------------------------------------------------------------------------
(* Where decoding ends; m is what memory holds.                            *)

\* How many words an instruction with header w may turn out to have.
Sizes(w) == {Size(k, w) : k \in IF w.kind = "exit" THEN {"exit", "undef"} ELSE {w.kind}}

\* B has pairs of an address and of the words that are held from there on: none asks
\* for more words, and what decoding leaves of them is such a pair again.
EndsWithin(m, B) ==
  \A b \in B :
    /\ m[b[1]].len <= b[2]
    /\ \A n \in Sizes(m[b[1]]) : n < b[2] => <<Past(b[1], n), b[2] - n>> \in B

\* Decoding n words from address a on ends with the last of them.
Fits(m, a, n) ==
  \E B \in SUBSET (Addr \X (1 .. WindowWords)) : <<a, n>> \in B /\ EndsWithin(m, B)

\* Decoding from a on ends with the window of a; and from the start of any window.
TargetFits(m, a) == Fits(m, a, WindowWords - (a % WindowWords))
WindowsFit(m) == \A w \in Window : Fits(m, w, WindowWords)

\* Decode may be told of address p: an odd one does not make it drop what it holds.
MayBeTold(m, p) == IF IsOdd(p) THEN WindowsFit(m) ELSE TargetFits(m, p)

\* An instruction is made of the words at its address.
EntryRight(m, e) ==
  \/ e.kind = "misaligned" /\ e.words = <<>>
  \/ /\ e.at \in Addr
     /\ e.kind = m[e.at].kind \/ (e.kind = "undef" /\ m[e.at].kind = "exit")
     /\ Len(e.words) = Size(e.kind, m[e.at])
     /\ \A j \in DOMAIN e.words : e.words[j] = Past(e.at, j - 1)

\* Words h are those at address a.
WordsOf(h, a) == \A j \in 1 .. Len(h) : h[j] = Past(a, j - 1)

\* If decoding ends with the words, the first instruction is complete, and decoding
\* ends with those that are left.
LEMMA FitsIs ==
  ASSUME NEW m, NEW a \in Addr, NEW n \in Nat, Fits(m, a, n)
  PROVE  /\ m[a].len <= n
         /\ \A k \in Sizes(m[a]) : k < n => Fits(m, Past(a, k), n - k)
<1>1. PICK B \in SUBSET (Addr \X (1 .. WindowWords)) : <<a, n>> \in B /\ EndsWithin(m, B)
  BY DEF Fits
<1>2. /\ m[a].len <= n
      /\ \A k \in Sizes(m[a]) : k < n => <<Past(a, k), n - k>> \in B
  BY <1>1 DEF EndsWithin
<1> QED
  BY <1>1, <1>2 DEF Fits

\* The size of an instruction is one that was allowed for.
LEMMA SizeIsKnown ==
  ASSUME NEW w, NEW k, k = w.kind \/ (k = "undef" /\ w.kind = "exit")
  PROVE  Size(k, w) \in Sizes(w)
<1>1. k \in IF w.kind = "exit" THEN {"exit", "undef"} ELSE {w.kind}
  OBVIOUS
<1> QED
  BY <1>1 DEF Sizes

\* From words h that are those at address at, Decode makes the instruction there, and
\* goes on with the words after it.
LEMMA DecodingIsRight ==
  ASSUME prog \in Programs, NEW h \in Seq(Addr), h # <<>>, prog[h[1]].len <= Len(h),
         NEW at \in Addr, WordsOf(h, at), DecodeFrom(h, at)
  PROVE  /\ EntryRight(prog, deOp'.entry) /\ deOp'.entry.kind # "misaligned"
         /\ WordsOf(held', heldAt')
         /\ Past(heldAt', Len(held')) = Past(at, Len(h))
         /\ held' # <<>> /\ Fits(prog, at, Len(h)) => Fits(prog, heldAt', Len(held'))
<1> DEFINE e == Decoded(h, at)
           n == Len(e.words)
<1>1. /\ h[1] \in Addr /\ 1 \in DOMAIN h /\ e \in InstructionAt /\ e.at = at
      /\ e.kind = prog[h[1]].kind \/ (e.kind = "undef" /\ prog[h[1]].kind = "exit")
      /\ e.kind # "misaligned" /\ e.words \in Seq(Addr)
      /\ n = Size(e.kind, prog[h[1]]) /\ n \in 1 .. Len(h)
      /\ \A j \in 1 .. n : e.words[j] = h[j]
  BY DecodedIs
<1>2. /\ deOp' = [stage |-> "emit", entry |-> e]
      /\ held' = SubSeq(h, n + 1, Len(h)) /\ heldAt' = Past(at, n)
  BY DEF DecodeFrom
<1>3. deOp'.entry = e
  BY <1>2
<1>4. Len(h) \in Nat /\ DOMAIN h = 1 .. Len(h) /\ DOMAIN e.words = 1 .. n /\ n \in Nat
  BY <1>1, LenProperties
<1> HIDE DEF e
<1>5. h[1] = at
  BY <1>1, <1>4, PastPast DEF WordsOf
<1>6. \A j \in 1 .. n : e.words[j] = Past(at, j - 1)
  BY <1>1, <1>4 DEF WordsOf
<1>7. EntryRight(prog, e)
  BY <1>1, <1>4, <1>5, <1>6 DEF EntryRight
<1>8. /\ held' \in Seq(Addr) /\ Len(held') = Len(h) - n
      /\ \A j \in 1 .. Len(h) - n : held'[j] = h[n + j]
  BY <1>1, <1>2, CutIs
<1>9. \A j \in Nat : Past(heldAt', j) = Past(at, n + j)
  BY <1>2, <1>4, PastPast
<1>10. WordsOf(held', heldAt')
  <2> SUFFICES ASSUME NEW j \in 1 .. Len(h) - n PROVE held'[j] = Past(heldAt', j - 1)
    BY <1>8 DEF WordsOf
  <2>1. n + j \in 1 .. Len(h) /\ j - 1 \in Nat /\ (n + j) - 1 = n + (j - 1)
    BY <1>1, <1>4
  <2> QED
    BY <1>8, <1>9, <2>1 DEF WordsOf
<1>11. Past(heldAt', Len(held')) = Past(at, Len(h))
  <2>1. Len(held') \in Nat /\ n + Len(held') = Len(h)
    BY <1>1, <1>4, <1>8
  <2> QED
    BY <1>9, <2>1
<1>12. ASSUME held' # <<>>, Fits(prog, at, Len(h)) PROVE Fits(prog, heldAt', Len(held'))
  <2>1. n < Len(h)
    BY <1>1, <1>4, <1>8, <1>12, EmptySeq
  <2>2. n \in Sizes(prog[at])
    BY <1>1, <1>5, SizeIsKnown
  <2> QED
    BY <1>2, <1>4, <1>8, <1>12, <2>1, <2>2, FitsIs
<1> QED
  BY <1>1, <1>3, <1>7, <1>10, <1>11, <1>12

-----------------------------------------------------------------------------
(* The windows to come.                                                    *)

\* Windows that no signal can keep back any more.
Sent == Len(toDE) + (IF icOp.stage = "push" THEN 1 ELSE 0)

\* The window that comes after them, if there is no further signal.
Start ==
  IF fromDE # <<>> THEN WindowOf(fromDE[Len(fromDE)])
  ELSE IF icOp.stage \in {"fetch", "check"} THEN icOp.at ELSE internalIP

\* The windows Decode receives, the first one next.
Coming(i) ==
  IF i <= Len(toDE) THEN toDE[i] ELSE IF i <= Sent THEN icOp.at ELSE Start

\* From the i-th on they follow each other.
ChainFrom(i) == \A j \in Nat : i <= j /\ j <= Sent => Coming(j + 1) = NextWindow(Coming(j))

\* The internal IP is that of the operation, or the one after it.
Counted ==
  /\ icOp.stage = "fetch" => icOp.at = internalIP
  /\ icOp.stage \in {"check", "push"} => internalIP = NextWindow(icOp.at)

\* The cache sends what was to come, and goes on with the window after it.
LEMMA ICKeepsComing ==
  ASSUME Typed, Counted, ICStep
  PROVE  /\ Counted' /\ Sent \in Nat /\ Sent' \in Nat
         /\ \A i \in Nat \ {0} : i <= Sent + 1 => Coming(i)' = Coming(i)
         /\ \/ Sent' = Sent
            \/ /\ Sent' = Sent + 1
               /\ \A i \in Nat : i = Sent + 1 => Coming(i + 1)' = NextWindow(Coming(i))
<1>1. /\ internalIP \in Window /\ icOp \in ICOps /\ toDE \in Seq(Window) /\ fromDE \in Seq(Addr)
      /\ \A w : IC!NextWindow(w) = NextWindow(w) /\ IC!WindowOf(w) = WindowOf(w)
      /\ Len(toDE) \in Nat
  BY SameOperators, LenProperties DEF Typed, TypeOK
<1>2. CASE IC!BeginFetch
  <2>1. /\ icOp.stage = "idle" /\ icOp'.stage = "fetch" /\ icOp'.at = internalIP
        /\ UNCHANGED <<internalIP, toDE, fromDE>>
    BY <1>2 DEF IC!BeginFetch
  <2> QED
    BY <1>1, <2>1 DEF Counted, Sent, Coming, Start
<1>3. CASE IC!EndFetch
  <2>1. /\ icOp.stage = "fetch" /\ icOp'.stage = "check" /\ icOp'.at = icOp.at
        /\ internalIP' = NextWindow(internalIP) /\ UNCHANGED <<toDE, fromDE>>
    BY <1>1, <1>3, ICOpIs DEF IC!EndFetch
  <2> QED
    BY <1>1, <2>1 DEF Counted, Sent, Coming, Start
<1>4. CASE IC!ObeySignal
  <2>1. /\ icOp.stage = "check" /\ fromDE # <<>> /\ icOp'.stage = "idle" /\ UNCHANGED toDE
        /\ internalIP' = WindowOf(Head(fromDE)) /\ fromDE' = Tail(fromDE)
    BY <1>1, <1>4 DEF IC!ObeySignal, IC!Idle
  <2>2. Start' = Start
    <3>1. /\ Len(fromDE) \in Nat \ {0} /\ Len(Tail(fromDE)) = Len(fromDE) - 1
          /\ Tail(fromDE) \in Seq(Addr)
          /\ \A i \in 1 .. Len(fromDE) - 1 : Tail(fromDE)[i] = fromDE[i + 1]
      BY <1>1, <2>1, TailIs, EmptySeq
    <3>2. CASE Len(fromDE) = 1
      <4>1. Tail(fromDE) = <<>>
        <5>1. Len(Tail(fromDE)) = 0
          BY <3>1, <3>2
        <5> QED
          BY <3>1, <5>1, EmptyIs, Zenon
      <4>2. Head(fromDE) = fromDE[Len(fromDE)]
        BY <1>1, <3>2
      <4>3. Start' = internalIP'
        <5>1. fromDE' = <<>> /\ icOp'.stage \notin {"fetch", "check"}
          BY <2>1, <4>1
        <5> QED
          BY <5>1 DEF Start
      <4>4. Start = WindowOf(fromDE[Len(fromDE)])
        BY <2>1 DEF Start
      <4> QED
        BY <2>1, <4>2, <4>3, <4>4
    <3>3. CASE Len(fromDE) > 1
      <4>1. Tail(fromDE) # <<>> /\ Tail(fromDE)[Len(fromDE) - 1] = fromDE[Len(fromDE)]
        <5>1. Len(fromDE) - 1 \in 1 .. Len(fromDE) - 1 /\ (Len(fromDE) - 1) + 1 = Len(fromDE)
              /\ Len(Tail(fromDE)) # 0
          BY <3>1, <3>3
        <5> QED
          BY <3>1, <5>1, EmptyIs
      <4>2. Start' = WindowOf(fromDE'[Len(fromDE')])
        <5>1. fromDE' # <<>>
          BY <2>1, <4>1
        <5> QED
          BY <5>1 DEF Start
      <4>3. Start = WindowOf(fromDE[Len(fromDE)])
        BY <2>1 DEF Start
      <4>4. fromDE'[Len(fromDE')] = fromDE[Len(fromDE)]
        BY <2>1, <3>1, <4>1
      <4> QED
        BY <4>2, <4>3, <4>4
    <3> QED
      BY <3>1, <3>2, <3>3
  <2> QED
    BY <1>1, <2>1, <2>2 DEF Counted, Sent, Coming
<1>5. CASE IC!NoSignal
  <2>1. /\ icOp.stage = "check" /\ fromDE = <<>> /\ icOp'.stage = "push" /\ icOp'.at = icOp.at
        /\ UNCHANGED <<internalIP, toDE, fromDE>>
    BY <1>1, <1>5, ICOpIs DEF IC!NoSignal
  <2>2. Sent = Len(toDE) /\ Sent' = Len(toDE) + 1 /\ Start = icOp.at /\ Start' = internalIP
    BY <1>1, <2>1 DEF Sent, Start
  <2>3. internalIP = NextWindow(icOp.at)
    BY <2>1 DEF Counted
  <2>4. ASSUME NEW i \in Nat, i = Sent + 1 PROVE Coming(i + 1)' = NextWindow(Coming(i))
    <3>1. ~(i + 1 <= Len(toDE')) /\ ~(i + 1 <= Sent') /\ ~(i <= Len(toDE)) /\ ~(i <= Sent)
      BY <1>1, <2>1, <2>2, <2>4
    <3>2. Coming(i + 1)' = internalIP
      BY <2>2, <3>1 DEF Coming
    <3>3. Coming(i) = icOp.at
      BY <2>2, <3>1 DEF Coming
    <3> QED
      BY <2>3, <3>2, <3>3
  <2>5. \A i \in Nat \ {0} : i <= Sent + 1 => Coming(i)' = Coming(i)
    BY <1>1, <2>1, <2>2 DEF Coming
  <2> QED
    BY <1>1, <2>1, <2>2, <2>3, <2>4, <2>5 DEF Counted
<1>6. CASE IC!PushWindow
  <2>1. /\ icOp.stage = "push" /\ icOp'.stage = "idle" /\ icOp.at \in Window
        /\ toDE' = Append(toDE, icOp.at) /\ UNCHANGED <<internalIP, fromDE>>
    BY <1>1, <1>6, ICOpIs DEF IC!PushWindow, IC!Idle
  <2>2. /\ Len(toDE') = Len(toDE) + 1 /\ toDE'[Len(toDE) + 1] = icOp.at
        /\ \A i \in 1 .. Len(toDE) : toDE'[i] = toDE[i]
    BY <1>1, <2>1, AppendIs
  <2>3. Sent' = Sent /\ Sent = Len(toDE) + 1 /\ Start' = Start
    BY <1>1, <2>1, <2>2 DEF Sent, Start
  <2> QED
    BY <1>1, <2>1, <2>2, <2>3 DEF Counted, Coming
<1> QED
  BY <1>2, <1>3, <1>4, <1>5, <1>6 DEF ICStep, IC!FetchStep

\* A window that Decode takes was the next to come.
LEMMA TakenComing ==
  ASSUME Typed, toDE # <<>>, toDE' = Tail(toDE), UNCHANGED <<icOp, internalIP, fromDE>>
  PROVE  /\ Sent \in Nat \ {0} /\ Sent' = Sent - 1 /\ Head(toDE) = Coming(1)
         /\ \A i \in Nat \ {0} : Coming(i)' = Coming(i + 1)
<1>1. /\ toDE \in Seq(Window) /\ Len(toDE) \in Nat \ {0} /\ Len(toDE') = Len(toDE) - 1
      /\ \A i \in 1 .. Len(toDE) - 1 : toDE'[i] = toDE[i + 1]
  BY TailIs, EmptySeq DEF Typed, TypeOK
<1>2. Sent \in Nat \ {0} /\ Sent' = Sent - 1 /\ Start' = Start
  BY <1>1 DEF Sent, Start
<1>3. Head(toDE) = Coming(1)
  BY <1>1 DEF Coming
<1>4. ASSUME NEW i \in Nat \ {0} PROVE Coming(i)' = Coming(i + 1)
  <2>1. /\ i <= Len(toDE') <=> i + 1 <= Len(toDE)
        /\ i <= Sent' <=> i + 1 <= Sent
        /\ i <= Len(toDE') => toDE'[i] = toDE[i + 1]
    BY <1>1, <1>2
  <2> QED
    BY <1>2, <2>1 DEF Coming
<1> QED
  BY <1>2, <1>3, <1>4

\* What is to come depends on nothing else.
LEMMA SameComing ==
  ASSUME UNCHANGED fetchVars
  PROVE  Sent' = Sent /\ \A i : Coming(i)' = Coming(i)
BY SMT DEF fetchVars, Sent, Coming, Start

-----------------------------------------------------------------------------
(* Decode is in step with the windows.                                     *)

\* Execute sends Decode only where an instruction ends with the window.
TargetsFit == redirecting => MayBeTold(prog, regs.ip)

\* This is so where Decode is sent; nothing is held while a target is looked for.
TargetsKnown ==
  /\ \A i \in DOMAIN exToDE : MayBeTold(prog, exToDE[i])
  /\ discardUntil # None => TargetFits(prog, discardUntil) /\ held = <<>>
  /\ deOp.stage = "drain" => discardUntil # None

\* Windows follow each other, but for one that was on its way when Decode began to
\* look for a target.
Stream ==
  \/ WindowsFit(prog)
  \/ deOp.stage = "drain"
  \/ ChainFrom(IF discardUntil = None THEN 1 ELSE 2)

\* What is held is what Decode thinks it is, and either decoding ends with it or the
\* window that follows it comes next.
HeldRight ==
  /\ WordsOf(held, heldAt)
  /\ held # <<>> =>
       \/ Fits(prog, heldAt, Len(held))
       \/ ~WindowsFit(prog) /\ Coming(1) = Past(heldAt, Len(held))

EntriesRight ==
  /\ \A i \in DOMAIN deToEX : EntryRight(prog, deToEX[i])
  /\ deOp.stage = "emit" => EntryRight(prog, deOp.entry) /\ deOp.entry.kind # "misaligned"

InStep == Counted /\ TargetsKnown /\ Stream /\ HeldRight /\ EntriesRight

LEMMA InStepInit == Init => InStep
<1> SUFFICES ASSUME Init PROVE InStep
  OBVIOUS
<1>1. /\ toDE = <<>> /\ held = <<>> /\ deToEX = <<>> /\ exToDE = <<>> /\ discardUntil = None
      /\ deOp.stage = "top" /\ icOp.stage = "idle"
  BY DEF Init, IC!Init, IC!Idle, At
<1>2. Sent = 0
  BY <1>1 DEF Sent
<1>3. ChainFrom(1)
  BY <1>2 DEF ChainFrom
<1> QED
  BY <1>1, <1>3 DEF InStep, Counted, TargetsKnown, Stream, HeldRight, EntriesRight, WordsOf

LEMMA ICKeepsInStep == Typed /\ InStep /\ ICStep => InStep'
<1> SUFFICES ASSUME Typed, InStep, ICStep PROVE InStep'
  OBVIOUS
<1>1. UNCHANGED <<prog, held, heldAt, discardUntil, deOp, deToEX, exToDE>>
  BY DEF ICStep, machineVars, deVars
<1>2. /\ Counted' /\ Sent \in Nat /\ Sent' \in Nat
      /\ \A i \in Nat \ {0} : i <= Sent + 1 => Coming(i)' = Coming(i)
      /\ \/ Sent' = Sent
         \/ /\ Sent' = Sent + 1
            /\ \A i \in Nat : i = Sent + 1 => Coming(i + 1)' = NextWindow(Coming(i))
  BY ICKeepsComing DEF InStep
<1>3. ASSUME NEW i \in {1, 2}, ChainFrom(i) PROVE ChainFrom(i)'
  <2> SUFFICES ASSUME NEW j \in Nat, i <= j, j <= Sent'
               PROVE  Coming(j + 1)' = NextWindow(Coming(j)')
    BY DEF ChainFrom, NextWindow
  <2>1. j \in Nat \ {0} /\ j + 1 \in Nat \ {0}
    OBVIOUS
  <2>2. CASE j <= Sent
    <3>1. Coming(j + 1)' = Coming(j + 1) /\ Coming(j)' = Coming(j)
      BY <1>2, <2>1, <2>2
    <3> QED
      BY <1>3, <2>2, <3>1 DEF ChainFrom
  <2>3. CASE j = Sent + 1
    <3>1. Coming(j)' = Coming(j)
      BY <1>2, <2>1, <2>3
    <3>2. Coming(j + 1)' = NextWindow(Coming(j))
      BY <1>2, <2>3
    <3> QED
      BY <3>1, <3>2
  <2> QED
    BY <1>2, <2>2, <2>3
<1>4. Stream'
  <2>1. ChainFrom(IF discardUntil = None THEN 1 ELSE 2) =>
          ChainFrom(IF discardUntil = None THEN 1 ELSE 2)'
    BY <1>1, <1>3
  <2> QED
    BY <1>1, <2>1 DEF InStep, Stream
<1>5. HeldRight'
  <2>1. Coming(1)' = Coming(1)
    BY <1>2
  <2> QED
    BY <1>1, <2>1 DEF InStep, HeldRight
<1>6. TargetsKnown' /\ EntriesRight'
  BY <1>1 DEF InStep, TargetsKnown, EntriesRight
<1> QED
  BY <1>2, <1>4, <1>5, <1>6 DEF InStep

\* Steps that neither take a window nor change what is held.
LEMMA QuietKeepsInStep ==
  ASSUME InStep, deOp.stage # "drain",
         UNCHANGED <<fetchVars, prog, held, heldAt, discardUntil, exToDE>>,
         deOp'.stage \in {"top", "sift"}, EntriesRight'
  PROVE  InStep'
<1>1. /\ UNCHANGED fetchVars /\ Sent' = Sent /\ \A i : Coming(i)' = Coming(i)
      /\ UNCHANGED <<prog, held, heldAt, discardUntil, exToDE>>
  BY SameComing
<1>2. Counted'
  BY <1>1, SMT DEF InStep, Counted, fetchVars
<1>3. \A i : ChainFrom(i) => ChainFrom(i)'
  BY <1>1 DEF ChainFrom, NextWindow
<1>4. Stream'
  <2>1. ChainFrom(IF discardUntil = None THEN 1 ELSE 2) =>
          ChainFrom(IF discardUntil = None THEN 1 ELSE 2)'
    BY <1>1, <1>3
  <2> QED
    BY <1>1, <2>1 DEF InStep, Stream
<1>5. HeldRight'
  BY <1>1 DEF InStep, HeldRight
<1>6. TargetsKnown'
  BY <1>1 DEF InStep, TargetsKnown
<1> QED
  BY <1>2, <1>4, <1>5, <1>6 DEF InStep

LEMMA AcknowledgeKeepsInStep == Typed /\ InStep /\ Acknowledge => InStep'
<1> SUFFICES ASSUME Typed, InStep, Acknowledge PROVE InStep'
  OBVIOUS
<1> DEFINE p == Head(exToDE)
<1>1. /\ UNCHANGED <<internalIP, icOp, toDE, prog, heldAt>> /\ deOp.stage = "top"
      /\ exToDE # <<>> /\ exToDE' = Tail(exToDE)
  BY DEF Acknowledge, machineVars
<1>2. Counted'
  BY <1>1 DEF InStep, Counted
<1>3. /\ exToDE \in Seq(Pointer) /\ deToEX \in Seq(DecodedAt) /\ DOMAIN exToDE = 1 .. Len(exToDE)
      /\ Len(exToDE) \in Nat \ {0} /\ p = exToDE[1] /\ p \in Pointer
  BY <1>1, LenProperties, EmptySeq, Sequences DEF Typed, TypeOK
<1>4. MayBeTold(prog, p)
  BY <1>3 DEF InStep, TargetsKnown
<1>5. \A i \in DOMAIN exToDE' : MayBeTold(prog, exToDE'[i])
  <2> SUFFICES ASSUME NEW i \in DOMAIN exToDE' PROVE MayBeTold(prog, exToDE'[i])
    OBVIOUS
  <2>1. /\ exToDE' \in Seq(Pointer) /\ Len(exToDE') = Len(exToDE) - 1
        /\ \A j \in 1 .. Len(exToDE) - 1 : exToDE'[j] = exToDE[j + 1] /\ j + 1 \in DOMAIN exToDE
    BY <1>1, <1>3, TailIs
  <2>2. i \in 1 .. Len(exToDE) - 1
    BY <2>1, LenProperties
  <2> QED
    BY <2>1, <2>2 DEF InStep, TargetsKnown
<1>6. CASE IsOdd(p)
  <2>1. /\ deToEX' = Append(deToEX, MisalignedAt(p)) /\ discardUntil' = None
        /\ UNCHANGED <<held, deOp>>
    BY <1>6 DEF Acknowledge
  <2>2. WindowsFit(prog)
    BY <1>4, <1>6 DEF MayBeTold
  <2>3. TargetsKnown'
    BY <1>1, <1>5, <2>1 DEF TargetsKnown
  <2>4. HeldRight'
    BY <1>1, <2>1, <2>2 DEF InStep, HeldRight
  <2>5. EntriesRight'
    <3>1. MisalignedAt(p) \in DecodedAt /\ EntryRight(prog, MisalignedAt(p))
      BY <1>3, EmptySeq DEF MisalignedAt, DecodedAt, InstructionAt, EntryRight
    <3>2. \A i \in DOMAIN deToEX' : EntryRight(prog, deToEX'[i])
      <4> SUFFICES ASSUME NEW i \in DOMAIN deToEX' PROVE EntryRight(prog, deToEX'[i])
        OBVIOUS
      <4>1. /\ Len(deToEX) \in Nat /\ DOMAIN deToEX' = 1 .. Len(deToEX) + 1
            /\ DOMAIN deToEX = 1 .. Len(deToEX)
            /\ \A j \in 1 .. Len(deToEX) : deToEX'[j] = deToEX[j]
            /\ deToEX'[Len(deToEX) + 1] = MisalignedAt(p)
        BY <1>3, <2>1, <3>1, AppendIs
      <4>2. i \in 1 .. Len(deToEX) \/ i = Len(deToEX) + 1
        BY <4>1
      <4> QED
        BY <3>1, <4>1, <4>2 DEF InStep, EntriesRight
    <3> QED
      BY <1>1, <2>1, <3>2 DEF InStep, EntriesRight
  <2> QED
    BY <1>1, <1>2, <2>2, <2>3, <2>4, <2>5 DEF InStep, Stream
<1>7. CASE ~IsOdd(p)
  <2>1. /\ discardUntil' = p /\ held' = <<>> /\ deOp' = At("drain") /\ UNCHANGED deToEX
    BY <1>7 DEF Acknowledge
  <2>2. deOp'.stage = "drain" /\ p # None
    BY <1>3, <1>7, <2>1, PointerIs DEF At
  <2>3. TargetsKnown'
    BY <1>1, <1>4, <1>5, <1>7, <2>1, <2>2 DEF TargetsKnown, MayBeTold
  <2>4. HeldRight'
    BY <2>1, EmptyIs DEF HeldRight, WordsOf
  <2> QED
    BY <1>1, <1>2, <2>1, <2>2, <2>3, <2>4 DEF InStep, Stream, EntriesRight
<1> QED
  BY <1>6, <1>7

LEMMA DrainKeepsInStep == Typed /\ InStep /\ Drain => InStep'
<1> SUFFICES ASSUME Typed, InStep, Drain PROVE InStep'
  OBVIOUS
<1>1. /\ UNCHANGED <<internalIP, icOp, fromDE, prog, held, heldAt, discardUntil, deToEX, exToDE>>
      /\ deOp.stage = "drain" /\ toDE' = <<>> /\ deOp'.stage = "sift"
  BY DEF Drain, machineVars, At
<1>2. discardUntil # None /\ held = <<>>
  BY <1>1 DEF InStep, TargetsKnown
<1>3. Sent' \in {0, 1}
  BY <1>1 DEF Sent
<1>4. ChainFrom(2)'
  BY <1>3 DEF ChainFrom
<1>5. Stream'
  BY <1>1, <1>2, <1>4 DEF Stream
<1>6. HeldRight'
  BY <1>1, <1>2 DEF InStep, HeldRight
<1> QED
  BY <1>1, <1>5, <1>6 DEF InStep, Counted, TargetsKnown, EntriesRight

LEMMA SiftKeepsInStep == Typed /\ InStep /\ Sift => InStep'
<1> SUFFICES ASSUME Typed, InStep, Sift PROVE InStep'
  OBVIOUS
<1>1. /\ UNCHANGED <<internalIP, icOp, fromDE, prog, deOp, deToEX, exToDE>>
      /\ deOp.stage = "sift" /\ discardUntil # None /\ toDE # <<>> /\ toDE' = Tail(toDE)
  BY DEF Sift, machineVars
<1>2. TargetFits(prog, discardUntil) /\ held = <<>>
  BY <1>1 DEF InStep, TargetsKnown
<1>3. /\ Sent \in Nat \ {0} /\ Sent' = Sent - 1 /\ Head(toDE) = Coming(1)
      /\ \A i \in Nat \ {0} : Coming(i)' = Coming(i + 1)
  BY <1>1, TakenComing
<1>4. WindowsFit(prog) \/ ChainFrom(2)
  BY <1>1 DEF InStep, Stream
<1>5. ChainFrom(2) => ChainFrom(1)' /\ ChainFrom(2)'
  <2> SUFFICES ASSUME ChainFrom(2), NEW j \in Nat, 1 <= j, j <= Sent'
               PROVE  Coming(j + 1)' = NextWindow(Coming(j)')
    BY DEF ChainFrom, NextWindow
  <2>1. /\ j \in Nat \ {0} /\ j + 1 \in Nat \ {0} /\ 2 <= j + 1 /\ j + 1 <= Sent
        /\ j + 1 \in Nat
    BY <1>3
  <2>2. Coming(j + 1)' = Coming((j + 1) + 1) /\ Coming(j)' = Coming(j + 1)
    BY <1>3, <2>1
  <2> QED
    BY <2>1, <2>2 DEF ChainFrom
<1>6. Stream'
  BY <1>1, <1>4, <1>5 DEF Stream
<1>7. Counted'
  BY <1>1 DEF InStep, Counted
<1>8. TargetsKnown' /\ HeldRight'
  <2>1. CASE Head(toDE) = WindowOf(discardUntil)
    <3> DEFINE w == WindowOf(discardUntil)
               i == (discardUntil % WindowWords) + 1
    <3>1. discardUntil \in Addr /\ WindowWords \in Nat
      BY <1>1, WholeWindows DEF Typed, TypeOK
    <3>2. /\ discardUntil % WindowWords \in 0 .. WindowWords - 1 /\ w \in Window
          /\ discardUntil = w + (discardUntil % WindowWords)
      BY <3>1, AfterWindow
    <3>3. /\ i \in 1 .. WindowWords /\ i - 1 = discardUntil % WindowWords
          /\ WindowWords - i + 1 = WindowWords - (discardUntil % WindowWords)
          /\ w + (i - 1) = discardUntil
      BY <3>1, <3>2
    <3>4. held' = WordsFrom(w, i) /\ heldAt' = discardUntil /\ discardUntil' = None
      BY <2>1 DEF Sift
    <3> HIDE DEF w, i
    <3>5. /\ Len(held') = WindowWords - (discardUntil % WindowWords)
          /\ \A j \in 1 .. WindowWords - i + 1 : held'[j] = Past(w + (i - 1), j - 1)
      BY <3>2, <3>3, <3>4, WordsOfWindow
    <3>6. WordsOf(held', heldAt')
      BY <3>3, <3>4, <3>5 DEF WordsOf
    <3>7. Fits(prog, heldAt', Len(held'))
      BY <1>2, <3>4, <3>5 DEF TargetFits
    <3> QED
      BY <1>1, <3>4, <3>6, <3>7 DEF InStep, TargetsKnown, HeldRight
  <2>2. CASE Head(toDE) # WindowOf(discardUntil)
    <3>1. UNCHANGED <<held, heldAt, discardUntil>>
      BY <2>2 DEF Sift
    <3> QED
      BY <1>1, <1>2, <3>1 DEF InStep, TargetsKnown, HeldRight
  <2> QED
    BY <2>1, <2>2
<1> QED
  BY <1>1, <1>6, <1>7, <1>8 DEF InStep, EntriesRight

\* Words that do not end with decoding do not make an instruction by themselves.
LEMMA FitsIsFull ==
  ASSUME Typed, WordsOf(held, heldAt), held # <<>>, Fits(prog, heldAt, Len(held))
  PROVE  IsFull(held)
<1>1. held \in Seq(Addr) /\ heldAt \in Addr
  BY DEF Typed, TypeOK
<1>2. Len(held) \in Nat \ {0}
  BY <1>1, EmptySeq
<1>3. held[1] = heldAt
  <2>1. 1 \in 1 .. Len(held) /\ 1 - 1 = 0 /\ 0 \in Nat
    BY <1>2
  <2>2. held[1] = Past(heldAt, 0)
    BY <2>1 DEF WordsOf
  <2> QED
    BY <1>1, <2>1, <2>2, PastPast
<1> QED
  BY <1>1, <1>2, <1>3, FitsIs DEF IsFull

LEMMA DecodeHeldKeepsInStep == Typed /\ InStep /\ DecodeHeld => InStep'
<1> SUFFICES ASSUME Typed, InStep, DecodeHeld PROVE InStep'
  OBVIOUS
<1>1. /\ UNCHANGED <<prog, discardUntil, deToEX, exToDE>> /\ UNCHANGED fetchVars
      /\ deOp.stage = "sift" /\ discardUntil = None /\ IsFull(held)
      /\ DecodeFrom(held, heldAt)
  BY DEF DecodeHeld, machineVars
<1>2. prog \in Programs /\ held \in Seq(Addr) /\ heldAt \in Addr
  BY DEF Typed, TypeOK, EX!TypeOK
<1>3. held # <<>> /\ prog[held[1]].len <= Len(held) /\ WordsOf(held, heldAt)
  BY <1>1 DEF IsFull, InStep, HeldRight
<1>4. /\ EntryRight(prog, deOp'.entry) /\ deOp'.entry.kind # "misaligned"
      /\ WordsOf(held', heldAt')
      /\ Past(heldAt', Len(held')) = Past(heldAt, Len(held))
      /\ held' # <<>> /\ Fits(prog, heldAt, Len(held)) => Fits(prog, heldAt', Len(held'))
  BY <1>1, <1>2, <1>3, DecodingIsRight
<1>5. deOp'.stage = "emit"
  BY <1>1 DEF DecodeFrom
<1>6. Sent' = Sent /\ \A i : Coming(i)' = Coming(i)
  BY <1>1, SameComing
<1>7. HeldRight'
  <2>1. \/ Fits(prog, heldAt, Len(held))
        \/ ~WindowsFit(prog) /\ Coming(1) = Past(heldAt, Len(held))
    BY <1>3 DEF InStep, HeldRight
  <2>2. Coming(1)' = Coming(1)
    BY <1>6
  <2> QED
    BY <1>1, <1>4, <2>1, <2>2 DEF HeldRight
<1>8. Stream'
  <2>1. \A i : ChainFrom(i) => ChainFrom(i)'
    BY <1>6 DEF ChainFrom, NextWindow
  <2> QED
    BY <1>1, <2>1 DEF InStep, Stream
<1>9. Counted'
  BY <1>1, SMT DEF InStep, Counted, fetchVars
<1>10. TargetsKnown' /\ EntriesRight'
  BY <1>1, <1>4, <1>5 DEF InStep, TargetsKnown, EntriesRight
<1> QED
  BY <1>7, <1>8, <1>9, <1>10 DEF InStep

LEMMA DecodeNextKeepsInStep == Typed /\ InStep /\ DecodeNext => InStep'
<1> SUFFICES ASSUME Typed, InStep, DecodeNext PROVE InStep'
  OBVIOUS
<1> DEFINE w == Head(toDE)
           h == held \o WordsFrom(w, 1)
           at == IF held = <<>> THEN w ELSE heldAt
<1>1. /\ UNCHANGED <<internalIP, icOp, fromDE, prog, discardUntil, deToEX, exToDE>>
      /\ deOp.stage = "sift" /\ discardUntil = None /\ ~IsFull(held)
      /\ toDE # <<>> /\ toDE' = Tail(toDE) /\ DecodeFrom(h, at)
  BY DEF DecodeNext, machineVars
<1>2. /\ prog \in Programs /\ held \in Seq(Addr) /\ heldAt \in Addr /\ w \in Window
      /\ WindowWords \in Nat \ {0} /\ w \in Addr /\ at \in Addr
  BY <1>1, WholeWindows, Sequences DEF Typed, TypeOK, EX!TypeOK
<1>3. /\ h \in Seq(Addr) /\ h # <<>>
      /\ Len(held) \in Nat /\ Len(h) = Len(held) + WindowWords
      /\ prog[h[1]].len <= Len(h)
      /\ \A j \in 1 .. Len(held) : h[j] = held[j]
      /\ \A j \in 1 .. WindowWords : h[Len(held) + j] = Past(w, j - 1)
  BY <1>2, WordsAppended
<1>4. /\ Sent \in Nat \ {0} /\ Sent' = Sent - 1 /\ w = Coming(1)
      /\ \A i \in Nat \ {0} : Coming(i)' = Coming(i + 1)
  BY <1>1, TakenComing
<1>5. held # <<>> => ~WindowsFit(prog) /\ w = Past(heldAt, Len(held))
  BY <1>1, <1>4, FitsIsFull DEF InStep, HeldRight
<1>6. \A j \in Nat : Past(w, j) = Past(at, Len(held) + j)
  <2>1. CASE held = <<>>
    <3>1. Len(held) = 0 /\ at = w
      BY <1>2, <2>1, EmptyIs
    <3> QED
      BY <3>1
  <2>2. CASE held # <<>>
    <3>1. at = heldAt /\ w = Past(heldAt, Len(held))
      BY <1>5, <2>2
    <3>2. \A j \in Nat : Past(Past(heldAt, Len(held)), j) = Past(heldAt, Len(held) + j)
      BY <1>2, <1>3, PastPast
    <3> QED
      BY <3>1, <3>2
  <2> QED
    BY <2>1, <2>2
<1> HIDE DEF w, h, at
<1>7. WordsOf(h, at)
  <2> SUFFICES ASSUME NEW j \in 1 .. Len(h) PROVE h[j] = Past(at, j - 1)
    BY DEF WordsOf
  <2>1. CASE j <= Len(held)
    <3>1. j \in 1 .. Len(held)
      BY <1>3, <2>1
    <3>2. held # <<>>
      BY <1>2, <3>1, EmptyIs
    <3> QED
      BY <1>3, <3>1, <3>2 DEF InStep, HeldRight, WordsOf, at
  <2>2. CASE j > Len(held)
    <3> DEFINE i == j - Len(held)
    <3>1. /\ i \in 1 .. WindowWords /\ Len(held) + i = j /\ i - 1 \in Nat
          /\ Len(held) + (i - 1) = j - 1
      BY <1>2, <1>3, <2>2
    <3> HIDE DEF i
    <3> QED
      BY <1>3, <1>6, <3>1
  <2> QED
    BY <1>3, <2>1, <2>2
<1>8. /\ EntryRight(prog, deOp'.entry) /\ deOp'.entry.kind # "misaligned"
      /\ WordsOf(held', heldAt')
      /\ Past(heldAt', Len(held')) = Past(at, Len(h))
      /\ held' # <<>> /\ Fits(prog, at, Len(h)) => Fits(prog, heldAt', Len(held'))
  BY <1>1, <1>2, <1>3, <1>7, DecodingIsRight
<1>9. deOp'.stage = "emit"
  BY <1>1 DEF DecodeFrom
<1>10. WindowsFit(prog) \/ ChainFrom(1)
  BY <1>1 DEF InStep, Stream
<1>11. HeldRight'
  <2>1. SUFFICES ASSUME held' # <<>>
                 PROVE  \/ Fits(prog, heldAt', Len(held'))
                        \/ ~WindowsFit(prog) /\ Coming(1)' = Past(heldAt', Len(held'))
    BY <1>1, <1>8 DEF HeldRight
  <2>2. CASE WindowsFit(prog)
    <3>1. held = <<>> /\ Len(h) = WindowWords /\ at = w
      BY <1>2, <1>3, <1>5, <2>2, EmptyIs DEF at
    <3> QED
      BY <1>2, <1>8, <2>1, <2>2, <3>1 DEF WindowsFit
  <2>3. CASE ~WindowsFit(prog)
    <3>1. Coming(2) = NextWindow(w)
      <4>1. Coming(1 + 1) = NextWindow(Coming(1))
        BY <1>4, <1>10, <2>3 DEF ChainFrom
      <4> QED
        BY <1>4, <4>1
    <3>2. Coming(1)' = Coming(2)
      <4>1. Coming(1)' = Coming(1 + 1)
        BY <1>4
      <4> QED
        BY <4>1
    <3>3. Past(w, WindowWords) = NextWindow(w)
      BY DEF Past, NextWindow
    <3>4. Past(w, WindowWords) = Past(at, Len(h))
      BY <1>2, <1>3, <1>6
    <3> QED
      BY <1>8, <2>3, <3>1, <3>2, <3>3, <3>4
  <2> QED
    BY <2>2, <2>3
<1>12. Stream'
  <2>1. ChainFrom(1) => ChainFrom(1)'
    <3> SUFFICES ASSUME ChainFrom(1), NEW j \in Nat, 1 <= j, j <= Sent'
                 PROVE  Coming(j + 1)' = NextWindow(Coming(j)')
      BY DEF ChainFrom, NextWindow
    <3>1. j \in Nat \ {0} /\ j + 1 \in Nat \ {0} /\ j + 1 <= Sent /\ 1 <= j + 1 /\ j + 1 \in Nat
      BY <1>4
    <3>2. Coming(j + 1)' = Coming((j + 1) + 1) /\ Coming(j)' = Coming(j + 1)
      BY <1>4, <3>1
    <3> QED
      BY <3>1, <3>2 DEF ChainFrom
  <2> QED
    BY <1>1, <1>10, <2>1 DEF Stream
<1>13. TargetsKnown' /\ EntriesRight' /\ Counted'
  BY <1>1, <1>8, <1>9 DEF InStep, TargetsKnown, EntriesRight, Counted
<1> QED
  BY <1>11, <1>12, <1>13 DEF InStep

\* Entries of a pipe that grows at its end or shrinks at its start.
LEMMA EntriesOf ==
  ASSUME NEW S, NEW s \in Seq(S)
  PROVE  /\ \A e \in S : \A i \in DOMAIN Append(s, e) :
              \/ i \in DOMAIN s /\ Append(s, e)[i] = s[i]
              \/ i = Len(s) + 1 /\ Append(s, e)[i] = e
         /\ s # <<>> => /\ 1 \in DOMAIN s /\ s[1] = Head(s)
                        /\ \A i \in DOMAIN Tail(s) : i + 1 \in DOMAIN s /\ Tail(s)[i] = s[i + 1]
<1>1. ASSUME NEW e \in S, NEW i \in DOMAIN Append(s, e)
      PROVE  \/ i \in DOMAIN s /\ Append(s, e)[i] = s[i]
             \/ i = Len(s) + 1 /\ Append(s, e)[i] = e
  <2>1. /\ Len(s) \in Nat /\ DOMAIN s = 1 .. Len(s) /\ i \in 1 .. Len(s) + 1
        /\ \A j \in 1 .. Len(s) : Append(s, e)[j] = s[j]
        /\ Append(s, e)[Len(s) + 1] = e
    BY <1>1, AppendIs
  <2>2. i \in 1 .. Len(s) \/ i = Len(s) + 1
    BY <2>1
  <2> QED
    BY <2>1, <2>2
<1>2. ASSUME s # <<>>
      PROVE  /\ 1 \in DOMAIN s /\ s[1] = Head(s)
             /\ \A i \in DOMAIN Tail(s) : i + 1 \in DOMAIN s /\ Tail(s)[i] = s[i + 1]
  <2>1. /\ Tail(s) \in Seq(S) /\ Len(Tail(s)) = Len(s) - 1
        /\ \A i \in 1 .. Len(s) - 1 : Tail(s)[i] = s[i + 1] /\ i + 1 \in DOMAIN s
    BY <1>2, TailIs
  <2>2. DOMAIN Tail(s) = 1 .. Len(s) - 1 /\ DOMAIN s = 1 .. Len(s) /\ Len(s) \in Nat \ {0}
    BY <1>2, <2>1, LenProperties, EmptySeq
  <2>3. 1 \in DOMAIN s /\ s[1] = Head(s)
    BY <2>2
  <2> QED
    BY <2>1, <2>2, <2>3
<1> QED
  BY <1>1, <1>2

LEMMA EmitKeepsInStep == Typed /\ InStep /\ Emit => InStep'
<1> SUFFICES ASSUME Typed, InStep, Emit PROVE InStep'
  OBVIOUS
<1>1. /\ UNCHANGED <<fetchVars, prog, held, heldAt, discardUntil, exToDE>>
      /\ deOp.stage = "emit" /\ deToEX' = Append(deToEX, deOp.entry) /\ deOp'.stage = "top"
  BY DEF Emit, At, machineVars
<1>2. deToEX \in Seq(DecodedAt) /\ deOp.entry \in DecodedAt
  BY <1>1 DEF Typed
<1>3. EntriesRight'
  <2> SUFFICES ASSUME NEW i \in DOMAIN deToEX' PROVE EntryRight(prog, deToEX'[i])
    BY <1>1 DEF EntriesRight
  <2>1. \/ i \in DOMAIN deToEX /\ deToEX'[i] = deToEX[i]
        \/ deToEX'[i] = deOp.entry
    BY <1>1, <1>2, EntriesOf
  <2> QED
    BY <1>1, <2>1 DEF InStep, EntriesRight
<1> QED
  BY <1>1, <1>3, QuietKeepsInStep

LEMMA DEKeepsInStep == Typed /\ InStep /\ DEStep => InStep'
<1> SUFFICES ASSUME Typed, InStep, DEStep PROVE InStep'
  OBVIOUS
<1>1. ASSUME NoChange \/ Idles PROVE InStep'
  <2>1. /\ UNCHANGED <<fetchVars, prog, held, heldAt, discardUntil, deToEX, exToDE>>
        /\ deOp.stage \in {"top", "sift"} /\ deOp'.stage \in {"top", "sift"}
    BY <1>1 DEF NoChange, Idles, machineVars, At
  <2>2. EntriesRight'
    BY <2>1 DEF InStep, EntriesRight
  <2> QED
    BY <2>1, <2>2, QuietKeepsInStep
<1> QED
  BY <1>1, AcknowledgeKeepsInStep, DrainKeepsInStep, SiftKeepsInStep, DecodeHeldKeepsInStep,
     DecodeNextKeepsInStep, EmitKeepsInStep DEF DEStep

LEMMA EXKeepsInStep == Typed /\ InStep /\ TargetsFit /\ EXStep => InStep'
<1> SUFFICES ASSUME Typed, InStep, TargetsFit, EXStep PROVE InStep'
  OBVIOUS
<1>1. UNCHANGED <<fetchVars, prog, deVars>>
  BY SMT DEF EXStep, Discard, Perform, TellDecode, machineVars
<1>2. UNCHANGED <<internalIP, icOp, prog, held, heldAt, discardUntil, deOp>>
  BY <1>1 DEF fetchVars, deVars
<1>3. Sent' = Sent /\ \A i : Coming(i)' = Coming(i)
  BY <1>1, SameComing
<1>4. \A i : ChainFrom(i) => ChainFrom(i)'
  BY <1>3 DEF ChainFrom, NextWindow
<1>5. Stream'
  BY <1>2, <1>4 DEF InStep, Stream
<1>6. Counted' /\ HeldRight'
  BY <1>2, <1>3 DEF InStep, Counted, HeldRight
<1>7. /\ deToEX \in Seq(DecodedAt) /\ exToDE \in Seq(Pointer) /\ regs.ip \in Pointer
  BY SameOperators DEF Typed, TypeOK, EX!TypeOK, Registers
<1>8. EntriesRight'
  <2>1. \/ UNCHANGED deToEX
        \/ deToEX # <<>> /\ deToEX' = Tail(deToEX)
    BY DEF EXStep, Discard, Perform, TellDecode, Waiting
  <2>2. ASSUME NEW i \in DOMAIN deToEX' PROVE EntryRight(prog, deToEX'[i])
    BY <1>7, <2>1, <2>2, EntriesOf DEF InStep, EntriesRight
  <2> QED
    BY <1>2, <2>2 DEF InStep, EntriesRight
<1>9. TargetsKnown'
  <2>1. \/ UNCHANGED exToDE
        \/ redirecting /\ exToDE' = Append(exToDE, regs.ip)
    BY DEF EXStep, Discard, Perform, TellDecode
  <2>2. ASSUME NEW i \in DOMAIN exToDE' PROVE MayBeTold(prog, exToDE'[i])
    BY <1>7, <2>1, <2>2, EntriesOf DEF InStep, TargetsKnown, TargetsFit
  <2> QED
    BY <1>2, <2>2 DEF InStep, TargetsKnown
<1> QED
  BY <1>5, <1>6, <1>8, <1>9 DEF InStep

LEMMA InStepStep == Typed /\ InStep /\ TargetsFit /\ [Next]_vars => InStep'
<1>1. ASSUME InStep, UNCHANGED vars PROVE InStep'
  <2>1. /\ UNCHANGED <<internalIP, icOp, prog, held, heldAt, discardUntil, deOp, exToDE, deToEX>>
        /\ UNCHANGED fetchVars
    BY <1>1 DEF vars, fetchVars
  <2>2. Sent' = Sent /\ \A i : Coming(i)' = Coming(i)
    BY <2>1, SameComing
  <2>3. \A i : ChainFrom(i) => ChainFrom(i)'
    BY <2>2 DEF ChainFrom, NextWindow
  <2> QED
    BY <1>1, <2>1, <2>2, <2>3
       DEF InStep, Counted, Stream, HeldRight, TargetsKnown, EntriesRight
<1> QED
  BY <1>1, ICKeepsInStep, DEKeepsInStep, EXKeepsInStep DEF Next

LEMMA AlwaysInStep == Spec /\ []TargetsFit => []InStep
<1> QED
  BY InStepInit, InStepStep, AlwaysTyped, PTL DEF Spec

\* The words of every instruction Decode makes are those at its address, wherever the
\* windows came from, if Execute sends Decode only to targets from where on decoding
\* ends with the window (Decode.cpp 95, 191-194, 221-224).
THEOREM WordsAtAddressHolds == Spec /\ []TargetsFit => []WordsAtAddress
<1>1. Typed /\ InStep => WordsAtAddress
  <2> SUFFICES ASSUME Typed, InStep, NEW i \in DOMAIN deToEX, NEW j \in DOMAIN deToEX[i].words
               PROVE  deToEX[i].words[j] = Past(deToEX[i].at, j - 1)
    BY DEF WordsAtAddress
  <2>1. EntryRight(prog, deToEX[i])
    BY DEF InStep, EntriesRight
  <2> QED
    BY <2>1 DEF EntryRight
<1> QED
  BY <1>1, AlwaysTyped, AlwaysInStep, PTL

-----------------------------------------------------------------------------
(* Instructions take effect as if there was no pipeline.                   *)

Misaligned(e) == e.kind = "misaligned"

\* An odd address that Decode is told of is the IP, and so is that of the instruction
\* that stands for it: Execute waits for it.
OddIsCurrent ==
  /\ \A i \in DOMAIN exToDE : IsOdd(exToDE[i]) =>
       /\ ~redirecting /\ exToDE[i] = regs.ip /\ i = Len(exToDE)
       /\ \A j \in DOMAIN deToEX : ~Misaligned(deToEX[j])
  /\ \A i \in DOMAIN deToEX : Misaligned(deToEX[i]) =>
       /\ ~redirecting /\ deToEX[i].at = regs.ip /\ IsOdd(regs.ip) /\ exToDE = <<>>
       /\ \A j \in DOMAIN deToEX : Misaligned(deToEX[j]) => j = i

\* An instruction Execute takes to be at an odd IP is the one that stands for it.
LEMMA OddIsMisaligned ==
  ASSUME Typed, InStep, NEW i \in DOMAIN deToEX, deToEX[i].at = regs.ip, IsOdd(regs.ip)
  PROVE  Misaligned(deToEX[i])
<1>1. EntryRight(prog, deToEX[i]) /\ NumAddr \in Nat
  BY WholeWindows DEF InStep, EntriesRight
<1> QED
  BY <1>1 DEF EntryRight, Misaligned, IsOdd, Addr

LEMMA OddStep == Typed /\ InStep /\ OddIsCurrent /\ [Next]_vars => OddIsCurrent'
<1> SUFFICES ASSUME Typed, InStep, OddIsCurrent, [Next]_vars PROVE OddIsCurrent'
  OBVIOUS
<1>1. /\ deToEX \in Seq(DecodedAt) /\ exToDE \in Seq(Pointer) /\ regs.ip \in Pointer
  BY SameOperators DEF Typed, TypeOK, EX!TypeOK, Registers
<1>2. ASSUME UNCHANGED <<regs, redirecting, exToDE, deToEX>> PROVE OddIsCurrent'
  BY <1>2 DEF OddIsCurrent
<1>3. ASSUME UNCHANGED <<regs, redirecting, exToDE>>, NEW e \in DecodedAt, ~Misaligned(e),
             deToEX' = Append(deToEX, e)
      PROVE  OddIsCurrent'
  <2>1. \A i \in DOMAIN deToEX' : Misaligned(deToEX'[i]) =>
          i \in DOMAIN deToEX /\ deToEX'[i] = deToEX[i]
    BY <1>1, <1>3, EntriesOf
  <2> QED
    BY <1>3, <2>1 DEF OddIsCurrent
<1>4. ASSUME UNCHANGED <<regs, redirecting, exToDE>>, deToEX # <<>>, deToEX' = Tail(deToEX)
      PROVE  OddIsCurrent'
  <2>1. \A i \in DOMAIN deToEX' : i + 1 \in DOMAIN deToEX /\ deToEX'[i] = deToEX[i + 1]
    BY <1>1, <1>4, EntriesOf
  <2>2. DOMAIN deToEX' \subseteq Nat
    BY <1>1, <1>4, TailIs, LenProperties
  <2>3. \A i, j \in DOMAIN deToEX' : i + 1 = j + 1 => i = j
    BY <2>2
  <2> QED
    BY <1>4, <2>1, <2>3 DEF OddIsCurrent
<1>5. CASE Acknowledge
  <2> DEFINE p == Head(exToDE)
  <2>1. /\ UNCHANGED <<regs, redirecting>> /\ exToDE # <<>> /\ exToDE' = Tail(exToDE)
    BY <1>5 DEF Acknowledge, machineVars
  <2>2. /\ 1 \in DOMAIN exToDE /\ exToDE[1] = p /\ p \in Pointer
        /\ \A i \in DOMAIN exToDE' : i + 1 \in DOMAIN exToDE /\ exToDE'[i] = exToDE[i + 1]
        /\ exToDE' \in Seq(Pointer) /\ Len(exToDE') = Len(exToDE) - 1 /\ Len(exToDE) \in Nat
        /\ DOMAIN exToDE' \subseteq Nat
    BY <1>1, <2>1, EntriesOf, TailIs, Sequences, LenProperties
  <2>3. CASE IsOdd(p)
    <3>1. deToEX' = Append(deToEX, MisalignedAt(p))
      BY <1>5, <2>3 DEF Acknowledge
    <3>2. MisalignedAt(p) \in DecodedAt /\ Misaligned(MisalignedAt(p)) /\ MisalignedAt(p).at = p
      BY <2>2, EmptySeq DEF MisalignedAt, DecodedAt, InstructionAt, Misaligned
    <3>3. /\ ~redirecting /\ p = regs.ip /\ Len(exToDE) = 1
          /\ \A j \in DOMAIN deToEX : ~Misaligned(deToEX[j])
      BY <2>2, <2>3 DEF OddIsCurrent
    <3>4. exToDE' = <<>>
      BY <2>2, <3>3, EmptyIs
    <3>5. \A i \in DOMAIN deToEX' : Misaligned(deToEX'[i]) =>
            i = Len(deToEX) + 1 /\ deToEX'[i] = MisalignedAt(p)
      BY <1>1, <3>1, <3>2, <3>3, EntriesOf
    <3> QED
      BY <2>1, <2>3, <3>2, <3>3, <3>4, <3>5 DEF OddIsCurrent
  <2>4. CASE ~IsOdd(p)
    <3>1. UNCHANGED deToEX
      BY <1>5, <2>4 DEF Acknowledge
    <3>2. \A i \in DOMAIN exToDE' : i + 1 = Len(exToDE) => i = Len(exToDE')
      BY <2>2
    <3>3. \A i \in DOMAIN deToEX : ~Misaligned(deToEX[i])
      BY <2>1 DEF OddIsCurrent
    <3> QED
      BY <2>1, <2>2, <3>1, <3>2, <3>3 DEF OddIsCurrent
  <2> QED
    BY <2>3, <2>4
<1>6. CASE Emit
  <2>1. /\ UNCHANGED <<regs, redirecting, exToDE>> /\ deToEX' = Append(deToEX, deOp.entry)
        /\ deOp.stage = "emit"
    BY <1>6 DEF Emit, machineVars
  <2>2. deOp.entry \in DecodedAt /\ ~Misaligned(deOp.entry)
    BY <2>1 DEF Typed, InStep, EntriesRight, Misaligned
  <2> QED
    BY <1>3, <2>1, <2>2
<1>7. CASE DEStep
  <2>1. CASE NoChange \/ Drain \/ Sift \/ Idles \/ DecodeHeld \/ DecodeNext
    <3>1. UNCHANGED <<regs, redirecting, exToDE, deToEX>>
      BY <2>1 DEF NoChange, Drain, Sift, Idles, DecodeHeld, DecodeNext, machineVars
    <3> QED
      BY <1>2, <3>1
  <2> QED
    BY <1>5, <1>6, <1>7, <2>1 DEF DEStep
<1>8. CASE ICStep
  BY <1>2, <1>8 DEF ICStep, machineVars
<1>9. CASE Discard
  BY <1>4, <1>9 DEF Discard, Waiting, machineVars
<1>10. CASE Perform
  <2> DEFINE e == Head(deToEX)
  <2>1. /\ deToEX # <<>> /\ IsOurs(e) /\ deToEX' = Tail(deToEX) /\ UNCHANGED exToDE
    BY <1>10 DEF Perform, Waiting
  <2>2. /\ 1 \in DOMAIN deToEX /\ deToEX[1] = e
        /\ \A i \in DOMAIN deToEX' : i + 1 \in DOMAIN deToEX /\ deToEX'[i] = deToEX[i + 1]
        /\ DOMAIN deToEX' \subseteq Nat \ {0}
    BY <1>1, <2>1, EntriesOf, TailIs, LenProperties
  <2>3. IsOdd(regs.ip) => Misaligned(e)
    BY <2>1, <2>2, OddIsMisaligned DEF IsOurs, Misaligned
  <2>4. \A i \in DOMAIN exToDE' : ~IsOdd(exToDE'[i])
    <3> SUFFICES ASSUME NEW i \in DOMAIN exToDE, IsOdd(exToDE[i]) PROVE FALSE
      BY <2>1
    <3> QED
      BY <2>2, <2>3 DEF OddIsCurrent
  <2>5. \A i \in DOMAIN deToEX' : ~Misaligned(deToEX'[i])
    <3> SUFFICES ASSUME NEW i \in DOMAIN deToEX', Misaligned(deToEX'[i]) PROVE FALSE
      OBVIOUS
    <3>1. Misaligned(deToEX[i + 1]) /\ i + 1 \in DOMAIN deToEX /\ i + 1 # 1
      BY <2>2
    <3> QED
      BY <2>2, <2>3, <3>1 DEF OddIsCurrent
  <2> QED
    BY <2>4, <2>5 DEF OddIsCurrent
<1>11. CASE TellDecode
  <2>1. /\ redirecting /\ ~redirecting' /\ UNCHANGED <<regs, deToEX>>
        /\ exToDE' = Append(exToDE, regs.ip)
    BY <1>11 DEF TellDecode, machineVars
  <2>2. /\ \A j \in DOMAIN deToEX : ~Misaligned(deToEX[j])
        /\ \A i \in DOMAIN exToDE : ~IsOdd(exToDE[i])
    BY <2>1 DEF OddIsCurrent
  <2>3. \A i \in DOMAIN exToDE' : IsOdd(exToDE'[i]) => exToDE'[i] = regs.ip /\ i = Len(exToDE')
    <3>1. Len(exToDE') = Len(exToDE) + 1
      BY <1>1, <2>1, AppendIs
    <3> QED
      BY <1>1, <2>1, <2>2, <3>1, EntriesOf
  <2> QED
    BY <2>1, <2>2, <2>3 DEF OddIsCurrent
<1>12. CASE UNCHANGED vars
  BY <1>2, <1>12 DEF vars
<1> QED
  BY <1>7, <1>8, <1>9, <1>10, <1>11, <1>12 DEF Next, EXStep

\* An excp_exit that takes effect was decoded in the handler it leaves: Decode looks at
\* the EXCEPTION flag when it decodes, and Execute does not look again.
ExitsInHandlers ==
  Waiting /\ Head(deToEX).kind = "exit" /\ Head(deToEX).at = regs.ip => regs.excp

\* The instruction Execute performs is the one the machine is at.
LEMMA PerformIsStep ==
  ASSUME Typed, InStep, OddIsCurrent, ExitsInHandlers, Running, Perform
  PROVE  EX!Step
<1> DEFINE e == Head(deToEX)
           n == Len(e.words)
           p == prog[e.words[n]].to
<1>1. /\ deToEX # <<>> /\ IsOurs(e) /\ UNCHANGED prog /\ ended = "no" /\ Waiting
      /\ \/ e.kind = "misaligned" /\ EX!Raise("misaligned_ip", e.at)
         \/ /\ e.kind # "misaligned"
            /\ \E k \in IF e.kind = "branch" THEN {"plain", "jump"} ELSE {e.kind} :
                 EX!Proceed(k, n, p) \/ EX!Redirect(k, p)
  BY DEF Perform, Waiting, Running
<1>2. deToEX \in Seq(DecodedAt) /\ prog \in Programs /\ NumAddr \in Nat
  BY WholeWindows DEF Typed, TypeOK, EX!TypeOK
<1>3. 1 \in DOMAIN deToEX /\ deToEX[1] = e /\ e \in DecodedAt
  BY <1>1, <1>2, EntriesOf, Sequences
<1>4. CASE e.kind = "misaligned"
  <2>1. e.at = regs.ip /\ IsOdd(regs.ip)
    BY <1>3, <1>4 DEF OddIsCurrent, Misaligned
  <2> QED
    BY <1>1, <1>4, <2>1, SameOperators DEF EX!Step
<1>5. CASE e.kind # "misaligned"
  <2> HIDE DEF e, n, p
  <2>1. e.at = regs.ip
    BY <1>1, <1>5 DEF IsOurs
  <2>2. /\ e.at \in Addr /\ e.words \in Seq(Addr)
        /\ e.kind = prog[e.at].kind \/ (e.kind = "undef" /\ prog[e.at].kind = "exit")
        /\ n = Size(e.kind, prog[e.at])
        /\ \A j \in DOMAIN e.words : e.words[j] = Past(e.at, j - 1)
    BY <1>3, <1>5 DEF InStep, EntriesRight, EntryRight, DecodedAt, InstructionAt, n
  <2>3. ~IsOdd(regs.ip)
    BY <1>2, <2>1, <2>2 DEF IsOdd, Addr
  <2>4. n \in 1 .. prog[e.at].len /\ prog[e.at].len \in 1 .. WindowWords
    BY <1>2, <2>2, WordIs
  <2>5. n \in DOMAIN e.words
    BY <2>2, <2>4, LenProperties DEF n
  <2>6. p = prog[Past(regs.ip, n - 1)].to
    BY <2>1, <2>2, <2>5 DEF p
  <2>7. PICK k \in IF e.kind = "branch" THEN {"plain", "jump"} ELSE {e.kind} :
               EX!Proceed(k, n, p) \/ EX!Redirect(k, p)
    BY <1>1, <1>5
  <2>8. n = Size(k, prog[regs.ip])
    BY <2>1, <2>2, <2>7 DEF Size
  <2>9. k \in EX!Outcomes(prog[regs.ip].kind)
    <3>1. e.kind = "exit" => regs.excp
      BY <1>1, <2>1 DEF ExitsInHandlers, e
    <3>2. CASE e.kind = "branch"
      BY <2>1, <2>2, <2>7, <3>2 DEF EX!Outcomes
    <3>3. CASE e.kind # "branch" /\ prog[regs.ip].kind = "exit"
      BY <2>1, <2>2, <2>7, <3>1, <3>3 DEF EX!Outcomes
    <3>4. CASE e.kind # "branch" /\ prog[regs.ip].kind # "exit"
      BY <2>1, <2>2, <2>7, <3>4 DEF EX!Outcomes
    <3> QED
      BY <3>2, <3>3, <3>4
  <2>10. EX!ExecuteAt(regs.ip)
    <3>1. /\ n = EX!Size(k, prog[regs.ip])
          /\ p = prog[EX!Past(regs.ip, n - 1)].to
      BY <2>6, <2>8, SameOperators
    <3> QED
      BY <2>7, <2>9, <3>1 DEF EX!ExecuteAt
  <2> QED
    BY <1>1, <2>3, <2>10, SameOperators DEF EX!Step
<1> QED
  BY <1>4, <1>5

\* The steps of the machine, without what must happen eventually.
MachineSteps == EX!Init /\ [][EX!Step]_(EX!machineVars)

\* Whatever is prefetched, discarded and fetched again, every instruction takes effect as
\* if there was no pipeline: the safety part of ImplementsMachine, if Execute sends Decode
\* only where decoding ends with the window, and leaves every handler by an excp_exit that
\* was decoded in it (Execute.cpp 132-201, Decode.cpp 83).
THEOREM MachineImplemented ==
  Spec /\ []TargetsFit /\ []ExitsInHandlers => MachineSteps
<1>1. Init => EX!Init
  BY DEF Init
<1>2. Init => OddIsCurrent
  BY DEF Init, OddIsCurrent
<1>3. Typed /\ InStep /\ OddIsCurrent /\ ExitsInHandlers /\ [Next]_vars
        => [EX!Step]_(EX!machineVars)
  <2> SUFFICES ASSUME Typed, InStep, OddIsCurrent, ExitsInHandlers, [Next]_vars,
                      ~UNCHANGED machineVars
               PROVE  EX!Step
    BY DEF EX!machineVars, machineVars
  <2>1. EXStep
    BY SMT DEF Next, vars, ICStep, DEStep, NoChange, Acknowledge, Drain, Sift, Idles,
               DecodeHeld, DecodeNext, Emit, machineVars
  <2>2. Running /\ Perform
    BY <2>1 DEF EXStep, Discard, TellDecode
  <2> QED
    BY <2>2, PerformIsStep
<1> QED
  BY <1>1, <1>2, <1>3, OddStep, AlwaysTyped, AlwaysInStep, PTL DEF Spec, MachineSteps
=============================================================================
