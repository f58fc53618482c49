---------------------------- MODULE MCLoadStore -----------------------------
(***************************************************************************)
(* LoadStore on a memory of six words: two sets of two ways, three         *)
(* addresses per set, so that a third address of a set evicts a line.      *)
(***************************************************************************)
EXTENDS LoadStore

CONSTANT u

MCImage == [a \in 0 .. NumAddr - 1 |-> IF a = 0 THEN 1 ELSE u]

\* Uninitialised lines have the tag of the addresses 0 and 1 and hold what is
\* never stored there: a store to them finds an invalid line.
MCFreshLines == {[tag |-> 0, data |-> 1]}

Store(a, d) == [store |-> TRUE, addr |-> a, odd |-> FALSE, data |-> d]
Load(a, n) == [store |-> FALSE, addr |-> a, odd |-> FALSE, data |-> [i \in 1 .. n |-> 0]]

\* The addresses 0, 2 and 4 share a set; three requests run into the other
\* set, two of them across the end of the address space.
MCRequests ==
  {Store(0, <<0>>), Store(4, <<1>>), Store(0, <<0, 0, 1>>), Store(5, <<1, 0>>),
   Load(2, 1), Load(5, 2), [Load(0, 1) EXCEPT !.odd = TRUE]}

MCWindows == {0}
=============================================================================
