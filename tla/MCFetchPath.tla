---------------------------- MODULE MCFetchPath -----------------------------
(***************************************************************************)
(* FetchPath on five windows of two words and a cache of two lines with    *)
(* two tags: windows 0, 4 and 8 share line 0, where 0 and 8 have the same  *)
(* tag too, and stores hit window 2, which shares line 1 with window 6.    *)
(***************************************************************************)
EXTENDS FetchPath

CONSTANT u

MCImage == [a \in 0 .. NumAddr - 1 |-> IF a \in {0, 5} THEN 1 ELSE u]

Store(a, d) == [store |-> TRUE, addr |-> a, odd |-> FALSE, data |-> d]

MCRequests == {Store(2, <<1>>), Store(2, <<0, 1>>)}

MCWindows == {0, 2, 4, 6, 8}

MCTargets == {1, 2}
=============================================================================
