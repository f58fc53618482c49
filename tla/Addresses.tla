----------------------------- MODULE Addresses ------------------------------
(***************************************************************************)
(* Word addresses and fetch windows (Config.h 9-22).  A byte address of    *)
(* the code is twice a word address; 16-bit addresses wrap at NumAddr.     *)
(***************************************************************************)
EXTENDS Integers

CONSTANTS
  NumAddr,     \* words in the address space (2^15 in the code)
  WindowWords  \* FETCH_WINDOW_WORDS

ASSUME AddressAssumption ==
  /\ NumAddr \in Nat \ {0}
  /\ WindowWords \in Nat \ {0}
  /\ NumAddr % WindowWords = 0

Addr == 0 .. NumAddr - 1

Window == {a \in Addr : a % WindowWords = 0}

\* addr / FETCH_WINDOW_BYTES * FETCH_WINDOW_BYTES
WindowOf(a) == a - (a % WindowWords)

\* i-th word from a on: `address' is 16 bits wide and wraps.
WordAt(a, i) == (a + i - 1) % NumAddr
=============================================================================
