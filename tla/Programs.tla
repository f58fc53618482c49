------------------------------ MODULE Programs ------------------------------
(***************************************************************************)
(* Code in memory, as Decode and Execute see it.  A word is known by what  *)
(* it does as the first word of an instruction (its kind, and how many     *)
(* words its header asks for) and by the address it is as a parameter.     *)
(* Instructions whose only effect on control is to move the IP are one     *)
(* kind; a word with opcode 0 is a "nop" with IGNORE_UNINITIALIZED_MEM and *)
(* "undef" without.  An instruction pointer may be odd: NumAddr + a stands *)
(* for the odd byte address within word a.                                 *)
(***************************************************************************)
EXTENDS Addresses

CONSTANTS
  StartAddr,  \* SIM_START_ADDR
  Programs,   \* bound: contents of memory that are explored
  Handler,    \* the vectors: Handler[c] handles exception c
  MaxDepth    \* frames the stack has room for

Kinds == {"plain", "jump", "branch", "call", "ret", "fault", "setReturn",
          "exit", "end", "undef", "nop"}

Causes == {"misaligned_ip", "invalid_decode", "stack_overflow", "access"}

Pointer == 0 .. 2 * NumAddr - 1
IsOdd(p) == p >= NumAddr
WordOf(p) == p % NumAddr

ASSUME ProgramAssumption ==
  /\ StartAddr \in Window
  /\ Programs \subseteq
       [Addr -> [kind : Kinds, len : 1 .. WindowWords, to : Pointer]]
  /\ Handler \in [Causes -> Pointer]
  /\ MaxDepth \in Nat

\* Mutant: addresses do not wrap.
PastUnwrapped(p, n) == p + n

\* moveIP, for an instruction of n words.
Past(p, n) == (p + n) % NumAddr

\* Words an instruction of kind k with header w is made of: parameters are
\* not read when it is not legal (Decode.cpp 119-133).
Size(k, w) == IF k \in {"undef", "nop"} THEN 1 ELSE w.len

Frame == [ip : Pointer, excp : BOOLEAN]
Registers == [ip : Pointer, excp : BOOLEAN, sp : 0 .. MaxDepth]
=============================================================================
