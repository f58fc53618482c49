----------------------------- MODULE MCPipeline -----------------------------
(***************************************************************************)
(* Pipeline with programs in four windows of two words.  In these programs *)
(* the window of a target never ends in the middle of an instruction; the  *)
(* address space wraps, so that every window is prefetched sooner or later.*)
(***************************************************************************)
EXTENDS Pipeline

I(kind, len, to) == [kind |-> kind, len |-> len, to |-> to]
P(len) == I("plain", len, 0)
Code(s) == [a \in Addr |-> s[a + 1]]
OddAfter(a) == NumAddr + a

MCHandler == [c \in Causes |-> IF c = "stack_overflow" THEN 4 ELSE 6]

\* The second instruction reaches into the next window; a loop, and an unknown
\* opcode where the handler is.
Loop == Code(<<P(1), P(2), P(1), I("branch", 1, 4),
               P(1), I("branch", 1, 4), I("undef", 1, 0), P(1)>>)

\* A call, a jump to an odd address, and a handler that returns elsewhere.
Misaligned == Code(<<P(1), I("call", 1, 4), I("jump", 2, 0), I("branch", 1, OddAfter(5)),
                     P(1), I("ret", 1, 0), I("setReturn", 2, 0), I("exit", 1, 2)>>)

\* An instruction that fails again and again, right before its handler.
Fault == Code(<<P(1), I("branch", 1, 4), P(1), I("end", 1, 0),
                P(1), I("fault", 1, 0), I("exit", 1, 0), P(1)>>)

\* The stack overflows; its handler may run into an unknown opcode.
Overflow == Code(<<I("call", 2, 0), I("end", 1, 2), I("call", 1, 0), P(1),
                   I("branch", 1, 7), I("undef", 1, 0), I("nop", 1, 0), I("exit", 1, 0)>>)

\* The stack underflows, and its handler leaves by a return it makes room for.
Underflow == Code(<<I("ret", 1, 0), P(1), I("ret", 1, 0), P(1),
                    I("call", 1, 2), P(1), I("exit", 1, 0), I("jump", 1, 6)>>)

MCPrograms == {Loop, Misaligned, Fault, Overflow, Underflow}

\* The target of the branch reaches into the next window.
MCStraddling ==
  {Code(<<P(1), I("branch", 1, 3), P(1), P(2), P(1), P(1), I("end", 1, 0), P(1)>>)}

MCFault == {Fault}
=============================================================================
