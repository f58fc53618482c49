------------------------------ MODULE Machine -------------------------------
(***************************************************************************)
(* What the pipeline promises: the instructions take effect one after the  *)
(* other, each one the instruction memory holds at the IP, and exceptions  *)
(* are raised and left as the strategies of Execute do it.                 *)
(***************************************************************************)
EXTENDS Programs

VARIABLES
  prog,   \* contents of memory
  regs,   \* IP, EXCEPTION flag, and how many frames are on the stack
  saved,  \* the save state area
  stack,  \* memory of the stack
  ended   \* SimulationEndReason, "no" as long as the simulation runs

machineVars == <<prog, regs, saved, stack, ended>>
-----------------------------------------------------------------------------
(* Effects of instructions; p is what the last word is as a parameter. *)

\* moveIP and jumpIP
GoTo(p) ==
  /\ regs' = [regs EXCEPT !.ip = p]
  /\ UNCHANGED <<saved, stack, ended>>

\* handleException of the instruction at p: the flags are saved once changed.
Raise(cause, p) ==
  \/ /\ regs.excp
     /\ ended' = "double_exception"
     /\ UNCHANGED <<regs, saved, stack>>
  \/ /\ ~regs.excp
     /\ saved' = [regs EXCEPT !.ip = p, !.excp = TRUE]
     /\ regs' = [regs EXCEPT !.ip = Handler[cause], !.excp = TRUE]
     /\ UNCHANGED <<stack, ended>>

\* ExecCall: the address saved is that after an instruction of two words.
Call(p) ==
  /\ regs.sp < MaxDepth
  /\ stack' = [stack EXCEPT ![regs.sp + 1] =
                [ip |-> Past(regs.ip, 2), excp |-> regs.excp]]
  /\ regs' = [regs EXCEPT !.ip = p, !.sp = @ + 1]
  /\ UNCHANGED <<saved, ended>>

\* ExecRet
Return ==
  /\ regs.sp > 0
  /\ regs' = [ip |-> stack[regs.sp].ip, excp |-> stack[regs.sp].excp, sp |-> regs.sp - 1]
  /\ UNCHANGED <<saved, stack, ended>>

\* ExecExcpExit
LeaveHandler ==
  /\ regs' = [saved EXCEPT !.excp = FALSE]
  /\ UNCHANGED <<saved, stack, ended>>

\* A store to the save state area, of the IP to come back to.
SetReturn(n, p) ==
  /\ saved' = [saved EXCEPT !.ip = p]
  /\ regs' = [regs EXCEPT !.ip = Past(@, n)]
  /\ UNCHANGED <<stack, ended>>

\* ExecEndSim
End ==
  /\ ended' = "normal"
  /\ UNCHANGED <<regs, saved, stack>>

\* Instructions that do not send Decode elsewhere.
Proceed(k, n, p) ==
  \/ k \in {"plain", "nop"} /\ GoTo(Past(regs.ip, n))
  \/ k = "setReturn" /\ SetReturn(n, p)
  \/ k = "end" /\ End

\* Instructions that do, unless an exception ends the simulation.
Redirect(k, p) ==
  \/ k = "jump" /\ GoTo(p)
  \/ k = "call" /\ Call(p)
  \/ k = "call" /\ regs.sp = MaxDepth /\ Raise("stack_overflow", regs.ip)
  \/ k = "ret" /\ Return
  \/ k = "ret" /\ regs.sp = 0 /\ Raise("stack_overflow", regs.ip)
  \/ k = "exit" /\ LeaveHandler
  \/ k = "fault" /\ Raise("access", regs.ip)
  \/ k = "undef" /\ Raise("invalid_decode", regs.ip)

-----------------------------------------------------------------------------
\* What an instruction may turn out to be: a conditional jump depends on flags
\* that are left out; excp_exit is an unknown opcode outside a handler, and
\* also inside one if Decode looked at the flag before the exception.
Outcomes(kind) ==
  CASE kind = "branch" -> {"plain", "jump"}
    [] kind = "exit"   -> IF regs.excp THEN {"exit", "undef"} ELSE {"undef"}
    [] OTHER           -> {kind}

ExecuteAt(ip) ==
  \E k \in Outcomes(prog[ip].kind) :
    LET n == Size(k, prog[ip])
        p == prog[Past(ip, n - 1)].to
    IN Proceed(k, n, p) \/ Redirect(k, p)

Step ==
  /\ ended = "no"
  /\ IF IsOdd(regs.ip) THEN Raise("misaligned_ip", regs.ip) ELSE ExecuteAt(regs.ip)
  /\ UNCHANGED prog

Reset == [ip |-> StartAddr, excp |-> FALSE, sp |-> 0]

Init ==
  /\ prog \in Programs
  /\ regs = Reset
  /\ saved = Reset
  /\ stack = [i \in 1 .. MaxDepth |-> [ip |-> StartAddr, excp |-> FALSE]]
  /\ ended = "no"

Spec == Init /\ [][Step]_machineVars /\ WF_machineVars(Step)

TypeOK ==
  /\ prog \in Programs
  /\ regs \in Registers
  /\ saved \in Registers
  /\ stack \in [1 .. MaxDepth -> Frame]
  /\ ended \in {"no", "normal", "double_exception"}
=============================================================================
