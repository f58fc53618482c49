----------------------------- MODULE MCDevTools -----------------------------
(***************************************************************************)
(* DevTools with a short program, a longer one, a text with a label that   *)
(* is not defined, one with a word too large to be loaded, and one with    *)
(* two blocks of boot code.                                                *)
(***************************************************************************)
EXTENDS DevTools

MCConfig ==
  {[mnemonic |-> "jmp", opcode |-> 7, src1 |-> {<<"imm", {}>>}, src2 |-> {}],
   [mnemonic |-> "dw", opcode |-> NoOpcode, src1 |-> {<<"imm", {}>>}, src2 |-> {}]}

JumpTo(l) == Instr("jmp", LabelOperand("imm", l), Null)
Dw(n) == Instr("dw", Operand("imm", n), Null)

MCTexts ==
  {<<Section(".boot"), JumpTo("main"), Section(".code"), Label("main"), Dw(5)>>,
   <<Section(".boot"), JumpTo("main"), Section(".code"), Dw(1), Label("main"), Dw(2)>>,
   <<Section(".boot"), Dw(1), JumpTo("nowhere")>>,
   <<Section(".boot"), Dw(65536)>>,
   <<Section(".boot"), JumpTo("main"), Label("main"), Dw(5)>>}
=============================================================================
