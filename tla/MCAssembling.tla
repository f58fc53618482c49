---------------------------- MODULE MCAssembling ----------------------------
(***************************************************************************)
(* Assembling with the lines a text can go wrong with, after openings that *)
(* reach every kind of section, and two texts assembled before.  There is   *)
(* room for twelve words of program and eight of boot code.                *)
(***************************************************************************)
EXTENDS Assembling

MCConfig ==
  {[mnemonic |-> "jmp", opcode |-> 7, src2 |-> {},
    src1 |-> {<<"reg", {}>>, <<"imm", {}>>, <<"addr", {}>>}],
   [mnemonic |-> "cmp", opcode |-> 6,
    src1 |-> {<<"reg", {}>>, <<"imm", {}>>, <<"addr", {}>>, <<"sp", {"reg", "addr", "imm"}>>},
    src2 |-> {<<"reg", {}>>, <<"imm", {}>>, <<"addr", {}>>, <<"sp", {"reg", "addr"}>>}],
   [mnemonic |-> "ret", opcode |-> 14, src1 |-> {}, src2 |-> {}],
   [mnemonic |-> "dw", opcode |-> NoOpcode, src1 |-> {<<"imm", {}>>}, src2 |-> {}],
   [mnemonic |-> "dblock", opcode |-> NoOpcode, src1 |-> {<<"imm", {}>>},
    src2 |-> {<<"imm", {}>>}]}

Boot == Section(".boot")
Code == Section(".code")
Data == Section(".data")
Vector == Section(".vector_2")
JumpTo(l) == Instr("jmp", LabelOperand("imm", l), Null)
Dw(n) == Instr("dw", Operand("imm", n), Null)
DwLabel(l) == Instr("dw", LabelOperand("imm", l), Null)
Dblock(n) == Instr("dblock", Operand("imm", 7), Operand("imm", n))
Cmp(o1, o2) == Instr("cmp", o1, o2)
R(n) == Operand("reg", n)
SP == Operand("sp", 0)

MCLines ==
  {Boot, Code, Vector, Label("main"), Label("data"), JumpTo("main"),
   Cmp(LabelOperand("addr", "data"), Operand("imm", 5)), DwLabel("data"), Dblock(2),
   Cmp(Operand("imm", 65536), SP), Instr("dblock", Operand("imm", 1), LabelOperand("imm", "main")),
   Junk}

MCOpenings ==
  {<< >>,
   <<Boot, JumpTo("main"), Code, Label("main"), Cmp(R(1), LabelOperand("addr", "data"))>>,
   <<Vector, DwLabel("main"), Data, Label("data"), Dw(1), Comment, Code, Label("main")>>,
   <<Code, Cmp(Operand("imm", 1), Operand("imm", 2)), Data, Dblock(9)>>,
   <<Boot, Cmp(SP, R(3)), Cmp(Operand("addr", 4096), Operand("imm", 9)), Instr("ret", Null, Null)>>}

\* Labels with other values than the next text's; an error for an undefined label.
MCEarlierTexts ==
  {<<Code, Label("main"), Dblock(3), Label("data"), Boot, JumpTo("main")>>,
   <<Boot, JumpTo("nowhere"), Vector, Dw(3)>>}
=============================================================================
