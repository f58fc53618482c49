----------------------------- MODULE Assembler ------------------------------
(***************************************************************************)
(* The assembler (pyasm.py): what one call of assemble makes of a text,    *)
(* given the state earlier calls left in the Assembler object.  A text is  *)
(* a sequence of lines as the grammar reads them; a hex file is a sequence *)
(* of address and word lines.                                              *)
(***************************************************************************)
EXTENDS Integers, SequencesExt

CONSTANTS
  Config,         \* the instructions of asm_cfg.yml that are used
  codeStartAddr,  \* 0x1000
  bootStartAddr,  \* 0xFFF0
  memoryEnd       \* 0x10000

NoOpcode == -1  \* of dw and dblock

SrcType == {"null", "reg", "addr", "addr_reg", "imm", "sp", "stack_base",
            "stack_size", "simd"}

\* The second operand of dblock is a number.
ASSUME ConfigAssumption ==
  \A item \in Config :
    /\ item.opcode \in {NoOpcode} \union (0 .. 63)
    /\ \A s \in item.src1 \union item.src2 : s[1] \in SrcType /\ s[2] \subseteq SrcType
    /\ item.opcode = NoOpcode => \A s \in item.src2 : s[1] = "imm"

\* The vectors' sixteen bytes are below the program, the boot section above it.
ASSUME AreasAssumption ==
  /\ codeStartAddr \in Nat /\ bootStartAddr \in Nat /\ memoryEnd \in Nat
  /\ 16 <= codeStartAddr /\ codeStartAddr < bootStartAddr
  /\ bootStartAddr < memoryEnd /\ memoryEnd <= 65536

\* Lines the grammar tells apart, and the operands of an instruction.
Section(s) == [kind |-> "section", name |-> s]
Label(l) == [kind |-> "label", name |-> l]
Operand(t, n) == [type |-> t, label |-> "", value |-> n]
LabelOperand(t, l) == [type |-> t, label |-> l, value |-> 0]
Null == Operand("null", 0)
Instr(m, o1, o2) == [kind |-> "instr", mnemonic |-> m, src1 |-> o1, src2 |-> o2]
Comment == [kind |-> "comment"]
Junk == [kind |-> "junk"]

\* Labels are words that do not begin with a digit, and they are of immediates and
\* addresses only.
IsLabel(l) == l \notin {"", "0", "1"}

IsOperand(o) ==
  /\ o.type \in SrcType
  /\ o.value \in Nat
  /\ o.label # "" => IsLabel(o.label) /\ o.type \in {"imm", "addr"}

VectorAddr == [s \in {".vector_0", ".vector_2", ".vector_4", ".vector_6",
                      ".vector_8", ".vector_A", ".vector_C", ".vector_E"} |->
                CASE s = ".vector_0" -> 0 [] s = ".vector_2" -> 2
                  [] s = ".vector_4" -> 4 [] s = ".vector_6" -> 6
                  [] s = ".vector_8" -> 8 [] s = ".vector_A" -> 10
                  [] s = ".vector_C" -> 12 [] s = ".vector_E" -> 14]

Sections == {".boot", ".code", ".data"} \union DOMAIN VectorAddr

IsLine(line) ==
  \/ line \in {Comment, Junk}
  \/ \E s \in Sections : line = Section(s)
  \/ line.kind = "label" /\ IsLabel(line.name)
  \/ line.kind = "instr" /\ IsOperand(line.src1) /\ IsOperand(line.src2)
-----------------------------------------------------------------------------
(* Encodings *)

\* _getSourceFromYmlDict: a source without a list goes with every other one.
Sources(list) ==
  IF list = {} THEN [t \in {"null"} |-> SrcType]
  ELSE [t \in {s[1] : s \in list} |->
          LET only == (CHOOSE s \in list : s[1] = t)[2]
          IN  IF only = {} THEN SrcType ELSE only]

\* getInstructionsFromYml
instrEncodings ==
  [m \in {item.mnemonic : item \in Config} |->
     LET item == CHOOSE i \in Config : i.mnemonic = m
     IN  [opcode |-> item.opcode, src1 |-> Sources(item.src1), src2 |-> Sources(item.src2)]]

\* The checks of instrFn on the operands.
OperandsFit(enc, t1, t2) ==
  /\ t1 \in DOMAIN enc.src1
  /\ t2 \in DOMAIN enc.src2
  /\ t2 \in enc.src1[t1]
  /\ t1 \in enc.src2[t2]

\* Mutant: the word of a second operand is not counted.
LengthOfFirst(enc, o1, o2) ==
  CASE enc.opcode = NoOpcode -> IF o2.type = "imm" THEN 2 * o2.value ELSE 2
    [] OTHER -> 2 + (IF o1.type \in {"addr", "imm"} THEN 2 ELSE 0)

\* Bytes of an instruction, 2 for its own word.
InstrLen(enc, o1, o2) ==
  CASE enc.opcode = NoOpcode -> IF o2.type = "imm" THEN 2 * o2.value ELSE 2
    [] OTHER -> 2 + (IF o1.type \in {"addr", "imm"} THEN 2 ELSE 0)
                  + (IF o2.type \in {"addr", "imm"} THEN 2 ELSE 0)

\* The Instruction kept; a block's length cannot be a label.
Encoded(line) ==
  LET enc == instrEncodings[line.mnemonic]
  IN  [opcode |-> enc.opcode, src1 |-> line.src1, src2 |-> line.src2,
       length |-> InstrLen(enc, line.src1, line.src2)]

LengthIsNumber(line) ==
  ~ (/\ instrEncodings[line.mnemonic].opcode = NoOpcode
     /\ line.src2.type = "imm"
     /\ line.src2.label # "")
-----------------------------------------------------------------------------
(* The state of the Assembler object.  Dictionaries keep the order in which  *)
(* their keys came: a sequence of blocks, of vectors.                        *)

NoError == [kind |-> "none", line |-> Comment, label |-> ""]
Error(kind, line, label) == [kind |-> kind, line |-> line, label |-> label]

FreshAssembler ==
  [sectionDict |-> {}, midInstrDict |-> << >>, bootInstructions |-> << >>,
   excpVectors |-> << >>, currentLabel |-> "0", bootLabel |-> "1",
   currentSection |-> "none", labelDict |-> << >>, error |-> NoError]

\* Mutant: the sections of an earlier text stay.
ResetButSections(a) ==
  [a EXCEPT !.midInstrDict = << >>, !.bootInstructions = << >>, !.excpVectors = << >>,
            !.currentLabel = "0", !.bootLabel = "1", !.error = NoError]

\* Reset: the labels solved and the current section stay as they are.
Reset(a) ==
  [a EXCEPT !.sectionDict = {}, !.midInstrDict = << >>, !.bootInstructions = << >>,
            !.excpVectors = << >>, !.currentLabel = "0", !.bootLabel = "1",
            !.error = NoError]

LabelsOf(blocks) == {blocks[k].label : k \in DOMAIN blocks}

\* An instruction goes to the block of a label, made when it is missing.
AddTo(blocks, label, instr) ==
  LET k == SelectInSeq(blocks, LAMBDA b : b.label = label)
  IN  IF k = 0 THEN Append(blocks, [label |-> label, instrs |-> <<instr>>])
      ELSE [blocks EXCEPT ![k].instrs = Append(@, instr)]

NewBlock(blocks, label) == Append(blocks, [label |-> label, instrs |-> << >>])

\* The test for a second word compares a character with numbers: the word
\* before is replaced.
SetVector(vectors, addr, instr) ==
  LET k == SelectInSeq(vectors, LAMBDA v : v.addr = addr)
  IN  IF k = 0 THEN Append(vectors, [addr |-> addr, instr |-> instr])
      ELSE [vectors EXCEPT ![k].instr = instr]

Reject(a, line) == [a EXCEPT !.error = Error("line", line, "")]
-----------------------------------------------------------------------------
(* Parse actions: what a line does to the state *)

\* sectionFn
EnterSection(a, line) ==
  IF line.name \in a.sectionDict THEN Reject(a, line)
  ELSE [a EXCEPT !.sectionDict = @ \union {line.name}, !.currentSection = line.name]

LabelPlaced(a, line) ==
  IF a.currentSection = ".boot"
  THEN [a EXCEPT !.bootLabel = line.name, !.bootInstructions = NewBlock(@, line.name)]
  ELSE [a EXCEPT !.currentLabel = line.name, !.midInstrDict = NewBlock(@, line.name)]

\* Mutant: a label of the boot section may be defined again.
DefineLabelAgain(a, line) ==
  IF line.name \in LabelsOf(a.midInstrDict) \/ a.currentSection = "none" THEN Reject(a, line)
  ELSE LabelPlaced(a, line)

\* labelFn; before any section there is no current one to look at.
DefineLabel(a, line) ==
  IF \/ line.name \in LabelsOf(a.bootInstructions) \union LabelsOf(a.midInstrDict)
     \/ a.currentSection = "none"
  THEN Reject(a, line)
  ELSE LabelPlaced(a, line)

\* The end of instrFn
PlaceInstr(a, line, i) ==
  CASE a.currentSection = ".boot" ->
         [a EXCEPT !.bootInstructions = AddTo(@, a.bootLabel, i)]
    [] \/ a.currentSection = ".code"
       \/ a.currentSection = ".data" /\ i.opcode = NoOpcode ->
         [a EXCEPT !.midInstrDict = AddTo(@, a.currentLabel, i)]
    [] a.currentSection \in DOMAIN VectorAddr /\ i.opcode = NoOpcode ->
         [a EXCEPT !.excpVectors = SetVector(@, VectorAddr[a.currentSection], i)]
    [] OTHER -> Reject(a, line)

\* mnemonicFn and instrFn
AddInstr(a, line) ==
  IF /\ line.mnemonic \in DOMAIN instrEncodings
     /\ OperandsFit(instrEncodings[line.mnemonic], line.src1.type, line.src2.type)
     /\ LengthIsNumber(line)
  THEN PlaceInstr(a, line, Encoded(line))
  ELSE Reject(a, line)

\* parseString of a line, once no line before it was rejected
ParseLine(a, line) ==
  IF a.error # NoError THEN a
  ELSE CASE line.kind = "section" -> EnterSection(a, line)
         [] line.kind = "label" -> DefineLabel(a, line)
         [] line.kind = "instr" -> AddInstr(a, line)
         [] line.kind = "comment" -> a
         [] line.kind = "junk" -> Reject(a, line)

Parsed(a, text) == FoldLeft(ParseLine, a, text)
-----------------------------------------------------------------------------
(* Labels *)

Total(numbers) == FoldLeft(LAMBDA sum, n : sum + n, 0, numbers)

Lengths(instrs) == [k \in DOMAIN instrs |-> instrs[k].length]
SizeOf(blocks) == Total([k \in DOMAIN blocks |-> Total(Lengths(blocks[k].instrs))])

\* solveLabels
SolveLabels(blocks, start) ==
  [l \in LabelsOf(blocks) |->
     start + SizeOf(SubSeq(blocks, 1, SelectInSeq(blocks, LAMBDA b : b.label = l) - 1))]

\* Mutant: nothing is too large.
NeverTooLarge(blocks, start, end) == FALSE

TooLarge(blocks, start, end) == start + SizeOf(blocks) > end

\* dict.update: the keys of new, and those of old it does not have.
Updated(old, new) ==
  [k \in DOMAIN old \union DOMAIN new |-> IF k \in DOMAIN new THEN new[k] ELSE old[k]]

\* Mutant: a label keeps the value of an earlier text.
WithNewLabels(a, labels) == [a EXCEPT !.labelDict = Updated(labels, @)]

WithLabels(a, labels) == [a EXCEPT !.labelDict = Updated(@, labels)]

\* The checks of assemble between parsing and writing, in their order.
Solved(a) ==
  IF a.error # NoError THEN a
  ELSE IF ".boot" \notin a.sectionDict THEN [a EXCEPT !.error = Error("boot", Comment, "")]
  ELSE IF TooLarge(a.bootInstructions, bootStartAddr, memoryEnd)
  THEN [a EXCEPT !.error = Error("size", Comment, "")]
  ELSE LET b == WithLabels(a, SolveLabels(a.bootInstructions, bootStartAddr))
       IN  IF TooLarge(a.midInstrDict, codeStartAddr, bootStartAddr)
           THEN [b EXCEPT !.error = Error("size", Comment, "")]
           ELSE WithLabels(b, SolveLabels(a.midInstrDict, codeStartAddr))
-----------------------------------------------------------------------------
(* The hex file *)

At(addr) == [header |-> TRUE, value |-> addr]
Word(w) == [header |-> FALSE, value |-> w]

\* _getSrcIntVal
SrcIntVal(labels, o) == IF o.label = "" THEN o.value ELSE labels[o.label]

\* The labels an instruction cannot be written for
Unsolved(labels, i) == {l \in {i.src1.label, i.src2.label} \ {""} : l \notin DOMAIN labels}

\* _getSrcEncoding
SrcEncoding(o) ==
  CASE o.type = "null" -> 0
    [] o.type = "imm" -> 1
    [] o.type = "addr" -> 2
    [] o.type = "sp" -> 3
    [] o.type = "stack_base" -> 4
    [] o.type = "stack_size" -> 5
    [] o.type = "reg" -> 8 + o.value
    [] o.type = "simd" -> 16 + o.value
    [] o.type = "addr_reg" -> 24 + o.value

\* _getParamValue
ParamWords(labels, o) ==
  IF o.type \in {"imm", "addr"} THEN <<SrcIntVal(labels, o)>> ELSE << >>

\* _writeInstr
InstrWords(labels, i) ==
  IF i.opcode # NoOpcode
  THEN <<i.opcode * 1024 + SrcEncoding(i.src1) * 32 + SrcEncoding(i.src2)>>
         \o ParamWords(labels, i.src1) \o ParamWords(labels, i.src2)
  ELSE IF i.src2.type = "null" THEN <<SrcIntVal(labels, i.src1)>>
  ELSE [n \in 1 .. i.src2.value |-> SrcIntVal(labels, i.src1)]

\* A block to write: its address and its instructions.  Every block of the boot
\* section is written at the section's start.
BlocksToWrite(a) ==
  [k \in DOMAIN a.bootInstructions |->
     [addr |-> bootStartAddr, instrs |-> a.bootInstructions[k].instrs]]
  \o [k \in DOMAIN a.excpVectors |->
        [addr |-> a.excpVectors[k].addr, instrs |-> <<a.excpVectors[k].instr>>]]
  \o [k \in DOMAIN a.midInstrDict |->
        [addr |-> a.labelDict[a.midInstrDict[k].label], instrs |-> a.midInstrDict[k].instrs]]

\* The lines of a block up to the first instruction that cannot be written
BlockLines(labels, block) ==
  LET bad == SelectInSeq(block.instrs, LAMBDA i : Unsolved(labels, i) # {})
      upTo == IF bad = 0 THEN Len(block.instrs) ELSE bad - 1
      words == FlattenSeq([n \in 1 .. upTo |-> InstrWords(labels, block.instrs[n])])
  IN  <<At(block.addr)>> \o [n \in DOMAIN words |-> Word(words[n])]

\* The label that ends the writing of a block: that of a first operand first.
FirstUnsolved(labels, block) ==
  LET bad == SelectInSeq(block.instrs, LAMBDA i : Unsolved(labels, i) # {})
      i == block.instrs[bad]
  IN  IF bad = 0 THEN ""
      ELSE IF i.src1.label \in Unsolved(labels, i) THEN i.src1.label ELSE i.src2.label

\* The writing part of assemble, a file that stops where an exception leaves it.
Written(a) ==
  LET blocks == BlocksToWrite(a)
      bad == SelectInSeq(blocks, LAMBDA b : FirstUnsolved(a.labelDict, b) # "")
      upTo == IF bad = 0 THEN Len(blocks) ELSE bad
  IN  [asm |-> IF bad = 0 THEN a
               ELSE [a EXCEPT !.error =
                       Error("label", Comment, FirstUnsolved(a.labelDict, blocks[bad]))],
       opened |-> TRUE,
       file |-> FlattenSeq([k \in 1 .. upTo |-> BlockLines(a.labelDict, blocks[k])])]

\* assemble: the file is opened, and so emptied, once nothing but an unknown
\* label can go wrong.
Assemble(a, text) ==
  LET solved == Solved(Parsed(a, text))
  IN  IF solved.error = NoError THEN Written(solved)
      ELSE [asm |-> solved, opened |-> FALSE, file |-> << >>]
=============================================================================
