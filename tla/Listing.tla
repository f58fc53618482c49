------------------------------ MODULE Listing -------------------------------
(***************************************************************************)
(* What a text means, said line by line and without the assembler's        *)
(* dictionaries: which texts are legal, where each line is in memory, and   *)
(* the words it stands for.  And what the simulator reads from a hex file.  *)
(***************************************************************************)
EXTENDS Assembler, FiniteSetsExt

\* The section a line is in, "none" before the first one.
SectionOf(text, n) ==
  LET before == {m \in 1 .. n : text[m].kind = "section"}
  IN  IF before = {} THEN "none" ELSE text[Max(before)].name

InstrLines(text) == {n \in DOMAIN text : text[n].kind = "instr"}
LabelLines(text) == {n \in DOMAIN text : text[n].kind = "label"}
DefinedLabels(text) == {text[n].name : n \in LabelLines(text)}

\* The lines that count: of a vector's words the last one.
LiveLines(text) ==
  {n \in InstrLines(text) :
     SectionOf(text, n) \in DOMAIN VectorAddr =>
       \A m \in InstrLines(text) : SectionOf(text, m) = SectionOf(text, n) => m <= n}

UsedLabels(text) ==
  UNION {{text[n].src1.label, text[n].src2.label} \ {""} : n \in LiveLines(text)}

\* The lines that share an area of memory: the boot section, one vector, or all
\* the rest, whatever the sections it is divided into.
AreaOf(text, n) ==
  LET s == SectionOf(text, n)
  IN  IF s = ".boot" \/ (s \in DOMAIN VectorAddr /\ text[n].kind = "instr") THEN s ELSE "program"

StartsInSection(text) ==
  \A n \in InstrLines(text) \union LabelLines(text) : SectionOf(text, n) # "none"

AreaStart(area) ==
  CASE area = ".boot" -> bootStartAddr
    [] area = "program" -> codeStartAddr
    [] OTHER -> VectorAddr[area]

IsData(line) == instrEncodings[line.mnemonic].opcode = NoOpcode

\* How many words a line stands for.
WordsOf(line) ==
  IF IsData(line) THEN (IF line.src2.type = "imm" THEN line.src2.value ELSE 1)
  ELSE 1 + Cardinality({k \in {1, 2} :
                          (IF k = 1 THEN line.src1 ELSE line.src2).type \in {"imm", "addr"}})

AreaWords(text, area, upTo) ==
  Total([n \in 1 .. upTo - 1 |->
           IF n \in InstrLines(text) /\ AreaOf(text, n) = area THEN WordsOf(text[n]) ELSE 0])

AddressOf(text, n) ==
  AreaStart(AreaOf(text, n)) +
    (IF AreaOf(text, n) \in DOMAIN VectorAddr THEN 0
     ELSE 2 * AreaWords(text, AreaOf(text, n), n))

LabelValues(text) ==
  [l \in DefinedLabels(text) |->
     AddressOf(text, CHOOSE n \in LabelLines(text) : text[n].name = l)]

LegalLine(text, n) ==
  LET line == text[n]
  IN  CASE line.kind = "comment" -> TRUE
        [] line.kind = "junk" -> FALSE
        [] line.kind = "section" ->
             \A m \in DOMAIN text : text[m] = line => m = n
        [] line.kind = "label" ->
             /\ SectionOf(text, n) # "none"
             /\ \A m \in LabelLines(text) : text[m].name = line.name => m = n
        [] line.kind = "instr" ->
             /\ line.mnemonic \in DOMAIN instrEncodings
             /\ OperandsFit(instrEncodings[line.mnemonic], line.src1.type, line.src2.type)
             /\ IsData(line) => line.src2.label = ""
             /\ SectionOf(text, n) # "none"
             /\ SectionOf(text, n) \in {".boot", ".code"} \/ IsData(line)

\* Legal, but for what a vector holds.  The labels in known are those of the text or
\* of a text before it.
LegalBesidesVectors(text, known) ==
  /\ \A n \in DOMAIN text : LegalLine(text, n)
  /\ \E n \in DOMAIN text : text[n] = Section(".boot")
  /\ bootStartAddr + 2 * AreaWords(text, ".boot", Len(text) + 1) <= memoryEnd
  /\ codeStartAddr + 2 * AreaWords(text, "program", Len(text) + 1) <= bootStartAddr
  /\ UsedLabels(text) \subseteq known

\* A vector holds a single word: what a check of the parser is meant for that looks
\* for a digit of the section's name where numbers are kept, and never fires
\* (pyasm.py 218-219).  The help tab asks for a dw with a label, besides (HelpTab.py 266).
OneWordPerVector(text) ==
  \A m, n \in InstrLines(text) :
    SectionOf(text, m) \in DOMAIN VectorAddr /\ SectionOf(text, m) = SectionOf(text, n)
      => m = n /\ WordsOf(text[n]) = 1

Legal(text, known) == LegalBesidesVectors(text, known) /\ OneWordPerVector(text)

\* One block of the boot section, at most, has instructions.
OneBlockOf(blocks) ==
  \A j, k \in DOMAIN blocks : blocks[j].instrs # << >> /\ blocks[k].instrs # << >> => j = k

\* No vector's block reaches into the program.
VectorsFit(text) ==
  \A n \in LiveLines(text) :
    AreaOf(text, n) \in DOMAIN VectorAddr
      => AddressOf(text, n) + 2 * WordsOf(text[n]) <= codeStartAddr

\* The memory a legal text describes; where vectors overlap, the later one counts.
MemoryOf(text, labels) ==
  LET at == [n \in LiveLines(text) |-> AddressOf(text, n)]
      words == [n \in LiveLines(text) |-> InstrWords(labels, Encoded(text[n]))]
      cellsOf(n) == {at[n] + 2 * (k - 1) : k \in DOMAIN words[n]}
  IN  [d \in UNION {cellsOf(n) : n \in LiveLines(text)} |->
         LET n == Max({m \in LiveLines(text) : d \in cellsOf(m)})
         IN  words[n][(d - at[n]) \div 2 + 1]]
-----------------------------------------------------------------------------
(* The constructor of Memory (Memory.cpp) *)

\* storeData of a word line; a word of more than four digits is no valid line.
LoadLine(m, line) ==
  IF ~m.valid THEN m
  ELSE IF line.header THEN [m EXCEPT !.addr = line.value]
  ELSE IF line.value > 65535 THEN [m EXCEPT !.valid = FALSE]
  ELSE [m EXCEPT !.cells = Updated(@, [d \in {m.addr} |-> line.value]),
                    !.addr = (@ + 2) % 65536]

Load(file) ==
  FoldLeft(LoadLine, [valid |-> TRUE, addr |-> 0, cells |-> << >>], file)
=============================================================================
