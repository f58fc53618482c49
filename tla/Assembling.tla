----------------------------- MODULE Assembling -----------------------------
(***************************************************************************)
(* A text is typed line by line and assembled: by the Input tab, which     *)
(* keeps one Assembler object for all its texts and resets it (InputTab.py *)
(* 333-371), or by pyasm.py's command line, which has a new one.           *)
(***************************************************************************)
EXTENDS Listing

CONSTANTS
  Lines,        \* lines that can be typed
  Openings,     \* texts to begin with
  EarlierTexts, \* texts assembled before, one of them or none
  MaxTyped      \* bound: lines typed

ASSUME TypingAssumption == MaxTyped \in Nat

TextLines == Lines \union UNION {Range(t) : t \in Openings \union EarlierTexts}

\* Texts are sequences of lines of the grammar.
ASSUME TextsAssumption ==
  /\ Openings \union EarlierTexts \subseteq Seq(TextLines)
  /\ \A line \in TextLines : IsLine(line)

VARIABLES
  typed,     \* lines typed so far
  text,      \* asmText
  asm,       \* the Assembler object
  earlier,   \* labels of earlier texts, and whether there are any (history)
  phase,     \* "typing", "converted"
  file,      \* input.hex
  marked     \* what the highlighter marks as invalid

vars == <<typed, text, asm, earlier, phase, file, marked>>

NoMark == NoError
-----------------------------------------------------------------------------
(* highlighting of an invalid line *)

\* SetupErrorHighlightRules: errors with an expression for what they are about.
HasPattern(error) == error.kind \in {"line", "label"}

\* Mutant: a line marked stays marked.
FirstMark(mark, error) == IF mark.kind = "none" /\ HasPattern(error) THEN error ELSE mark

\* MarkInvalidAsmLine and SetInvalidLine
MarkInvalid(mark, error) == IF HasPattern(error) THEN error ELSE mark

\* highlightBlock: the lines a mark is seen on, of a text it was made for.
MarkedLines(t, mark) ==
  {n \in DOMAIN t :
     \/ mark.kind = "line" /\ t[n] = mark.line
     \/ /\ mark.kind = "label"
        /\ t[n].kind = "instr"
        /\ mark.label \in {t[n].src1.label, t[n].src2.label}}
-----------------------------------------------------------------------------
\* What assembling the earlier texts left, of a new object.
AfterText(t) == Assemble(Reset(FreshAssembler), t)

Init ==
  /\ typed = 0
  /\ text \in Openings
  /\ phase = "typing"
  /\ \/ /\ asm = FreshAssembler
        /\ earlier = [any |-> FALSE, labels |-> {}]
        /\ file = << >>
        /\ marked = NoMark
     \/ \E t \in EarlierTexts :
          /\ asm = AfterText(t).asm
          /\ earlier = [any |-> TRUE, labels |-> DefinedLabels(t)]
          /\ file = AfterText(t).file
          /\ marked = MarkInvalid(NoMark, AfterText(t).asm.error)

Type(line) ==
  /\ phase = "typing"
  /\ typed < MaxTyped
  /\ typed' = typed + 1
  /\ text' = Append(text, line)
  /\ UNCHANGED <<asm, earlier, phase, file, marked>>

\* ConvertAsmToHex: a file is read back, or the error takes its place.
Convert ==
  LET result == Assemble(Reset(asm), text)
  IN  /\ phase = "typing"
      /\ phase' = "converted"
      /\ asm' = result.asm
      /\ file' = IF result.opened THEN result.file ELSE file
      /\ marked' = IF result.asm.error = NoError THEN NoMark
                   ELSE MarkInvalid(marked, result.asm.error)
      /\ UNCHANGED <<typed, text, earlier>>

Next == Convert \/ \E line \in Lines : Type(line)

Spec == Init /\ [][Next]_vars
-----------------------------------------------------------------------------
Converted == phase = "converted"
Accepted == Converted /\ asm.error = NoError

\* Nothing shown or written is more than 16 bits.
Fits == \A n \in DOMAIN file : file[n].value < 65536

\* Type invariant: values of the assembler, of the file and of the mark.
TypeOK ==
  /\ typed \in 0 .. MaxTyped
  /\ phase \in {"typing", "converted"}
  /\ asm.error.kind \in {"none", "line", "boot", "size", "label"}
  /\ marked.kind \in {"none", "line", "label"}
  /\ \A n \in DOMAIN file : file[n].header \in BOOLEAN /\ file[n].value \in Nat
  /\ \A l \in DOMAIN asm.labelDict : asm.labelDict[l] \in codeStartAddr .. memoryEnd

\* A new object accepts every legal text, and no others but those with more than one
\* word in a vector, which the check meant for them lets pass (pyasm.py 88-230,
\* 271-280, 333-361).
AcceptsLegalButForVectors ==
  Converted /\ ~earlier.any =>
    /\ Legal(text, DefinedLabels(text)) => asm.error = NoError
    /\ asm.error = NoError => LegalBesidesVectors(text, DefinedLabels(text))

\* What an earlier text leaves can only make more texts acceptable, by its labels
\* and by its section for lines before the first one (Reset, pyasm.py 376-382).
EarlierTextsOnlyAdd ==
  Converted =>
    /\ LegalBesidesVectors(text, DefinedLabels(text)) => asm.error = NoError
    /\ asm.error = NoError /\ StartsInSection(text)
         => LegalBesidesVectors(text, DefinedLabels(text) \union earlier.labels)

\* The memory the simulator loads from the file of an accepted text has every
\* line's words at the address its labels stand for: lengths counted while
\* parsing agree with words written, blocks do not overlap, labels of the text
\* win over earlier ones.  With one block of code in the boot section, that is, as
\* every such block is written at the section's start, and with vectors that end
\* below the program, which the assembler does not check (pyasm.py 188-196, 311-374).
LoadedAsListed ==
  Accepted /\ OneBlockOf(asm.bootInstructions) /\ Fits /\ VectorsFit(text) /\ StartsInSection(text) =>
    /\ Load(file).valid
    /\ Load(file).cells = MemoryOf(text, Updated(asm.labelDict, LabelValues(text)))

\* Whatever becomes of the blocks of the boot section, the words of the program and
\* of the vectors are loaded as listed, with the labels of this text (pyasm.py
\* 352-353, 360-374).
ProgramKept ==
  Accepted /\ Fits /\ VectorsFit(text) /\ StartsInSection(text) =>
    LET listed == MemoryOf(text, Updated(asm.labelDict, LabelValues(text)))
        loaded == Load(file).cells
    IN  \A d \in DOMAIN listed : d < bootStartAddr => d \in DOMAIN loaded /\ loaded[d] = listed[d]

\* A text is rejected for a line or a label: the highlighter marks a line of this
\* text (InputTab.py 254-262, 365-371).
RejectedIsMarked ==
  Converted /\ HasPattern(asm.error) => MarkedLines(text, marked) # {}
=============================================================================
