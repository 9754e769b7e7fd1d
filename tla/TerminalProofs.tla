---------------------------- MODULE TerminalProofs ----------------------------
(***************************************************************************)
(* Theorems about yaft's terminal, for any number of lines, any layouts    *)
(* and any output.                                                         *)
(***************************************************************************)
EXTENDS Terminal, SequenceTheorems, WellFoundedInduction, TLAPS

(* A line that is not dirty is on the canvas as the terminal has it, with no *)
(* cursor on it; when everything was drawn, a line that stayed dirty is too. *)
CleanLines ==
  \A line \in 1 .. lines : line \notin dirty => canvas[line] = [text |-> text[line], cursor |-> FALSE]
DirtyLines ==
  Drawn => \A line \in 1 .. lines : line \in dirty => canvas[line] = Cell(line)

PanelInv ==
  /\ TypeOK /\ Len(pty) <= writes /\ writes \in 0 .. MaxWrites
  /\ panel = canvas /\ CleanLines /\ DirtyLines

(* The newest timer was added after the last change of the folio.            *)
LandscapeInv ==
  orientation = "auto" /\ devices = pogo =>
    IF timers = <<>> THEN isLandscape = pogo ELSE timers[Len(timers)] = TRUE

------------------------------------------------------------------------------
(* Induction over the natural numbers, for a set                              *)

(* A set of natural numbers has a least element. *)
LEMMA LeastNumber ==
  ASSUME NEW T, T \subseteq Nat, T # {}
  PROVE  \E x \in T : \A y \in T : x <= y
<1> DEFINE R == OpToRel(<, Nat)
<1>1. IsWellFoundedOn(R, Nat)
  BY NatLessThanWellFounded
<1>2. \A x \in Nat, y \in Nat : y < x => <<y, x>> \in R
  BY DEF OpToRel
<1> HIDE DEF R
<1>3. PICK x \in T : \A y \in T : ~ (<<y, x>> \in R)
  BY <1>1, WFMin
<1>4. ASSUME NEW y \in T PROVE x <= y
  <2>1. x \in Nat /\ y \in Nat
    OBVIOUS
  <2>2. ~ (y < x)
    BY <1>2, <1>3, <2>1
  <2> QED BY <2>1, <2>2
<1> QED BY <1>4

LEMMA InductionOverSet ==
  ASSUME NEW S, 0 \in S, \A n \in Nat : n \in S => n + 1 \in S
  PROVE  Nat \subseteq S
<1> DEFINE T == Nat \ S
<1> SUFFICES ASSUME T # {} PROVE FALSE
  OBVIOUS
<1>1. PICK x \in T : \A y \in T : x <= y
  BY LeastNumber
<1>2. x \in Nat /\ x # 0 /\ x \notin S
  OBVIOUS
<1>3. x - 1 \in Nat /\ x - 1 \notin T
  BY <1>1, <1>2
<1> QED BY <1>2, <1>3

------------------------------------------------------------------------------
(* What a read does to the terminal                                           *)

Now == [text |-> text, cursor |-> cursor, cursorOn |-> cursorOn, dirty |-> dirty, shouldClear |-> shouldClear]

Terms ==
  [text : [Lines -> Texts], cursor : Lines, cursorOn : BOOLEAN, dirty : SUBSET Lines, shouldClear : BOOLEAN]

(* A line that is still clean has not changed. *)
Follows(term) ==
  /\ term \in Terms
  /\ \A line \in Lines : line \notin term.dirty => line \notin dirty /\ term.text[line] = text[line]

(* The recursive definition defines a function. *)
LEMMA ParsedUpToDef ==
  ASSUME NEW ops \in Seq(Operations)
  PROVE  ParsedUpTo(ops) =
           [i \in 0 .. Len(ops) |-> IF i = 0 THEN Now ELSE Parsed(ParsedUpTo(ops)[i - 1], ops[i])]
<1> DEFINE Defines(r, n) == r = [i \in 0 .. n |-> IF i = 0 THEN Now ELSE Parsed(r[i - 1], ops[i])]
           S == {n \in Nat : \E r : Defines(r, n)}
<1>1. 0 \in S
  <2>1. Defines([i \in 0 .. 0 |-> Now], 0)
    OBVIOUS
  <2> QED BY <2>1
<1>2. ASSUME NEW n \in Nat, n \in S PROVE n + 1 \in S
  <2>1. PICK r : Defines(r, n)
    BY <1>2
  <2> DEFINE s == [i \in 0 .. n + 1 |-> IF i = n + 1 THEN Parsed(r[n], ops[n + 1]) ELSE r[i]]
  <2>2. ASSUME NEW i \in 0 .. n + 1 PROVE s[i] = IF i = 0 THEN Now ELSE Parsed(s[i - 1], ops[i])
    <3>1. CASE i = n + 1
      <4>1. i # 0 /\ i - 1 = n /\ n \in 0 .. n + 1 /\ n # n + 1
        BY <3>1
      <4> QED BY <3>1, <4>1
    <3>2. CASE i = 0
      BY <2>1, <3>2
    <3>3. CASE i # 0 /\ i # n + 1
      <4>1. i \in 0 .. n /\ i - 1 \in 0 .. n + 1 /\ i - 1 # n + 1
        BY <3>3
      <4> QED BY <2>1, <3>3, <4>1
    <3> QED BY <3>1, <3>2, <3>3
  <2>3. Defines(s, n + 1)
    BY <2>2
  <2>4. n + 1 \in Nat
    OBVIOUS
  <2> HIDE DEF Defines, s
  <2> QED BY <2>3, <2>4
<1>3. Nat \subseteq S
  <2> HIDE DEF S
  <2> QED BY <1>1, <1>2, InductionOverSet
<1>4. \E r : Defines(r, Len(ops))
  BY <1>3
<1>5. ParsedUpTo(ops) = CHOOSE r : Defines(r, Len(ops))
  BY DEF ParsedUpTo, Now
<1> HIDE DEF Defines
<1>6. Defines(ParsedUpTo(ops), Len(ops))
  BY <1>4, <1>5
<1> QED BY <1>6 DEF Defines

(* One operation: every line it changes is dirty afterwards. *)
LEMMA ParsedFollows ==
  ASSUME TypeOK, NEW term, Follows(term), NEW operation \in Operations
  PROVE  Follows(Parsed(term, operation))
<1> USE DEF Follows, Terms
<1>0. /\ lines \in Lines /\ Lines = 1 .. MaxLines /\ MaxLines \in Nat /\ Blank \in Texts
      /\ term.text \in [Lines -> Texts] /\ term.cursor \in Lines /\ term.dirty \in SUBSET Lines
  BY TerminalAssumption DEF TypeOK, Lines
<1>1. CASE operation.op = "put"
  <2>1. operation.text \in Texts
    BY <1>1 DEF Operations
  <2> QED BY <1>0, <1>1, <2>1 DEF Parsed
<1>2. CASE operation.op = "move"
  <2>1. operation.line \in Lines
    BY <1>2 DEF Operations
  <2>2. MovedTo(operation.line) \in Lines
    BY <1>0, <2>1 DEF MovedTo
  <2> QED BY <1>0, <1>2, <2>2 DEF Parsed
<1>3. CASE operation.op = "show"
  BY <1>0, <1>3 DEF Parsed
<1>4. CASE operation.op = "hide"
  BY <1>0, <1>4 DEF Parsed
<1>5. CASE operation.op = "clear"
  <2> DEFINE shown == [line \in Lines |-> IF line <= lines THEN Blank ELSE term.text[line]]
  <2>1. Parsed(term, operation) =
          [text |-> shown, cursor |-> term.cursor, cursorOn |-> term.cursorOn,
           dirty |-> term.dirty \cup 1 .. lines, shouldClear |-> TRUE]
    BY <1>0, <1>5 DEF Parsed
  <2>2. shown \in [Lines -> Texts] /\ 1 .. lines \subseteq Lines
    BY <1>0
  <2>3. \A line \in Lines : line \notin 1 .. lines => shown[line] = term.text[line]
    BY <1>0
  <2> HIDE DEF shown
  <2>4. Parsed(term, operation) \in Terms
    BY <2>1, <2>2
  <2> QED BY <2>1, <2>3, <2>4
<1>6. CASE operation.op = "scroll"
  <2> DEFINE shown == [line \in Lines |-> IF line < lines THEN term.text[line + 1]
                              ELSE IF line = lines THEN Blank ELSE term.text[line]]
  <2>1. Parsed(term, operation) =
          [text |-> shown, cursor |-> term.cursor, cursorOn |-> term.cursorOn,
           dirty |-> term.dirty \cup 1 .. lines, shouldClear |-> term.shouldClear]
    BY <1>0, <1>6 DEF Parsed
  <2>2. shown \in [Lines -> Texts] /\ 1 .. lines \subseteq Lines
    BY <1>0
  <2>3. \A line \in Lines : line \notin 1 .. lines => shown[line] = term.text[line]
    BY <1>0
  <2> HIDE DEF shown
  <2>4. Parsed(term, operation) \in Terms
    BY <2>1, <2>2
  <2> QED BY <2>1, <2>3, <2>4
<1> QED BY <1>1, <1>2, <1>3, <1>4, <1>5, <1>6 DEF Operations

LEMMA ReadFollows ==
  ASSUME TypeOK, NEW ops \in Seq(Operations)
  PROVE  Follows(ParsedUpTo(ops)[Len(ops)])
<1> DEFINE S == {n \in Nat : n <= Len(ops) => Follows(ParsedUpTo(ops)[n])}
<1>0. Len(ops) \in Nat
  OBVIOUS
<1>1. 0 \in S
  <2>1. ParsedUpTo(ops)[0] = Now
    BY <1>0, ParsedUpToDef
  <2>2. Follows(Now)
    BY DEF Follows, Terms, Now, TypeOK
  <2> QED BY <2>1, <2>2
<1>2. ASSUME NEW n \in Nat, n \in S PROVE n + 1 \in S
  <2> SUFFICES ASSUME n + 1 <= Len(ops) PROVE Follows(ParsedUpTo(ops)[n + 1])
    OBVIOUS
  <2>1. ops[n + 1] \in Operations /\ Follows(ParsedUpTo(ops)[n])
    BY <1>0, <1>2
  <2>2. ParsedUpTo(ops)[n + 1] = Parsed(ParsedUpTo(ops)[n], ops[n + 1])
    BY <1>0, ParsedUpToDef
  <2> QED BY <2>1, <2>2, ParsedFollows
<1>3. Nat \subseteq S
  <2> HIDE DEF S
  <2> QED BY <1>1, <1>2, InductionOverSet
<1> QED BY <1>0, <1>3

------------------------------------------------------------------------------
(* The steps                                                                  *)

LEMMA PanelInit == Init => PanelInv
<1> SUFFICES ASSUME Init PROVE PanelInv
  OBVIOUS
<1> USE TerminalAssumption
<1>1. /\ canvas \in [Lines -> Cells] /\ panel \in [Lines -> Cells] /\ text \in [Lines -> Texts]
      /\ lines \in Lines /\ cursor \in Lines /\ 0 \in 0 .. MaxWrites
  BY DEF Init, Empty, Cells, Lines
<1>2. timers \in Seq(BOOLEAN) /\ isLandscape \in BOOLEAN /\ orientation \in Orientations
  <2>1. <<TRUE>> \in Seq(BOOLEAN) /\ <<>> \in Seq(BOOLEAN)
    OBVIOUS
  <2>2. timers \in {<<TRUE>>, <<>>} /\ orientation \in Orientations
    BY DEF Init
  <2>3. isLandscape \in BOOLEAN
    BY DEF Init
  <2> QED BY <2>1, <2>2, <2>3
<1>3. pty \in Seq(Operations) /\ Len(pty) = 0 /\ pogo \in BOOLEAN /\ reported \in BOOLEAN /\ devices \in BOOLEAN
  BY DEF Init
<1>4. TypeOK
  <2>1. Len(pty) <= MaxWrites /\ dirty \subseteq Lines
    BY <1>1, <1>3 DEF Init
  <2> QED BY <1>1, <1>2, <1>3, <2>1 DEF Init, TypeOK
<1>5. CleanLines /\ DirtyLines /\ panel = canvas
  BY DEF Init, CleanLines, DirtyLines, Drawn, Lines
<1> QED BY <1>1, <1>3, <1>4, <1>5 DEF Init, PanelInv

(* The steps of the program, the folio and the system, which draw nothing. *)
Outside == Write \/ Exit \/ Attach \/ Report \/ sigHandler \/ Check

LEMMA OutsideTypes ==
  ASSUME PanelInv, Outside \/ UNCHANGED vars
  PROVE  /\ TypeOK' /\ Len(pty') <= writes' /\ writes' \in 0 .. MaxWrites
         /\ UNCHANGED <<terminal, screen, rebuild, unbuilt>>
<1> USE DEF terminal, screen, folio, widget, process, PanelInv
<1>1. CASE Write
  <2>1. PICK operation \in Operations : pty' = Append(pty, operation)
    BY <1>1 DEF Write
  <2>2. pty \in Seq(Operations) /\ Len(pty) <= writes /\ writes < MaxWrites /\ writes \in 0 .. MaxWrites
        /\ MaxWrites \in Nat
    BY <1>1, TerminalAssumption DEF Write, TypeOK
  <2>3. pty' \in Seq(Operations) /\ Len(pty') = Len(pty) + 1 /\ writes' = writes + 1
    BY <1>1, <2>1, <2>2 DEF Write
  <2>4. Len(pty') <= writes' /\ writes' \in 0 .. MaxWrites /\ Len(pty') <= MaxWrites
    BY <2>2, <2>3
  <2> QED BY <1>1, <2>3, <2>4 DEF Write, TypeOK
<1>2. CASE Exit
  BY <1>2 DEF Exit, TypeOK
<1>3. CASE Attach
  <2>1. timers' \in Seq(BOOLEAN)
    <3>1. timers \in Seq(BOOLEAN) /\ timers' = [i \in DOMAIN timers |-> FALSE]
      BY <1>3 DEF Attach, TypeOK
    <3>2. Len(timers) \in Nat /\ DOMAIN timers = 1 .. Len(timers)
      BY <3>1
    <3>3. timers' \in [1 .. Len(timers) -> BOOLEAN]
      BY <3>1, <3>2
    <3> QED BY <3>2, <3>3, SeqDef
  <2>2. pogo' \in BOOLEAN
    BY <1>3 DEF Attach
  <2> QED BY <1>3, <2>1, <2>2 DEF Attach, TypeOK
<1>4. CASE Report
  BY <1>4 DEF Report, TypeOK
<1>5. CASE sigHandler
  <2>1. signalled' \in BOOLEAN /\ stop' \in BOOLEAN /\ interrupted' \in BOOLEAN
    BY <1>5 DEF sigHandler
  <2> QED BY <1>5, <2>1 DEF sigHandler, TypeOK
<1>6. CASE Check
  <2>1. phase' \in {"ended", "frame"}
    BY <1>6 DEF Check
  <2> QED BY <1>6, <2>1 DEF Check, TypeOK
<1>7. CASE UNCHANGED vars
  BY <1>7 DEF vars, TypeOK
<1> QED BY <1>1, <1>2, <1>3, <1>4, <1>5, <1>6, <1>7 DEF Outside

LEMMA OutsideStep ==
  ASSUME PanelInv, Outside \/ UNCHANGED vars
  PROVE  PanelInv'
<1>1. UNCHANGED <<text, cursor, cursorOn, dirty, lines, canvas, panel, rebuild, unbuilt>>
  BY OutsideTypes DEF terminal, screen
<1>2. CleanLines' /\ DirtyLines' /\ panel' = canvas'
  BY <1>1 DEF PanelInv, CleanLines, DirtyLines, Drawn, Cell
<1> QED BY <1>2, OutsideTypes DEF PanelInv

(* What is drawn and what is sent in one round. *)
LEMMA FrameStep ==
  ASSUME PanelInv, Frame
  PROVE  PanelInv'
<1> USE DEF folio, widget, process
<1> DEFINE full == rebuild /\ Layout # layout
           n == doLayout(full)
           dirtied == dirty \cup (IF cursorOn THEN {cursor} ELSE {})
           drawn == {line \in 1 .. n : full \/ line \in dirtied}
           sent == doDraw(n, drawn, full)
           drawnCanvas == [line \in Lines |-> IF line \in drawn THEN Cell(line)
                                              ELSE IF full THEN Empty ELSE canvas[line]]
           draws == full \/ update
<1>0. /\ TypeOK /\ Len(pty) <= writes /\ writes \in 0 .. MaxWrites
      /\ panel = canvas /\ CleanLines /\ DirtyLines
      /\ dirty \subseteq Lines /\ cursor \in Lines /\ cursorOn \in BOOLEAN
      /\ text \in [Lines -> Texts] /\ canvas \in [Lines -> Cells] /\ lines \in Lines
  BY DEF PanelInv, TypeOK
<1>1. /\ layout' = (IF rebuild THEN Layout ELSE layout) /\ lines' = n
      /\ rebuild' = FALSE /\ (unbuilt' <=> unbuilt /\ ~rebuild) /\ phase' = "poll"
      /\ UNCHANGED <<pty, text, cursor, cursorOn, folio, widget, process, writes, turns>>
  BY DEF Frame
<1>2. ~draws => UNCHANGED <<dirty, shouldClear, canvas, panel>>
  BY DEF Frame
<1>3. draws => /\ dirty' = DirtyAfter(dirtied, drawn) /\ shouldClear' = FALSE /\ canvas' = drawnCanvas
               /\ panel' = [line \in Lines |-> IF full \/ line \in sent THEN drawnCanvas[line] ELSE panel[line]]
  BY DEF Frame
<1>4. n \in Lines /\ Layout \in Layouts
  BY <1>0, TerminalAssumption DEF doLayout, Layout, Layouts
<1>5. 1 .. n \subseteq Lines /\ drawn \subseteq 1 .. n
  BY <1>4, TerminalAssumption DEF Lines
<1>6. ~full => n = lines
  BY DEF doLayout
<1> HIDE DEF full, n, dirtied, drawn, sent, drawnCanvas, draws
<1>7. drawnCanvas \in [Lines -> Cells]
  <2>1. \A line \in Lines : Cell(line) \in Cells /\ Empty \in Cells /\ canvas[line] \in Cells
    BY <1>0, TerminalAssumption DEF Cell, Cells, Empty
  <2> QED BY <2>1 DEF drawnCanvas
<1>8. CASE ~draws
  <2>1. ~full /\ n = lines
    BY <1>6, <1>8 DEF draws
  <2>2. unbuilt' \in BOOLEAN /\ rebuild' \in BOOLEAN /\ layout' \in Layouts \cup {"none"}
    BY <1>0, <1>1, <1>4 DEF TypeOK, Frame
  <2>3. TypeOK'
    BY <1>0, <1>1, <1>2, <1>8, <2>1, <2>2 DEF TypeOK
  <2>4. CleanLines'
    BY <1>0, <1>1, <1>2, <1>8, <2>1 DEF CleanLines
  <2>5. DirtyLines'
    <3>1. CASE rebuild
      <4>1. \A line \in 1 .. lines : line \notin dirty
        BY <1>0, <1>8, <3>1, TerminalAssumption DEF draws, update, Lines
      <4> QED BY <1>1, <1>2, <1>8, <2>1, <4>1 DEF DirtyLines
    <3>2. CASE ~rebuild
      BY <1>0, <1>1, <1>2, <1>8, <2>1, <3>2 DEF DirtyLines, Drawn, Cell
    <3> QED BY <3>1, <3>2
  <2> QED BY <1>0, <1>1, <1>2, <1>8, <2>3, <2>4, <2>5 DEF PanelInv
<1>9. CASE draws
  <2>1. dirty' = (dirtied \ drawn) \cup {line \in drawn : cursorOn /\ cursor = line}
    BY <1>3, <1>9 DEF DirtyAfter
  <2>2. dirty' \subseteq Lines
    BY <1>0, <1>5, <2>1 DEF dirtied
  <2>3. panel' = canvas'
    <3> SUFFICES ASSUME NEW line \in Lines PROVE full \/ line \in sent \/ drawnCanvas[line] = canvas[line]
      BY <1>0, <1>3, <1>7, <1>9
    <3>1. ~full /\ line \notin drawn => drawnCanvas[line] = canvas[line]
      BY DEF drawnCanvas
    <3>2. drawn \subseteq sent
      BY <1>5 DEF sent, doDraw
    <3> QED BY <3>1, <3>2
  <2>4. ASSUME NEW line \in 1 .. n
        PROVE  canvas'[line] = (IF line \in drawn THEN Cell(line) ELSE canvas[line])
    <3>1. full => line \in drawn
      BY DEF drawn
    <3> QED BY <1>3, <1>5, <1>9, <3>1 DEF drawnCanvas
  <2>5. CleanLines'
    <3> SUFFICES ASSUME NEW line \in 1 .. n, line \notin dirty'
                 PROVE  canvas'[line] = [text |-> text[line], cursor |-> FALSE]
      BY <1>1 DEF CleanLines
    <3>1. CASE line \in drawn
      <4>1. ~(cursorOn /\ cursor = line)
        BY <2>1, <3>1
      <4> QED BY <2>4, <3>1, <4>1 DEF Cell
    <3>2. CASE line \notin drawn
      <4>1. line \notin dirtied /\ ~full
        BY <3>2 DEF drawn
      <4>2. line \notin dirty /\ n = lines
        BY <1>6, <4>1 DEF dirtied
      <4> QED BY <1>0, <2>4, <3>2, <4>2 DEF CleanLines
    <3> QED BY <3>1, <3>2
  <2>6. DirtyLines'
    <3> SUFFICES ASSUME NEW line \in 1 .. n, line \in dirty' PROVE canvas'[line] = Cell(line)
      BY <1>1 DEF DirtyLines, Cell
    <3>1. line \in drawn
      BY <2>1 DEF drawn
    <3> QED BY <2>4, <3>1
  <2>7. TypeOK'
    <3>1. unbuilt' \in BOOLEAN /\ layout' \in Layouts \cup {"none"}
      BY <1>0, <1>1, <1>4 DEF TypeOK, Frame
    <3> QED BY <1>0, <1>1, <1>3, <1>4, <1>7, <1>9, <2>2, <2>3, <3>1 DEF TypeOK
  <2> QED BY <1>0, <1>1, <2>3, <2>5, <2>6, <2>7 DEF PanelInv
<1> QED BY <1>8, <1>9

(* The timers that were due are gone, and a new one is the last. *)
LEMMA TimersAfter ==
  ASSUME TypeOK, NEW due \in Due, NEW key \in BOOLEAN, Round(due, key)
  PROVE  /\ timers' \in Seq(BOOLEAN) /\ due \in 0 .. Len(timers) /\ Len(timers) \in Nat
         /\ checkLandscape => timers' # <<>> /\ timers'[Len(timers')] = TRUE
         /\ ~checkLandscape /\ due = Len(timers) => timers' = <<>>
         /\ ~checkLandscape /\ due # Len(timers) =>
              timers' # <<>> /\ timers'[Len(timers')] = timers[Len(timers)]
<1>0. timers \in Seq(BOOLEAN) /\ due \in 0 .. Len(timers) /\ Len(timers) \in Nat
  BY DEF TypeOK, Due
<1> DEFINE kept == SubSeq(timers, due + 1, Len(timers))
           added == IF checkLandscape THEN <<TRUE>> ELSE <<>>
<1>1. timers' = kept \o added
  BY DEF Round
<1>2. kept \in Seq(BOOLEAN) /\ Len(kept) = Len(timers) - due
      /\ \A i \in 1 .. Len(timers) - due : kept[i] = timers[due + i]
  BY <1>0
<1> HIDE DEF kept
<1>3. CASE checkLandscape
  <2>1. timers' = Append(kept, TRUE)
    <3>1. timers' = kept \o <<TRUE>>
      BY <1>1, <1>3
    <3> QED BY <1>2, <3>1, AppendIsConcat
  <2>2. timers' \in Seq(BOOLEAN) /\ Len(timers') = Len(kept) + 1 /\ timers'[Len(kept) + 1] = TRUE
    BY <1>2, <2>1, AppendProperties
  <2>3. timers' # <<>>
    BY <1>0, <1>2, <2>2
  <2> QED BY <1>0, <1>3, <2>2, <2>3
<1>4. CASE ~checkLandscape
  <2>1. timers' = kept
    BY <1>1, <1>2, <1>4
  <2>2. due = Len(timers) => kept = <<>>
    BY <1>0, <1>2
  <2>3. ASSUME due # Len(timers) PROVE kept # <<>> /\ kept[Len(kept)] = timers[Len(timers)]
    <3>1. Len(kept) \in 1 .. Len(timers) - due /\ due + Len(kept) = Len(timers)
      BY <1>0, <1>2, <2>3
    <3>2. kept[Len(kept)] = timers[due + Len(kept)]
      BY <1>2, <3>1
    <3>3. kept # <<>>
      BY <3>1
    <3> QED BY <3>1, <3>2, <3>3
  <2> QED BY <1>0, <1>2, <1>4, <2>1, <2>2, <2>3
<1> QED BY <1>3, <1>4

(* A round of the loop: what is read makes the lines it changes dirty. *)
LEMMA RoundStep ==
  ASSUME PanelInv, NEW due \in Due, NEW key \in BOOLEAN, Round(due, key)
  PROVE  PanelInv'
<1> USE DEF screen, folio
<1> DEFINE ops == SubSeq(pty, 1, ReadSize)
           term == ParsedUpTo(ops)[Len(ops)]
<1>0. /\ TypeOK /\ Len(pty) <= writes /\ writes \in 0 .. MaxWrites
      /\ panel = canvas /\ CleanLines /\ DirtyLines
      /\ pty \in Seq(Operations) /\ lines \in Lines /\ 1 .. lines \subseteq Lines
      /\ Len(pty) \in Nat /\ Len(pty) <= MaxWrites /\ MaxWrites \in Nat /\ BufferSize \in Nat \ {0}
  BY TerminalAssumption DEF PanelInv, TypeOK, Lines
<1>1. ReadSize \in 0 .. Len(pty)
  BY <1>0 DEF ReadSize
<1>2. ops \in Seq(Operations) /\ Len(ops) = ReadSize
  BY <1>0, <1>1, SubSeqProperties
<1>3. Follows(term)
  BY <1>0, <1>2, ReadFollows
<1>4. /\ text' = term.text /\ cursor' = term.cursor /\ cursorOn' = term.cursorOn
      /\ dirty' = term.dirty /\ shouldClear' = term.shouldClear
      /\ pty' = SubSeq(pty, Len(ops) + 1, Len(pty))
  BY DEF Round, Read
<1>5. pty' \in Seq(Operations) /\ Len(pty') <= Len(pty) /\ Len(pty') \in Nat
  BY <1>0, <1>1, <1>2, <1>4, SubSeqProperties
<1>6. ReadSize = 0 => UNCHANGED <<text, cursor, cursorOn, dirty>>
  <2>1. ReadSize = 0 => term = Now
    <3> SUFFICES ASSUME ReadSize = 0 PROVE ParsedUpTo(ops)[0] = Now
      BY <1>2
    <3> HIDE DEF ops
    <3>1. 0 \in 0 .. Len(ops)
      BY <1>2
    <3> QED BY <1>2, <3>1, ParsedUpToDef
  <2> QED BY <1>4, <2>1 DEF Now
<1> HIDE DEF ops, term
<1>7. CleanLines'
  <2> SUFFICES ASSUME NEW line \in 1 .. lines, line \notin dirty'
               PROVE  canvas[line] = [text |-> text'[line], cursor |-> FALSE]
    BY DEF CleanLines, Round
  <2> QED BY <1>0, <1>3, <1>4 DEF Follows, CleanLines
<1>8. DirtyLines'
  <2>1. CASE ReadSize = 0
    <3>1. UNCHANGED <<text, cursor, cursorOn, dirty, canvas, lines>>
      BY <1>6, <2>1 DEF Round
    <3>2. Drawn' => Drawn
      BY DEF Round, Drawn
    <3> QED BY <1>0, <3>1, <3>2 DEF DirtyLines, Cell
  <2>2. CASE ReadSize # 0
    <3>1. SetsState(ReadSize) \/ ReadSize = BufferSize
      BY <1>0, <1>1, <2>2 DEF SetsState
    <3> QED BY <3>1 DEF DirtyLines, Drawn, Round
  <2> QED BY <2>1, <2>2
<1>9. TypeOK'
  <2>1. text' \in [Lines -> Texts] /\ cursor' \in Lines /\ cursorOn' \in BOOLEAN /\ dirty' \subseteq Lines
        /\ shouldClear' \in BOOLEAN
    BY <1>3, <1>4 DEF Follows, Terms
  <2>2. timers' \in Seq(BOOLEAN)
    BY <1>0, TimersAfter
  <2>3. devices' \in BOOLEAN /\ isLandscape' \in BOOLEAN /\ hidden' \in BOOLEAN
    BY <1>0 DEF Round, TypeOK
  <2>4. rebuild' \in BOOLEAN /\ unbuilt' \in BOOLEAN /\ interrupted' \in BOOLEAN /\ phase' = "check"
    BY <1>0 DEF Round, TypeOK
  <2>5. UNCHANGED <<layout, lines, canvas, panel, orientation, pogo, reported, child, signalled, stop>>
    BY DEF Round
  <2>6. Len(pty') <= MaxWrites
    BY <1>0, <1>5
  <2> QED BY <1>0, <1>5, <2>1, <2>2, <2>3, <2>4, <2>5, <2>6 DEF TypeOK
<1> QED BY <1>0, <1>5, <1>7, <1>8, <1>9 DEF Round, PanelInv

LEMMA PanelStep == PanelInv /\ [Next]_vars => PanelInv'
BY OutsideStep, FrameStep, RoundStep DEF Next, Outside

(* The newest timer, once it is due, finds the state of the folio as it was reported    *)
(* after the last change. *)
LEMMA LandscapeStep ==
  ASSUME TypeOK, LandscapeInv, [Next]_vars
  PROVE  LandscapeInv'
<1> USE DEF screen, folio, widget, process, LandscapeInv
<1>1. CASE Write \/ Exit \/ Report \/ sigHandler \/ Check \/ Frame \/ UNCHANGED vars
  BY <1>1 DEF Write, Exit, Report, sigHandler, Check, Frame, vars
<1>2. CASE Attach
  BY <1>2 DEF Attach, TypeOK
<1>3. ASSUME NEW due \in Due, NEW key \in BOOLEAN, Round(due, key) PROVE LandscapeInv'
  <2>0. /\ devices' = (IF interrupted THEN devices ELSE pogo) /\ pogo' = pogo /\ orientation' = orientation
        /\ isLandscape' = (IF due > 0 THEN reported ELSE isLandscape)
    BY <1>3 DEF Round
  <2>1. CASE checkLandscape
    BY <1>3, <2>0, <2>1, TimersAfter
  <2>2. CASE ~checkLandscape
    <3> SUFFICES ASSUME orientation = "auto", devices' = pogo
                 PROVE  IF timers' = <<>> THEN isLandscape' = pogo ELSE timers'[Len(timers')] = TRUE
      BY <2>0
    <3>1. devices = pogo
      BY <2>0, <2>2 DEF checkLandscape, DevicesChanged
    <3>2. due \in 0 .. Len(timers) /\ Len(timers) \in Nat /\ timers \in Seq(BOOLEAN)
      BY <1>3, TimersAfter DEF TypeOK
    <3>3. CASE due # Len(timers)
      <4>1. timers # <<>>
        BY <3>2, <3>3
      <4> QED BY <1>3, <2>2, <3>1, <3>3, <4>1, TimersAfter
    <3>4. CASE due = Len(timers)
      <4>1. timers' = <<>>
        BY <1>3, <2>2, <3>4, TimersAfter
      <4>2. CASE due = 0
        <5>1. timers = <<>> /\ isLandscape' = isLandscape
          <6>1. Len(timers) = 0 /\ ~(due > 0)
            BY <3>4, <4>2
          <6>2. timers = <<>>
            BY <3>2, <6>1, EmptySeq
          <6> QED BY <2>0, <6>1, <6>2
        <5> QED BY <3>1, <4>1, <5>1
      <4>3. CASE due # 0
        <5>1. timers # <<>> /\ due > 0
          BY <3>2, <3>4, <4>3
        <5>2. timers[due] = TRUE
          BY <3>1, <3>4, <5>1
        <5>3. reported = pogo
          BY <3>2, <5>1, <5>2 DEF Due
        <5> QED BY <2>0, <4>1, <5>1, <5>3
      <4> QED BY <4>2, <4>3
    <3> QED BY <3>3, <3>4
  <2> QED BY <2>1, <2>2
<1> QED BY <1>1, <1>2, <1>3 DEF Next

------------------------------------------------------------------------------

(* Whatever a program writes and however reads, builds, turns of the folio and draws    *)
(* follow one another: no line that changed is left out, and no cursor stays behind.    *)
THEOREM PanelFollowsTerminal == Spec => []PanelFollows
<1>1. PanelInv => PanelFollows
  <2> SUFFICES ASSUME PanelInv, Drawn, NEW line \in 1 .. lines
               PROVE  /\ panel[line].text = text[line]
                      /\ panel[line].cursor => cursorOn /\ cursor = line
    BY DEF PanelInv, PanelFollows, TextIsShown, NoStaleCursor
  <2>0. panel = canvas /\ CleanLines /\ DirtyLines /\ cursorOn \in BOOLEAN
    BY DEF PanelInv, TypeOK
  <2>1. CASE line \in dirty
    <3>1. panel[line] = [text |-> text[line], cursor |-> cursorOn /\ cursor = line]
      BY <2>0, <2>1 DEF DirtyLines, Cell
    <3>2. panel[line].text = text[line] /\ panel[line].cursor = (cursorOn /\ cursor = line)
      BY <3>1
    <3> QED BY <3>2
  <2>2. CASE line \notin dirty
    <3>1. panel[line] = [text |-> text[line], cursor |-> FALSE]
      BY <2>0, <2>2 DEF CleanLines
    <3>2. panel[line].text = text[line] /\ panel[line].cursor = FALSE
      BY <3>1
    <3> QED BY <3>2
  <2> QED BY <2>1, <2>2
<1> QED BY <1>1, PanelInit, PanelStep, PTL DEF Spec

(* The automatic orientation is the folio's when no timer is left, however many turns   *)
(* of the folio, reports and timers there were. *)
THEOREM LandscapeFollowsFolio == Spec => []LandscapeFollows
<1>1. Init => LandscapeInv
  BY DEF Init, LandscapeInv
<1>2. LandscapeInv => LandscapeFollows
  BY DEF LandscapeInv, LandscapeFollows
<1>3. PanelInv => TypeOK
  BY DEF PanelInv
<1> QED BY <1>1, <1>2, <1>3, PanelInit, PanelStep, LandscapeStep, PTL DEF Spec

============================================================================
