------------------------------ MODULE Terminal ------------------------------
(***************************************************************************)
(* yaft's terminal (yaft/YaftWidget.cpp, yaft/screen.cpp): what a program  *)
(* writes to its terminal is read in the rounds of the event loop, changes *)
(* lines that are marked dirty, and is drawn line by line and sent to the  *)
(* panel past the rest of the user interface.  The orientation follows the *)
(* keyboard folio, and the program's end ends yaft.                        *)
(*                                                                         *)
(* Reading the bytes (libYaft) is external: a program writes operations,   *)
(* and a read takes as many as fit in the buffer.  The touches on the      *)
(* terminal are in Touch, the keyboard in Keyboard.                        *)
(***************************************************************************)
EXTENDS Integers, Sequences

CONSTANTS
  MaxLines,   \* lines of the largest terminal
  LinesOf,    \* lines beside each layout of the keyboard
  Texts,      \* what a line may show; the first is blank
  Blank,
  BufferSize, \* operations in one read
  MaxWrites,  \* bound on operations
  MaxTurns    \* bound on what happens to the folio and the keyboard

Lines == 1 .. MaxLines
Layouts == {"full", "hidden", "empty"}
Orientations == {"auto", "portrait", "landscape"}
Operations ==
  [op : {"put"}, text : Texts \ {Blank}] \cup [op : {"move"}, line : Lines]
    \cup [op : {"show", "hide", "clear", "scroll"}]

ASSUME TerminalAssumption ==
  /\ MaxLines \in Nat \ {0} /\ LinesOf \in [Layouts -> Lines] /\ Blank \in Texts
  /\ BufferSize \in Nat \ {0} /\ MaxWrites \in Nat /\ MaxTurns \in Nat

VARIABLES
  pty,         \* written and not read
  text,        \* terminal_t::cells
  cursor,      \* its line; the mode says whether it is visible
  cursorOn,
  dirty,       \* line_dirty
  shouldClear,
  layout,      \* of the keyboard, as it was built last; "empty" in landscape
  lines,       \* terminal_t::lines
  rebuild,     \* setState was called
  canvas,      \* each line as it was drawn last
  panel,       \* and as it was sent
  orientation, \* of the configuration
  isLandscape,
  hidden,
  pogo,        \* a folio is attached
  reported,    \* what isPogoConnected says
  devices,     \* the folio as it was when the devices were last counted
  timers,      \* the pogo timers in their order: TRUE when the folio has not changed since
  child,       \* the program: "runs", "exited", or "held" when one it left keeps the terminal
  signalled,   \* SIGCHLD was handled
  stop,        \* mShouldStop
  interrupted, \* the signal came while the loop was waiting
  phase,       \* of the loop: "check", "frame", "poll", "ended"
  unbuilt,     \* the last read filled the buffer
  writes, turns

terminal == <<text, cursor, cursorOn, dirty, shouldClear>>
screen   == <<layout, lines, canvas, panel>>
folio    == <<orientation, pogo, reported>>
widget   == <<isLandscape, hidden, devices, timers>>
process  == <<child, signalled, stop, interrupted>>
vars     == <<pty, terminal, screen, rebuild, folio, widget, process, phase, unbuilt, writes, turns>>

Cell(line) == [text |-> text[line], cursor |-> cursorOn /\ cursor = line]
Empty == [text |-> Blank, cursor |-> FALSE]

\* checkLandscape: the folio is only read by a timer.
Init ==
  /\ pty = <<>>
  /\ text = [line \in Lines |-> Blank] /\ cursor = 1 /\ cursorOn = TRUE
  /\ dirty = Lines /\ shouldClear = FALSE
  /\ orientation \in Orientations
  /\ isLandscape = (orientation = "landscape") /\ hidden = FALSE
  /\ layout = "none" /\ lines = MaxLines /\ rebuild = TRUE
  /\ canvas = [line \in Lines |-> Empty] /\ panel = [line \in Lines |-> Empty]
  /\ pogo \in BOOLEAN /\ reported = pogo /\ devices = pogo
  /\ timers = IF orientation = "auto" THEN <<TRUE>> ELSE <<>>
  /\ child = "runs" /\ signalled = FALSE /\ stop = FALSE /\ interrupted = FALSE
  /\ phase = "check" /\ unbuilt = FALSE /\ writes = 0 /\ turns = 0

----------------------------------------------------------------------------
(* What the program, the folio and the system do                            *)

Write ==
  /\ child = "runs" /\ writes < MaxWrites
  /\ \E operation \in Operations : pty' = Append(pty, operation)
  /\ writes' = writes + 1
  /\ UNCHANGED <<terminal, screen, rebuild, folio, widget, process, phase, unbuilt, turns>>

Exit ==
  /\ child = "runs"
  /\ child' \in {"exited", "held"}
  /\ UNCHANGED <<pty, terminal, screen, rebuild, folio, widget, signalled, stop, interrupted, phase, unbuilt, writes, turns>>

\* The folio is not attached and detached within one round.
Attach ==
  /\ turns < MaxTurns /\ pogo = devices /\ phase # "ended"
  /\ pogo' = ~pogo
  /\ timers' = [i \in DOMAIN timers |-> FALSE]
  /\ turns' = turns + 1
  /\ UNCHANGED <<pty, terminal, screen, rebuild, orientation, reported, isLandscape, hidden, devices, process, phase, unbuilt, writes>>

\* The state of the folio follows within 100 ms.
Report ==
  /\ reported # pogo
  /\ reported' = pogo
  /\ UNCHANGED <<pty, terminal, screen, rebuild, orientation, pogo, widget, process, phase, unbuilt, writes, turns>>

\* The signal is waited for without stopping the loop.
sigHandlerQuiet ==
  /\ child # "runs" /\ ~signalled
  /\ signalled' = TRUE
  /\ interrupted' = (phase = "poll")
  /\ UNCHANGED <<pty, terminal, screen, rebuild, folio, widget, child, stop, phase, unbuilt, writes, turns>>

sigHandler ==
  /\ child # "runs" /\ ~signalled
  /\ signalled' = TRUE /\ stop' = TRUE
  /\ interrupted' = (phase = "poll")
  /\ UNCHANGED <<pty, terminal, screen, rebuild, folio, widget, child, phase, unbuilt, writes, turns>>

----------------------------------------------------------------------------
(* The loop                                                                 *)

Check ==
  /\ phase = "check"
  /\ phase' = IF stop THEN "ended" ELSE "frame"
  /\ UNCHANGED <<pty, terminal, screen, rebuild, folio, widget, process, unbuilt, writes, turns>>

\* YaftState::build
Layout == IF isLandscape THEN "empty" ELSE IF hidden THEN "hidden" ELSE "full"

\* The setting auto-refresh does not reach the screen: its constructor leaves it at 0.
shouldRefresh(full) == full \/ shouldClear

\* The last lines are not sent when no other line follows.
doDrawOpen(n, drawn, full) ==
  IF shouldRefresh(full) THEN 1 .. n
  ELSE {line \in drawn : \E next \in 1 .. n : next > line /\ next \notin drawn}

\* Lines drawn next to each other are sent together, when a line that is not drawn follows and
\* at the end; nothing is sent when the whole screen is going to be refreshed.
doDraw(n, drawn, full) == IF shouldRefresh(full) THEN 1 .. n ELSE drawn

DirtyNone(dirtied, drawn) == dirtied \ drawn

\* The line of the cursor stays dirty: the cursor may move away.
DirtyAfter(dirtied, drawn) == (dirtied \ drawn) \cup {line \in drawn : cursorOn /\ cursor = line}

\* The screen is drawn when a line of it is dirty as it is updated.
update == rebuild /\ \E line \in dirty : line <= lines

\* The terminal is resized with the screen; its cursor stays where it is.
doLayout(full) == IF full THEN LinesOf[Layout] ELSE lines

\* Another layout moves the keyboard: everything is laid out and drawn again.  Otherwise the
\* lines that are dirty are drawn, the line of the cursor in any case.
Frame ==
  /\ phase = "frame"
  /\ LET full == rebuild /\ Layout # layout
         draws == full \/ update
         n == doLayout(full)
         dirtied == dirty \cup (IF cursorOn THEN {cursor} ELSE {})
         drawn == {line \in 1 .. n : full \/ line \in dirtied}
         sent == doDraw(n, drawn, full)
         drawnCanvas == [line \in Lines |-> IF line \in drawn THEN Cell(line)
                                            ELSE IF full THEN Empty ELSE canvas[line]]
     IN /\ layout' = (IF rebuild THEN Layout ELSE layout)
        /\ lines' = n
        /\ IF ~draws THEN UNCHANGED <<dirty, shouldClear, canvas, panel>>
           ELSE /\ dirty' = DirtyAfter(dirtied, drawn)
                /\ shouldClear' = FALSE
                /\ canvas' = drawnCanvas
                /\ panel' = [line \in Lines |-> IF full \/ line \in sent THEN drawnCanvas[line] ELSE panel[line]]
  /\ rebuild' = FALSE
  /\ unbuilt' = (unbuilt /\ ~rebuild)
  /\ phase' = "poll"
  /\ UNCHANGED <<pty, text, cursor, cursorOn, folio, widget, process, writes, turns>>

\* libYaft: the cursor stays in the terminal, whose first line is 1.
MovedToBefore(line) == IF line < lines THEN line ELSE lines - 1
MovedTo(line) == IF line <= lines THEN line ELSE lines

\* libYaft: one operation of the program.
Parsed(term, operation) ==
  CASE operation.op = "put" ->
         [term EXCEPT !.text[term.cursor] = operation.text, !.dirty = @ \cup {term.cursor}]
    [] operation.op = "move" -> [term EXCEPT !.cursor = MovedTo(operation.line)]
    [] operation.op = "show" -> [term EXCEPT !.cursorOn = TRUE]
    [] operation.op = "hide" -> [term EXCEPT !.cursorOn = FALSE]
    [] operation.op = "clear" ->
         [term EXCEPT !.text = [line \in Lines |-> IF line <= lines THEN Blank ELSE @[line]],
                      !.dirty = @ \cup 1 .. lines, !.shouldClear = TRUE]
    [] operation.op = "scroll" ->
         [term EXCEPT !.text = [line \in Lines |-> IF line < lines THEN @[line + 1] ELSE IF line = lines THEN Blank ELSE @[line]],
                      !.dirty = @ \cup 1 .. lines]

\* The terminal after each of the operations.
ParsedUpTo(ops) ==
  LET term[i \in 0 .. Len(ops)] ==
        IF i = 0
        THEN [text |-> text, cursor |-> cursor, cursorOn |-> cursorOn, dirty |-> dirty, shouldClear |-> shouldClear]
        ELSE Parsed(term[i - 1], ops[i])
  IN term

\* A read that fills the buffer is parsed without setState.
Read(ops) ==
  LET term == ParsedUpTo(ops)[Len(ops)]
  IN /\ text' = term.text /\ cursor' = term.cursor /\ cursorOn' = term.cursorOn
     /\ dirty' = term.dirty /\ shouldClear' = term.shouldClear
     /\ pty' = SubSeq(pty, Len(ops) + 1, Len(pty))

\* What a read takes: nothing when poll was interrupted.
ReadSize == IF interrupted THEN 0 ELSE IF Len(pty) < BufferSize THEN Len(pty) ELSE BufferSize
\* The comparison of the size turned round.
SetsStateFull(size) == size > 0 /\ size = BufferSize

SetsState(size) == size > 0 /\ size # BufferSize

\* How many timers may have run out: one that was added after the last change of the folio
\* runs for longer than the state of the folio needs to follow.
Due == {due \in 0 .. Len(timers) : \A i \in 1 .. due : ~timers[i] \/ reported = pogo}

\* The terminal is not polled.
WakesDeaf(due, key) == devices # pogo \/ due > 0 \/ key \/ interrupted \/ child = "exited"

\* poll returns for data, for a device, for a timer, for a touch, when it is interrupted, and
\* when the terminal was closed, which nobody reads.
Wakes(due, key) == pty # <<>> \/ devices # pogo \/ due > 0 \/ key \/ interrupted \/ child = "exited"

\* The folio is asked at start only.
checkLandscapeNever == FALSE

\* onDeviceUpdate is called.
DevicesChanged == devices # pogo /\ ~interrupted

\* A timer that was added before still runs: only its handle is replaced.
checkLandscape == DevicesChanged /\ orientation = "auto"

\* The rest of the round: what can be read, what the devices are now, the timers that are due,
\* and then the events of the keyboard, which may hide itself.  onDeviceUpdate modifies the state
\* and so asks for a frame, whatever the orientation.
Round(due, key) ==
  /\ phase = "poll"
  /\ Wakes(due, key)
  /\ key => ~interrupted /\ turns < MaxTurns
  /\ Read(SubSeq(pty, 1, ReadSize))
  /\ devices' = (IF interrupted THEN devices ELSE pogo)
  /\ timers' = SubSeq(timers, due + 1, Len(timers)) \o (IF checkLandscape THEN <<TRUE>> ELSE <<>>)
  /\ isLandscape' = (IF due > 0 THEN reported ELSE isLandscape)
  /\ hidden' = (hidden # key)
  /\ rebuild' = (rebuild \/ SetsState(ReadSize) \/ DevicesChanged \/ due > 0 \/ key)
  /\ unbuilt' = (unbuilt \/ ReadSize = BufferSize)
  /\ interrupted' = FALSE
  /\ phase' = "check"
  /\ turns' = turns + (IF key THEN 1 ELSE 0)
  /\ UNCHANGED <<screen, folio, child, signalled, stop, writes>>

Next ==
  \/ Write \/ Exit \/ Attach \/ Report \/ sigHandler \/ Check \/ Frame
  \/ \E due \in Due, key \in BOOLEAN : Round(due, key)

Spec == Init /\ [][Next]_vars

\* The loop runs, the folio's state follows and the signal is delivered; nobody has to write,
\* touch, attach or exit.
FairSpec ==
  /\ Spec
  /\ WF_vars(Check) /\ WF_vars(Frame) /\ WF_vars(\E due \in Due : Round(due, FALSE))
  /\ WF_vars(Report) /\ WF_vars(sigHandler)

----------------------------------------------------------------------------
(* Properties                                                               *)

Cells == [text : Texts, cursor : BOOLEAN]

\* The state of the widget, of its screen and of the program stays in its types.
TypeOK ==
  /\ pty \in Seq(Operations) /\ Len(pty) <= MaxWrites
  /\ text \in [Lines -> Texts] /\ cursor \in Lines /\ cursorOn \in BOOLEAN
  /\ dirty \subseteq Lines /\ shouldClear \in BOOLEAN
  /\ layout \in Layouts \cup {"none"} /\ lines \in Lines /\ rebuild \in BOOLEAN
  /\ canvas \in [Lines -> Cells] /\ panel \in [Lines -> Cells]
  /\ orientation \in Orientations /\ timers \in Seq(BOOLEAN)
  /\ isLandscape \in BOOLEAN /\ hidden \in BOOLEAN /\ pogo \in BOOLEAN /\ reported \in BOOLEAN /\ devices \in BOOLEAN
  /\ signalled \in BOOLEAN /\ stop \in BOOLEAN /\ interrupted \in BOOLEAN /\ unbuilt \in BOOLEAN
  /\ child \in {"runs", "exited", "held"} /\ phase \in {"check", "frame", "poll", "ended"}

\* Everything that was read was drawn: no setState is pending and no full buffer was read since.
Drawn == ~rebuild /\ ~unbuilt

\* What the program wrote is on the panel: no line that changed is left out of the lines that
\* are dirty, drawn and sent, whatever the layout, the order of the output and of the rounds.
TextIsShown == Drawn => \A line \in 1 .. lines : panel[line].text = text[line]

\* A cursor on the panel is where the terminal has it: the line it left, or hid on, is drawn again.
NoStaleCursor ==
  Drawn => \A line \in 1 .. lines : panel[line].cursor => cursorOn /\ cursor = line

\* The panel follows the terminal, its text and its cursor; the variables keep their types.
PanelFollows == TypeOK /\ TextIsShown /\ NoStaleCursor

\* When no timer is left and every change of the devices was seen, the automatic orientation is
\* the folio's, however the timers, the change and its report were ordered.
LandscapeFollows ==
  orientation = "auto" /\ timers = <<>> /\ devices = pogo => isLandscape = pogo

\* A read has filled the buffer and found nothing else to come, although the code expects more
\* then and asks for no frame ("Only update if the buffer isn't full. Otherwise more data is
\* comming probably.", YaftWidget.cpp:114-122).
FilledExactly == pty = <<>> /\ unbuilt /\ ~rebuild

\* What a program wrote is read and comes to the panel, unless yaft ends: all of it, except that
\* what a read that filled its buffer took last waits there for the next frame.
OutputSettles ==
  pty # <<>> ~>
    \/ pty = <<>> /\ \A line \in 1 .. lines : panel[line].text = text[line]
    \/ FilledExactly
    \/ phase = "ended"

\* yaft ends after its program, unless another process keeps the terminal: the signal either
\* comes while the loop runs or interrupts poll, or the terminal that was closed wakes it.
ChildEnds == child = "exited" ~> phase = "ended"

\* The loop is not left waiting in poll with something to do.
PollWakes == OutputSettles /\ ChildEnds

=============================================================================
