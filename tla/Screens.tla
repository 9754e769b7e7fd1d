------------------------------- MODULE Screens -------------------------------
(***************************************************************************)
(* The two screens that take rocket's launcher over: the lock screen       *)
(* (Lockscreen.h, Lockscreen.cpp) and the screenshot viewer                *)
(* (Screenshoter.h, Screenshoter.cpp, with Spin.h).  Their state belongs   *)
(* to the widget the launcher shows and is made anew when it showed        *)
(* another one before.  Touches are handled by the tree of the last build, *)
(* several of them before the next.                                        *)
(*                                                                         *)
(* When the launcher locks, sleeps and takes screenshots is in Launcher.   *)
(* A tap is one step: its Up reaches the widget its Down was in.           *)
(***************************************************************************)
EXTENDS Integers, Sequences

CONSTANTS
  Digits, Codes,      \* what the buttons type, what may be in xochitl.conf
  Positions,          \* of a touch: [x, y]
  Controls,           \* the positions of the bar with the buttons
  Spins, Top,         \* the choices of the dialog, and the largest value of each
  Jump                \* what the outer buttons of a spin add, the inner ones add 1

MaxAttempts == 5
None == -1

ASSUME ScreensAssumption ==
  /\ Codes \subseteq Seq(Digits) /\ Controls \subseteq Positions
  /\ Positions \subseteq [x : Nat, y : Nat]
  /\ Spins = {"quality", "notebook", "mode"} /\ Top \in [Spins -> Nat]
  /\ Jump \in Nat \ {0}

VARIABLES
  shown,         \* what the launcher showed last: "lock", "asleep", "screenshot", "launcher"
  isUnlocked, isViewingScreenshot, asleep,
  file,          \* the code in xochitl.conf
  xochitlPasscode, passcode, attempts,
  wrong,         \* codes that were typed wrongly since the lock screen came up
  poweroff,      \* was called
  finger,        \* the screenshot's detector follows a touch
  touchDownPoint,
  selection,     \* where it starts, its width and height
  isSelecting, isShowingConfirmation,
  chosen,        \* quality, mode and notebook, by their number
  spins,         \* the values of the spins
  built,         \* what the last build of the viewer shows
  simulated,     \* the choices whose target its confirmation shows
  crop,          \* the edited screenshot on the disk
  taps           \* since the last build, and whether two were handled by one tree

launcher == <<shown, isUnlocked, isViewingScreenshot, asleep>>
lock     == <<file, xochitlPasscode, passcode, attempts, wrong, poweroff>>
touch    == <<finger, touchDownPoint, selection>>
dialog   == <<isSelecting, isShowingConfirmation, chosen, spins>>
viewer   == <<built, simulated, crop, taps>>
vars     == <<launcher, lock, touch, dialog, viewer>>

Area(from, to) ==
  LET Low(a, b) == IF a < b THEN a ELSE b
      Gap(a, b) == IF a < b THEN b - a ELSE a - b
  IN [x |-> Low(from.x, to.x), y |-> Low(from.y, to.y), width |-> Gap(from.x, to.x), height |-> Gap(from.y, to.y)]

NoChoice == [s \in Spins |-> None]
NoSelection == [x |-> 0, y |-> 0, width |-> 0, height |-> 0]
isValidSelection == selection.height > 0 /\ selection.width > 0

\* The initial values of the viewer's state.
NewViewer ==
  /\ finger' = FALSE /\ touchDownPoint' = [x |-> 0, y |-> 0] /\ selection' = NoSelection
  /\ isSelecting' = TRUE /\ isShowingConfirmation' = FALSE
  /\ chosen' = NoChoice

Init ==
  /\ shown = "launcher" /\ isUnlocked = FALSE /\ isViewingScreenshot = FALSE /\ asleep = FALSE
  /\ file \in Codes /\ xochitlPasscode = <<>>
  /\ passcode = <<>> /\ attempts = 0 /\ wrong = 0 /\ poweroff = FALSE
  /\ finger = FALSE /\ touchDownPoint = [x |-> 0, y |-> 0] /\ selection = NoSelection
  /\ isSelecting = TRUE /\ isShowingConfirmation = FALSE
  /\ chosen = NoChoice /\ spins = [s \in Spins |-> 0]
  /\ built = [selecting |-> TRUE, valid |-> FALSE, dialog |-> FALSE, confirmation |-> FALSE]
  /\ simulated = NoChoice /\ crop = NoSelection /\ taps = [count |-> 0, raced |-> FALSE]

----------------------------------------------------------------------------
(* The launcher                                                             *)

\* The code is read by the widget's constructor, in every build of the launcher while it is
\* visible; without one it unlocks.
Shows(unlocked) ==
  IF isViewingScreenshot THEN "screenshot" ELSE IF asleep THEN "asleep" ELSE IF unlocked THEN "launcher" ELSE "lock"

Built == [selecting |-> isSelecting, valid |-> isValidSelection, dialog |-> ~isSelecting, confirmation |-> isShowingConfirmation]

\* The lock screen's state starts anew with its widget, not with every build.
initAlways(anew) == 0
init(anew) == IF anew THEN 0 ELSE attempts

\* The confirmation asks for the target of the copy.
confirmation_dialog == IF isShowingConfirmation THEN chosen ELSE NoChoice

\* Spins start at their least value when the dialog comes up.
copy_dialog == IF ~isSelecting /\ ~built.dialog THEN [s \in Spins |-> 0] ELSE spins

Build ==
  LET reads == ~isViewingScreenshot /\ ~asleep
      unlocked == isUnlocked \/ (reads /\ file = <<>>)
      next == Shows(unlocked)
      anew == next # shown
  IN /\ shown' = next
     /\ isUnlocked' = unlocked
     /\ xochitlPasscode' = (IF next = "lock" THEN file ELSE <<>>)
     /\ IF next = "lock" /\ ~anew
        THEN UNCHANGED <<passcode, wrong>>
        ELSE passcode' = <<>> /\ wrong' = 0
     /\ attempts' = init(anew \/ next # "lock")
     /\ IF next = "screenshot" /\ ~anew
        THEN /\ built' = Built
             /\ simulated' = confirmation_dialog
             /\ spins' = copy_dialog
             /\ UNCHANGED <<touch, isSelecting, isShowingConfirmation, chosen>>
        ELSE /\ NewViewer
             /\ built' = [selecting |-> TRUE, valid |-> FALSE, dialog |-> FALSE, confirmation |-> FALSE]
             /\ simulated' = NoChoice /\ spins' = [s \in Spins |-> 0]
     /\ taps' = [count |-> 0, raced |-> taps.raced /\ ~anew]
     /\ UNCHANGED <<isViewingScreenshot, asleep, file, poweroff, crop>>

\* The countdown that a timer or the power key started ends in sleep(), also while a screenshot is
\* viewed; later the launcher is shown again.
Sleep ==
  /\ asleep' = ~asleep
  /\ isUnlocked' = FALSE
  /\ UNCHANGED <<shown, isViewingScreenshot, lock, touch, dialog, viewer>>

ViewScreenshot ==
  /\ isUnlocked /\ isViewingScreenshot' = ~isViewingScreenshot
  /\ UNCHANGED <<shown, isUnlocked, asleep, lock, touch, dialog, viewer>>

ChangeCode ==
  /\ file' \in Codes
  /\ UNCHANGED <<launcher, xochitlPasscode, passcode, attempts, wrong, poweroff, touch, dialog, viewer>>

----------------------------------------------------------------------------
(* The lock screen                                                          *)

\* A code that is as long as the right one is compared with it, and typing starts again.
\* Nothing is typed once the device goes off.
typePasscode(digit) ==
  /\ shown = "lock" /\ ~poweroff
  /\ LET typed == Append(passcode, digit)
         complete == Len(typed) >= Len(xochitlPasscode)
         good == typed = xochitlPasscode
     IN /\ passcode' = (IF complete THEN <<>> ELSE typed)
        /\ isUnlocked' = (isUnlocked \/ (complete /\ good))
        /\ attempts' = (IF ~complete THEN attempts ELSE IF good THEN 0 ELSE attempts + 1)
        /\ wrong' = (IF complete /\ ~good THEN wrong + 1 ELSE IF complete /\ good THEN 0 ELSE wrong)
        /\ poweroff' = (poweroff \/ (complete /\ ~good /\ attempts + 1 >= MaxAttempts))
  /\ UNCHANGED <<shown, isViewingScreenshot, asleep, file, xochitlPasscode, touch, dialog, viewer>>

Clear ==
  /\ shown = "lock" /\ passcode # <<>>
  /\ passcode' = SubSeq(passcode, 1, Len(passcode) - 1)
  /\ UNCHANGED <<launcher, file, xochitlPasscode, attempts, wrong, poweroff, touch, dialog, viewer>>

----------------------------------------------------------------------------
(* The screenshot viewer                                                    *)

\* While the selection is made the whole stack is reached, afterwards only what is on top.
Reached(widget) ==
  /\ shown = "screenshot"
  /\ IF built.selecting THEN widget \in {"screenshot", "controls"} \cup (IF built.confirmation THEN {"confirmation"} ELSE {})
     ELSE widget = IF built.confirmation THEN "confirmation" ELSE "dialog"

Tap == taps' = [count |-> 1, raced |-> taps.raced \/ taps.count > 0]

\* A touch on the controls, or after the selection was made, moves nothing.
SelectsAlways(position) == position \notin Controls
Selects(position) == isSelecting /\ position \notin Controls

TouchDown(position) ==
  /\ Reached("screenshot") /\ ~finger
  /\ finger' = TRUE
  /\ touchDownPoint' = (IF Selects(position) THEN position ELSE touchDownPoint)
  /\ UNCHANGED <<launcher, lock, selection, dialog, viewer>>

TouchMove(position) ==
  /\ Reached("screenshot") /\ finger
  /\ selection' = (IF Selects(position) THEN Area(touchDownPoint, position) ELSE selection)
  /\ UNCHANGED <<launcher, lock, finger, touchDownPoint, dialog, viewer>>

\* An Up that the stack does not pass on leaves the detector with its touch.
TouchUp ==
  /\ Reached("screenshot") /\ finger
  /\ finger' = FALSE
  /\ UNCHANGED <<launcher, lock, touchDownPoint, selection, dialog, viewer>>

\* What the dialog starts with: nothing of an earlier dialog is kept.
ChosenQuality == [chosen EXCEPT !["quality"] = 0, !["notebook"] = None]
Chosen == [chosen EXCEPT !["quality"] = 0, !["mode"] = 0, !["notebook"] = None]

\* "Copy to Xochitl": it is clickable as the selection was when it was built.
copyButton ==
  /\ Reached("controls") /\ built.valid
  /\ crop' = selection
  /\ isSelecting' = FALSE
  /\ chosen' = Chosen
  /\ Tap
  /\ UNCHANGED <<launcher, lock, touch, isShowingConfirmation, spins, built, simulated>>

onClose == isViewingScreenshot' = FALSE

closeButton ==
  /\ Reached("controls")
  /\ onClose
  /\ Tap
  /\ UNCHANGED <<shown, isUnlocked, asleep, lock, touch, dialog, built, simulated, crop>>

ClampLow(spin, value) == IF value < 0 THEN 0 ELSE value
Clamp(spin, value) == IF value < 0 THEN 0 ELSE IF value > Top[spin] THEN Top[spin] ELSE value

changeValue(spin, difference) ==
  /\ Reached("dialog")
  /\ spins' = [spins EXCEPT ![spin] = Clamp(spin, @ + difference)]
  /\ chosen' = [chosen EXCEPT ![spin] = Clamp(spin, spins[spin] + difference)]
  /\ Tap
  /\ UNCHANGED <<launcher, lock, touch, isSelecting, isShowingConfirmation, built, simulated, crop>>

resetSelection == selection' = NoSelection

DialogCancel ==
  /\ Reached("dialog")
  /\ resetSelection /\ isSelecting' = TRUE
  /\ Tap
  /\ UNCHANGED <<launcher, lock, finger, touchDownPoint, isShowingConfirmation, chosen, spins, built, simulated, crop>>

DialogCopy ==
  /\ Reached("dialog")
  /\ isShowingConfirmation' = TRUE
  /\ Tap
  /\ UNCHANGED <<launcher, lock, touch, isSelecting, chosen, spins, built, simulated, crop>>

\* The confirmation is not closed.
ConfirmationCancelOpen ==
  /\ Reached("confirmation")
  /\ resetSelection /\ isSelecting' = TRUE
  /\ Tap
  /\ UNCHANGED <<launcher, lock, finger, touchDownPoint, isShowingConfirmation, chosen, spins, built, simulated, crop>>

ConfirmationCancel ==
  /\ Reached("confirmation")
  /\ resetSelection /\ isSelecting' = TRUE /\ isShowingConfirmation' = FALSE
  /\ Tap
  /\ UNCHANGED <<launcher, lock, finger, touchDownPoint, chosen, spins, built, simulated, crop>>

buildCopyCommand == [image |-> crop, options |-> chosen]

Confirm ==
  /\ Reached("confirmation")
  /\ onClose
  /\ Tap
  /\ UNCHANGED <<shown, isUnlocked, asleep, lock, touch, dialog, built, simulated, crop>>

Next ==
  \/ Build \/ Sleep \/ ViewScreenshot \/ ChangeCode
  \/ \E digit \in Digits : typePasscode(digit)
  \/ Clear
  \/ \E position \in Positions : TouchDown(position) \/ TouchMove(position)
  \/ TouchUp \/ copyButton \/ closeButton
  \/ \E spin \in Spins, difference \in {-Jump, -1, 1, Jump} : changeValue(spin, difference)
  \/ DialogCancel \/ DialogCopy \/ ConfirmationCancel \/ Confirm

Spec == Init /\ [][Next]_vars

----------------------------------------------------------------------------
(* Properties                                                               *)

\* The screens, the digits typed, the touches and the choices stay in their types.
TypeOK ==
  /\ shown \in {"lock", "asleep", "screenshot", "launcher"}
  /\ isUnlocked \in BOOLEAN /\ isViewingScreenshot \in BOOLEAN /\ asleep \in BOOLEAN /\ poweroff \in BOOLEAN
  /\ finger \in BOOLEAN /\ isSelecting \in BOOLEAN /\ isShowingConfirmation \in BOOLEAN
  /\ file \in Codes /\ xochitlPasscode \in Codes \cup {<<>>} /\ passcode \in Seq(Digits)
  /\ attempts \in Nat /\ wrong \in 0 .. MaxAttempts
  /\ touchDownPoint \in [x : Nat, y : Nat]
  /\ selection \in [x : Nat, y : Nat, width : Nat, height : Nat]
  /\ crop \in [x : Nat, y : Nat, width : Nat, height : Nat]
  /\ built \in [selecting : BOOLEAN, valid : BOOLEAN, dialog : BOOLEAN, confirmation : BOOLEAN]
  /\ taps \in [count : {0, 1}, raced : BOOLEAN]
  /\ spins \in [Spins -> Nat] /\ chosen \in [Spins -> Nat \cup {None}]
  /\ \A spin \in Spins : spins[spin] \in 0 .. Top[spin] /\ chosen[spin] \in {None} \cup 0 .. Top[spin]

\* The device was powered off once five wrong codes were typed on one lock screen, also when the
\* code was read again in between: builds of the launcher do not start the count again.
OffAfterFive == wrong >= MaxAttempts => poweroff

\* The image that is going to be copied is the selection that is shown: a finger that is still
\* down does not move it, however many touches one tree handled.
CropIsSelection == ~isSelecting => crop = selection

\* What would be copied is what the spins of the dialog show, also when the dialog was shown
\* before; the notebook is the one open in xochitl until it is chosen.
SpinsMatch ==
  shown = "screenshot" /\ ~isSelecting /\ built.dialog =>
    \A spin \in Spins : chosen[spin] = spins[spin] \/ (spin = "notebook" /\ chosen[spin] = None)

\* What Confirm copies is what the confirmation shows: the crop of the selection with the choices
\* whose target was asked for, unless two taps were handled by one tree.
CopyIsWhatIsShown ==
  Reached("confirmation") /\ taps.count = 0 /\ ~taps.raced =>
    ~isSelecting /\ buildCopyCommand = [image |-> selection, options |-> simulated]

\* From the selection over the dialog to the confirmation, what is shown is what is going to be
\* copied; the variables keep their types.
ShownIsCopied == TypeOK /\ CropIsSelection /\ SpinsMatch /\ CopyIsWhatIsShown
=============================================================================
