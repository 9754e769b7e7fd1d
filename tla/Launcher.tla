------------------------------ MODULE Launcher ------------------------------
(***************************************************************************)
(* rocket's LauncherState and the event loop that drives it.               *)
(*                                                                         *)
(* One round of AppContext::step is: rebuild the widget tree, poll, run    *)
(* the callback of the readable pipe, run the timers that are due, hand    *)
(* the events poll returned to the tree built at the start of the round.   *)
(* The child processes, the signal handler, the clock and the file system  *)
(* move between any two of these.                                          *)
(***************************************************************************)
EXTENDS AppManager, Integers, FiniteSets

CONSTANTS
  SleepTimeout,        \* default_sleep_timeout, seconds
  RetryTimeout,        \* retry_sleep_timeout, seconds
  InactivityTimeout,   \* default_inactivity_timeout, minutes
  LockedInactivity,    \* the timeout while locked, minutes
  Minute,              \* seconds in a minute
  MaxBatch,            \* bound: events one poll returns
  MaxOrphans,          \* bound: replaced sleep timers that still run
  Timed,               \* TRUE: the clock runs
  DraftsChange,        \* TRUE: draft files come and go
  Passcode,            \* TRUE: xochitl.conf holds a passcode
  ForkFails,           \* TRUE: fork may fail
  SleepFails           \* TRUE: suspending may fail, or end without the button

ASSUME TimeoutAssumption ==
  /\ SleepTimeout \in Nat \ {0}
  /\ RetryTimeout \in Nat \ {0}
  /\ InactivityTimeout \in Nat \ {0}
  /\ LockedInactivity \in Nat \ {0}
  /\ Minute \in Nat \ {0}
ASSUME BoundAssumption == MaxBatch \in Nat /\ MaxOrphans \in Nat
ASSUME SwitchAssumption ==
  /\ Timed \in BOOLEAN
  /\ DraftsChange \in BOOLEAN
  /\ Passcode \in BOOLEAN
  /\ ForkFails \in BOOLEAN
  /\ SleepFails \in BOOLEAN

VARIABLES
  phase,               \* where AppContext::step is
  batch,               \* events of this round not handled yet
  ui,                  \* the widget tree of this round
  drafts,              \* the draft files that can be read
  known,               \* LauncherState::apps, which is always sorted by path
  removeOnExit,        \* apps with shouldRemove set
  current, previous,   \* currentAppPath, previousAppPath
  visible, isUnlocked, isViewingScreenshot, isManagingPower,
  sleepTimer,          \* the sleep timer with its countdown
  inactivityCountdown,
  minuteDue,           \* the inactivity timer has expired
  second               \* seconds into the current minute

loopVars == <<phase, batch, ui>>
appVars  == <<am, known, removeOnExit, current, previous>>
viewVars == <<visible, isUnlocked, isViewingScreenshot, isManagingPower>>
timeVars == <<sleepTimer, inactivityCountdown, minuteDue, second>>
vars == <<loopVars, appVars, viewVars, timeVars, drafts>>

-----------------------------------------------------------------------------
(* The sleep timer.  Assigning a new TimerHandle over one that holds a     *)
(* timer drops the handle without disabling the timer, which goes on       *)
(* ticking: an orphan.  Timers due in the same second are told apart only  *)
(* by being the handle's or an orphan.  A countdown below -1 only falls    *)
(* further until it is assigned again, so -2 stands for all those values.  *)

Floor == -2

SleepTimer ==
  [countdown  : Floor .. (SleepTimeout + RetryTimeout),
   queued     : BOOLEAN,         \* the handle's timer is enabled
   due        : BOOLEAN,         \* and has expired
   orphans    : 0 .. MaxOrphans,
   orphansDue : 0 .. MaxOrphans,
   left       : Floor .. (SleepTimeout + RetryTimeout)]  \* by the clock

\* Only the countdown is reset.
StoppedCountdown(t) == [t EXCEPT !.countdown = -1]

\* stopTimer
Stopped(t) ==
  [countdown  |-> -1,
   queued     |-> FALSE,
   due        |-> FALSE,
   orphans    |-> t.orphans,
   orphansDue |-> t.orphansDue,
   left       |-> t.left]

CanStart(t) == t.queued => t.orphans < MaxOrphans

Started(t, time) ==
  [countdown  |-> time,
   queued     |-> TRUE,
   due        |-> time = 0,
   orphans    |-> t.orphans + (IF t.queued THEN 1 ELSE 0),
   orphansDue |-> t.orphansDue + (IF t.queued /\ t.due THEN 1 ELSE 0),
   left       |-> time]

AnyDue(t) == t.due \/ t.orphansDue > 0

Below(n) == IF n > Floor THEN n - 1 ELSE n

SecondPassed(t) ==
  [countdown  |-> t.countdown,
   queued     |-> t.queued,
   due        |-> t.queued,
   orphans    |-> t.orphans,
   orphansDue |-> t.orphans,
   left       |-> Below(t.left)]

\* The timer does not repeat.
TickedOnce(t, orphan, countdown, left) ==
  [countdown  |-> countdown,
   queued     |-> t.queued /\ orphan,
   due        |-> t.due /\ orphan,
   orphans    |-> t.orphans,
   orphansDue |-> IF orphan THEN t.orphansDue - 1 ELSE t.orphansDue,
   left       |-> left]

\* The timer after tick has run, for the handle's timer or for an orphan:
\* this expiry is used up and the countdown assigned.
Ticked(t, orphan, countdown, left) ==
  [countdown  |-> countdown,
   queued     |-> t.queued,
   due        |-> t.due /\ orphan,
   orphans    |-> t.orphans,
   orphansDue |-> IF orphan THEN t.orphansDue - 1 ELSE t.orphansDue,
   left       |-> left]

\* resetInactivity
Inactivity(unlocked) == IF unlocked THEN InactivityTimeout ELSE LockedInactivity

-----------------------------------------------------------------------------
(* The widget tree.  The app widgets hold a reference into the vector of   *)
(* apps, that is an index.  A tree is used in its own round only, so it is  *)
(* forgotten when the round ends.                                          *)

NoTree == [kind |-> "blank", apps |-> {}, running |-> {}]

Tree(unlocked) ==
  LET Plain(k) == [kind |-> k, apps |-> {}, running |-> {}]
  IN IF isViewingScreenshot THEN Plain("screenshot")
     ELSE IF ~visible THEN Plain("blank")
     ELSE IF sleepTimer.countdown = 0 THEN Plain("suspended")
     ELSE IF ~unlocked THEN Plain("lockscreen")
     ELSE IF isManagingPower THEN Plain("dialog")
     ELSE [kind    |-> "launcher",
           apps    |-> known,
           running |-> {a \in known : IsRunning(am, a)}]

Index(S, a) == Cardinality({b \in S : b < a})

\* What the reference of a's widget refers to now; NoApp past the end.  A vector
\* that grows moves its elements, but none grows under a launcher tree before the
\* third event of a round: one to hide the launcher, one to show it again.
Target(a) ==
  LET at == {b \in known : Index(known, b) = Index(ui.apps, a)}
  IN IF at = {} THEN NoApp ELSE CHOOSE b \in at : TRUE

-----------------------------------------------------------------------------
(* The operations the handlers share.                                      *)

Crash ==
  /\ phase' = "crashed"
  /\ batch' = 0
  /\ ui' = NoTree
  /\ UNCHANGED <<appVars, viewVars, timeVars, drafts>>

\* readApps on the vector list: an app whose draft is gone stays while it runs,
\* marked.  A mark is never taken back.
ReadApps(m, list) ==
  LET gone == {a \in list : a \notin drafts /\ IsRunning(m, a)}
  IN /\ known' = drafts \cup gone
     /\ removeOnExit' = (removeOnExit \cap list \cap drafts) \cup gone

\* show, but for the assertion of App::pause: pausing a paused app again
\* changes nothing where assertions are compiled out.
Show ==
  IF visible THEN UNCHANGED <<am, known, removeOnExit, visible>>
  ELSE /\ am' = IF current \in known THEN Pause(am, current) ELSE am
       /\ ReadApps(am, known)
       /\ visible' = TRUE

CurrentLeftRunning == am

\* The run infos once switchApp has paused the current app.
CurrentPaused ==
  IF current \in known /\ CanPause(am, current) THEN Pause(am, current) ELSE am

SwitchToFailed(a) ==
  /\ ForkFails
  /\ ~IsRunning(am, a)
  /\ am' = CurrentPaused
  /\ UNCHANGED <<current, previous>>

BroughtUnresumed(m, a) == IF ~IsRunning(m, a) THEN Launched(m, a) ELSE m

\* resume or launch app
Brought(m, a) ==
  IF IsPaused(m, a) THEN Resume(m, a)
  ELSE IF ~IsRunning(m, a) THEN Launched(m, a)
  ELSE m

\* The part of switchApp below stopTimer.
SwitchTo(a) ==
  \/ /\ am' = Brought(CurrentPaused, a)
     /\ previous' = current
     /\ current' = a
  \/ SwitchToFailed(a)

SwitchAppTimerRuns(a) ==
  /\ visible' = FALSE
  /\ SwitchTo(a)
  /\ UNCHANGED <<known, removeOnExit, sleepTimer>>

SwitchApp(a) ==
  /\ visible' = FALSE
  /\ sleepTimer' = Stopped(sleepTimer)
  /\ SwitchTo(a)
  /\ UNCHANGED <<known, removeOnExit>>

\* hide, called with the sleep timer stopped; sleepNow is the context argument.
Hide(sleepNow) ==
  IF ~visible \/ (previous \notin known /\ current \notin known)
  THEN /\ sleepTimer' = IF visible /\ sleepNow
                        THEN Started(Stopped(sleepTimer), 0)
                        ELSE Stopped(sleepTimer)
       /\ UNCHANGED <<appVars, visible>>
  ELSE SwitchApp(IF previous \in known THEN previous ELSE current)

\* The app long_press moves the focus to.
NextFocus ==
  LET running == {a \in known : IsRunning(am, a)}
      focus   == IF previous # NoApp THEN previous ELSE current
      after   == IF focus \in known THEN {a \in running : a > focus} ELSE {}
      First(S) == CHOOSE a \in S : \A b \in S : a <= b
  IN IF running = {} THEN previous
     ELSE IF after # {} THEN First(after)
     ELSE First(running)

-----------------------------------------------------------------------------
(* One round of the event loop.                                            *)

\* rebuild and poll.  Building the tree makes a LockscreenWidget whenever the
\* launcher is on screen, and without a passcode its constructor unlocks.
Wake ==
  LET unlocks == ~Passcode /\ visible /\ ~isViewingScreenshot
                 /\ sleepTimer.countdown # 0
  IN /\ phase = "idle"
     /\ isUnlocked' = (isUnlocked \/ unlocks)
     /\ inactivityCountdown' = IF unlocks THEN Inactivity(TRUE)
                               ELSE inactivityCountdown
     /\ ui' = Tree(isUnlocked \/ unlocks)
     /\ batch' \in 0 .. MaxBatch
     /\ batch' > 0 \/ PipeReadable \/ AnyDue(sleepTimer) \/ minuteDue
     /\ phase' = IF PipeReadable THEN "fds" ELSE "timers"
     /\ UNCHANGED <<appVars, drafts, visible, isViewingScreenshot,
                    isManagingPower, sleepTimer, minuteDue, second>>

\* The vector once the apps that ended are erased.
SurvivorsUnmarked(m) == {a \in known : a \notin removeOnExit}
Survivors(m) == {a \in known : a \notin removeOnExit \/ IsRunning(m, a)}

\* A path, cleared once its app has ended.
PathKept(m, a) == a
PathOf(m, a) == IF a \in known /\ ~IsRunning(m, a) THEN NoApp ELSE a

\* updateStoppedApps.  The show at its end finds no current app to pause.
UpdateStoppedApps ==
  LET m == Update(am)
  IN /\ phase = "fds"
     /\ am' = m
     /\ current' = PathOf(m, current)
     /\ previous' = PathOf(m, previous)
     /\ IF current' # current /\ ~visible
        THEN /\ ReadApps(m, Survivors(m))
             /\ visible' = TRUE
        ELSE /\ known' = Survivors(m)
             /\ removeOnExit' = removeOnExit \cap Survivors(m)
             /\ visible' = visible
     /\ phase' = "timers"
     /\ UNCHANGED <<batch, ui, drafts, isUnlocked, isViewingScreenshot,
                    isManagingPower, timeVars>>

\* sleep() came back: by the button, or otherwise, which makes tick try again.
SleepOutcome(woken, orphan) ==
  IF woken
  THEN /\ inactivityCountdown' = Inactivity(FALSE)
       /\ sleepTimer' = Stopped(Ticked(sleepTimer, orphan, 0, sleepTimer.left))
       /\ Show
  ELSE /\ inactivityCountdown' = inactivityCountdown
       /\ sleepTimer' = Ticked(sleepTimer, orphan, RetryTimeout, RetryTimeout)
       /\ UNCHANGED <<am, known, removeOnExit, visible>>

\* The handle's timer has expired, or an orphan.
Expired(orphan) == IF orphan THEN sleepTimer.orphansDue > 0 ELSE sleepTimer.due

Tick(orphan) ==
  /\ phase = "timers"
  /\ Expired(orphan)
  /\ IF sleepTimer.countdown = 0
     THEN /\ isUnlocked' = FALSE
          /\ isManagingPower' = FALSE
          /\ \E woken \in (IF SleepFails THEN BOOLEAN ELSE {TRUE}) :
               SleepOutcome(woken, orphan)
     ELSE /\ sleepTimer' = Ticked(sleepTimer, orphan, Below(sleepTimer.countdown),
                                  sleepTimer.left)
          /\ UNCHANGED <<am, known, removeOnExit, visible, isUnlocked, isManagingPower,
                         inactivityCountdown>>
  /\ UNCHANGED <<loopVars, drafts, current, previous, isViewingScreenshot, minuteDue,
                 second>>

\* The inactivity timer: after so many minutes the launcher is shown and the
\* device goes to sleep.
InactivityTick ==
  /\ phase = "timers"
  /\ minuteDue
  /\ minuteDue' = FALSE
  /\ IF inactivityCountdown = 1
     THEN /\ CanStart(sleepTimer)
          /\ inactivityCountdown' = Inactivity(isUnlocked)
          /\ sleepTimer' = Started(sleepTimer, SleepTimeout)
          /\ Show
     ELSE /\ inactivityCountdown' = inactivityCountdown - 1
          /\ UNCHANGED <<am, known, removeOnExit, visible, sleepTimer>>
  /\ UNCHANGED <<loopVars, drafts, current, previous, isUnlocked, isViewingScreenshot,
                 isManagingPower, second>>

AfterEventsLate(n) == IF n = 1 THEN "idle" ELSE "input"

\* The round ends when no event is left to hand on.
AfterEvents(n) == IF n = 0 THEN "idle" ELSE "input"

EndEvents(n) ==
  /\ phase' = AfterEvents(n)
  /\ ui' = IF phase' = "idle" THEN NoTree ELSE ui
  /\ batch' = n

\* No timer that has expired so far is left, or the others expire later.
TimersDone ==
  /\ phase = "timers"
  /\ EndEvents(batch)
  /\ UNCHANGED <<appVars, viewVars, timeVars, drafts>>

-----------------------------------------------------------------------------
(* The input events.  onAny resets the inactivity countdown first; the     *)
(* operators below are what the handler of the event does after that.      *)

LongPress ==
  IF ~isUnlocked THEN UNCHANGED <<appVars, visible, isViewingScreenshot, sleepTimer>>
  ELSE IF visible
  THEN /\ sleepTimer' = Stopped(sleepTimer)
       /\ previous' = NextFocus
       /\ UNCHANGED <<am, known, removeOnExit, current, visible, isViewingScreenshot>>
  ELSE /\ ~isViewingScreenshot
       /\ isViewingScreenshot' = TRUE
       /\ sleepTimer' = Stopped(sleepTimer)
       /\ Show
       /\ UNCHANGED <<current, previous>>

\* toggle, called while unlocked.
Toggle ==
  /\ isManagingPower' = FALSE
  /\ IF visible
     THEN Hide(sleepTimer.countdown <= 0)
     ELSE /\ CanStart(sleepTimer)
          /\ sleepTimer' = Started(sleepTimer, SleepTimeout)
          /\ Show
          /\ UNCHANGED <<current, previous>>

ShortPressLocked ==
  /\ isViewingScreenshot' = FALSE
  /\ IF isViewingScreenshot
     THEN UNCHANGED <<appVars, visible, isManagingPower, sleepTimer>>
     ELSE Toggle

ShortPress ==
  IF ~isUnlocked \/ isViewingScreenshot
  THEN /\ isViewingScreenshot' = (isViewingScreenshot /\ ~isUnlocked)
       /\ UNCHANGED <<appVars, visible, isManagingPower, sleepTimer>>
  ELSE /\ Toggle
       /\ UNCHANGED isViewingScreenshot

Event(unlocked) ==
  /\ phase = "input"
  /\ EndEvents(batch - 1)
  /\ inactivityCountdown' = Inactivity(unlocked)
  /\ isUnlocked' = unlocked
  /\ UNCHANGED <<drafts, minuteDue, second>>

PowerShort == Event(isUnlocked) /\ ShortPress

PowerLong ==
  /\ Event(isUnlocked)
  /\ LongPress
  /\ UNCHANGED isManagingPower

\* An event no handler reacts to, or a screenshot that could not be written.
OtherInput ==
  /\ Event(isUnlocked)
  /\ UNCHANGED <<appVars, visible, isViewingScreenshot, isManagingPower, sleepTimer>>

\* The passcode is complete; LockscreenState decided to unlock.
Unlock ==
  /\ ui.kind = "lockscreen"
  /\ Event(TRUE)
  /\ UNCHANGED <<appVars, visible, isViewingScreenshot, isManagingPower, sleepTimer>>

CloseScreenshot ==
  /\ ui.kind = "screenshot"
  /\ Event(isUnlocked)
  /\ isViewingScreenshot' = FALSE
  /\ UNCHANGED <<appVars, visible, isManagingPower, sleepTimer>>

\* Shutdown or Reboot opens the confirmation dialog, Cancel closes it.
PowerDialog(open) ==
  /\ ui.kind = IF open THEN "launcher" ELSE "dialog"
  /\ Event(isUnlocked)
  /\ isManagingPower' = open
  /\ UNCHANGED <<appVars, visible, isViewingScreenshot, sleepTimer>>

\* Tapping the widget of a, running or not.
TapApp(a) ==
  /\ ui.kind = "launcher"
  /\ a \in ui.apps
  /\ Target(a) # NoApp
  /\ Event(isUnlocked)
  /\ SwitchApp(Target(a))
  /\ UNCHANGED <<isViewingScreenshot, isManagingPower>>

\* The X on the widget of a running app.
TapKill(a) ==
  /\ ui.kind = "launcher"
  /\ a \in ui.running
  /\ Target(a) # NoApp
  /\ IsRunning(am, Target(a))
  /\ Event(isUnlocked)
  /\ am' = Terminate(am, Target(a))
  /\ sleepTimer' = Stopped(sleepTimer)
  /\ UNCHANGED <<known, removeOnExit, current, previous, visible, isViewingScreenshot,
                 isManagingPower>>

\* A reference past the end of the vector, or the null run info of an app
\* that has ended.
TapCrash(a) ==
  /\ phase = "input"
  /\ ui.kind = "launcher"
  /\ \/ a \in ui.apps /\ Target(a) = NoApp
     \/ a \in ui.running /\ Target(a) # NoApp /\ ~IsRunning(am, Target(a))
  /\ Crash

-----------------------------------------------------------------------------
(* The surroundings.                                                       *)

Second ==
  /\ Timed
  /\ phase = "idle"
  /\ ~AnyDue(sleepTimer) /\ ~minuteDue
  /\ sleepTimer' = SecondPassed(sleepTimer)
  /\ second' = (second + 1) % Minute
  /\ minuteDue' = (second = Minute - 1)
  /\ UNCHANGED <<loopVars, appVars, viewVars, drafts, inactivityCountdown>>

childFrame == <<loopVars, viewVars, timeVars, drafts, known, removeOnExit, current,
                previous>>

ChildStep == (\E a \in App : Setpgid(a) \/ Exit(a)) /\ UNCHANGED childFrame

SignalHandler == OnSigChild /\ UNCHANGED childFrame

\* Drafts are installed and removed one at a time.
ChangeDrafts ==
  /\ DraftsChange
  /\ \E a \in App : drafts' = IF a \in drafts THEN drafts \ {a} ELSE drafts \cup {a}
  /\ UNCHANGED <<loopVars, appVars, viewVars, timeVars>>

\* SIGTERM or SIGINT ends the loop after the round; AppManager is destroyed.
Quit ==
  /\ phase = "idle"
  /\ phase' = "off"
  /\ am' = TerminateAll(am)
  /\ UNCHANGED <<batch, ui, viewVars, timeVars, drafts, known, removeOnExit, current,
                 previous>>

NoTimer == [countdown |-> -1, queued |-> FALSE, due |-> FALSE,
            orphans |-> 0, orphansDue |-> 0, left |-> -1]

\* The members of LauncherState as declared, then init with its readApps.
Init ==
  /\ drafts \in SUBSET App
  /\ am = NoProcesses
  /\ phase = "idle" /\ batch = 0 /\ ui = NoTree
  /\ known = drafts /\ removeOnExit = {}
  /\ current = NoApp /\ previous = NoApp
  /\ visible = TRUE /\ isUnlocked = FALSE
  /\ isViewingScreenshot = FALSE /\ isManagingPower = FALSE
  /\ sleepTimer = NoTimer
  /\ inactivityCountdown = InactivityTimeout
  /\ minuteDue = FALSE /\ second = 0

\* Rocket has ended.
Ended == phase \in {"crashed", "off"}

\* systemd starts rocket again after a crash, the user after an end; what ran in
\* its control group is gone.
Restart ==
  /\ Ended
  /\ drafts' = drafts
  /\ am' = NoProcesses
  /\ phase' = "idle" /\ batch' = 0 /\ ui' = NoTree
  /\ known' = drafts /\ removeOnExit' = {}
  /\ current' = NoApp /\ previous' = NoApp
  /\ visible' = TRUE /\ isUnlocked' = FALSE
  /\ isViewingScreenshot' = FALSE /\ isManagingPower' = FALSE
  /\ sleepTimer' = NoTimer
  /\ inactivityCountdown' = InactivityTimeout
  /\ minuteDue' = FALSE /\ second' = 0

Input ==
  \/ PowerShort \/ PowerLong \/ OtherInput \/ Unlock \/ CloseScreenshot
  \/ \E open \in BOOLEAN : PowerDialog(open)
  \/ \E a \in App : TapApp(a) \/ TapKill(a) \/ TapCrash(a)

Loop ==
  \/ Wake \/ UpdateStoppedApps \/ InactivityTick \/ TimersDone \/ Input
  \/ \E orphan \in BOOLEAN : Tick(orphan)

Next == Loop \/ Second \/ ChildStep \/ SignalHandler \/ ChangeDrafts \/ Quit \/ Restart

Spec == Init /\ [][Next]_vars

-----------------------------------------------------------------------------
\* The launcher's, the apps', the processes' and the timers' state stays in its types.
TypeOK ==
  /\ AMTypeOK
  /\ phase \in {"idle", "fds", "timers", "input", "crashed", "off"}
  /\ batch \in 0 .. MaxBatch
  /\ ui \in [kind : {"blank", "suspended", "lockscreen", "launcher", "dialog", "screenshot"},
             apps : SUBSET App, running : SUBSET App]
  /\ drafts \in SUBSET App
  /\ known \in SUBSET App
  /\ removeOnExit \in SUBSET App
  /\ current \in App \cup {NoApp}
  /\ previous \in App \cup {NoApp}
  /\ visible \in BOOLEAN
  /\ isUnlocked \in BOOLEAN
  /\ isViewingScreenshot \in BOOLEAN
  /\ isManagingPower \in BOOLEAN
  /\ sleepTimer \in SleepTimer
  /\ inactivityCountdown \in Int
  /\ minuteDue \in BOOLEAN
  /\ second \in 0 .. (Minute - 1)

-----------------------------------------------------------------------------
(* Safety.                                                                 *)

\* The paths the launcher keeps name apps that are in its list and have a run
\* info: getCurrentApp and getPreviousApp never return an app that has ended,
\* which pause and hide rely on.
FocusRunning ==
  \A a \in {current, previous} \ {NoApp} : a \in known /\ IsRunning(am, a)

\* An app that is not paused is the current one, and the launcher is hidden:
\* show and switchApp leave no second app unpaused, whatever ends in between.
OnlyCurrentUnpaused ==
  \A a \in App : CanPause(am, a) => a = current /\ ~visible

\* While the launcher is hidden, there is a current app and it is not paused.
\* show relies on it for the assertion of App::pause, and without it the user
\* looks at a screen nobody draws to.
HiddenHasApp ==
  ~visible => current # NoApp /\ CanPause(am, current)

\* Every process with a run info belongs to an app in the list: none is left
\* running, or stopped for good, that no widget can reach.
NoLostProcess == \A a \in App : IsRunning(am, a) => a \in known

\* The list of apps, the paths and the paused flags agree with the processes,
\* whatever order taps, deaths, signals and changes of the drafts come in.
AppsTracked == FocusRunning /\ OnlyCurrentUnpaused /\ NoLostProcess

\* Two apps that were not told to end never execute at once: they would draw
\* over each other.
OneForeground ==
  \A a, b \in App :
    Executing(am, a) /\ Executing(am, b) /\ ~am.term[a] /\ ~am.term[b] => a = b

\* Rocket's end leaves no app stopped with its SIGTERM pending.
NoneLeftStopped == phase = "off" => \A a \in App : am.proc[a] # "stopped"

\* The device does not go to sleep under a running app: no countdown is
\* pending while the launcher is hidden.
SleepOnlyInLauncher == ~visible => sleepTimer.countdown < 0 /\ ~sleepTimer.queued

\* A locked device shows rocket, never an app, although a tick that locks runs
\* before the events of the same round are handed to the older tree.
LockedInLauncher == ~isUnlocked => visible

\* The countdown to sleep does not run faster than the clock.
CountdownFollowsClock == sleepTimer.countdown >= 0 => sleepTimer.countdown >= sleepTimer.left

-----------------------------------------------------------------------------
(* Liveness.  The loop keeps turning, an expired timer is run by the next  *)
(* check, the kernel delivers signals, time passes.                        *)

Fairness ==
  /\ WF_vars(Loop)
  /\ SF_vars(\E orphan \in BOOLEAN : Tick(orphan))
  /\ SF_vars(InactivityTick)
  /\ WF_vars(Second)
  /\ WF_vars(SignalHandler)

FairSpec == Spec /\ Fairness

\* Every child that dies gives up its run info, even if several deaths share
\* one SIGCHLD.
DeadAreForgotten ==
  \A a \in App : am.proc[a] = "zombie" ~> (am.proc[a] = "none" \/ Ended)

\* When the app in the foreground dies the launcher comes back on screen.
LauncherReturns ==
  \A a \in App : (~visible /\ current = a /\ am.proc[a] = "zombie") ~> (visible \/ Ended)

\* Deaths are noticed: no run info is left behind, and nobody is left with the
\* screen of a dead app.
DeathsNoticed == DeadAreForgotten /\ LauncherReturns

\* A device nobody touches goes to sleep again and again.
IdleSleeps ==
  <>[](batch = 0 /\ ~Ended) => []<>(sleepTimer.countdown = 0)

=============================================================================
