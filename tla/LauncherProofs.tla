--------------------------- MODULE LauncherProofs ---------------------------
(***************************************************************************)
(* What holds of Launcher for every set of apps and every timeout.         *)
(***************************************************************************)
EXTENDS Launcher, WellFoundedInduction, TLAPS

(***************************************************************************)
(* What the operations of AppManager do to a manager.                      *)
(***************************************************************************)

\* Each result is a manager again, and only the fields of the app change.
LEMMA PauseFields ==
  ASSUME NEW m \in Manager, NEW a \in App
  PROVE  /\ Pause(m, a) \in Manager
         /\ \A b \in App : IsRunning(Pause(m, a), b) <=> IsRunning(m, b)
         /\ \A b \in App : Pause(m, a).paused[b] <=> (m.paused[b] \/ b = a)
         /\ \A b \in App : b # a => Pause(m, a).proc[b] = m.proc[b]
         /\ Pause(m, a).proc[a] = IF m.proc[a] = "running" THEN "stopped" ELSE m.proc[a]
         /\ Pause(m, a).term = m.term
  BY DEF Pause, Manager, ProcState, IsRunning

LEMMA LaunchedFields ==
  ASSUME NEW m \in Manager, NEW a \in App
  PROVE  /\ Launched(m, a) \in Manager
         /\ \A b \in App : b # a => Launched(m, a).proc[b] = m.proc[b]
         /\ \A b \in App : b # a => (Launched(m, a).paused[b] <=> m.paused[b])
         /\ \A b \in App : b # a => (Launched(m, a).term[b] <=> m.term[b])
         /\ Launched(m, a).proc[a] = IF ForkRace THEN "forked" ELSE "running"
         /\ ~Launched(m, a).paused[a]
  BY ForkRaceAssumption DEF Launched, Manager, ProcState

LEMMA ResumeFields ==
  ASSUME NEW m \in Manager, NEW a \in App
  PROVE  /\ Resume(m, a) \in Manager
         /\ \A b \in App : IsRunning(Resume(m, a), b) <=> IsRunning(m, b)
         /\ \A b \in App : Resume(m, a).paused[b] <=> (m.paused[b] /\ b # a)
         /\ \A b \in App : b # a => Resume(m, a).proc[b] = m.proc[b]
         /\ Resume(m, a).proc[a] = Continued(m.proc[a])
         /\ Resume(m, a).term = m.term
  BY DEF Resume, Continued, Manager, ProcState, IsRunning

LEMMA TerminateFields ==
  ASSUME NEW m \in Manager, NEW a \in App
  PROVE  /\ Terminate(m, a) \in Manager
         /\ \A b \in App : IsRunning(Terminate(m, a), b) <=> IsRunning(m, b)
         /\ Terminate(m, a).paused = m.paused
         /\ \A b \in App : b # a => Terminate(m, a).proc[b] = m.proc[b]
         /\ \A b \in App : b # a => (Terminate(m, a).term[b] <=> m.term[b])
         /\ m.proc[a] \in {"running", "stopped"} => Terminate(m, a).term[a]
         /\ m.proc[a] = "forked" => Terminate(m, a).proc[a] = "forked"
  BY DEF Terminate, Continued, Manager, ProcState, IsRunning

LEMMA UpdateFields ==
  ASSUME NEW m \in Manager
  PROVE  /\ Update(m) \in Manager
         /\ \A b \in App : Update(m).proc[b] = IF m.proc[b] = "reaped" THEN "none" ELSE m.proc[b]
         /\ \A b \in App : Update(m).paused[b] <=> (m.paused[b] /\ m.proc[b] # "reaped")
         /\ \A b \in App : Update(m).term[b] <=> (m.term[b] /\ m.proc[b] # "reaped")
  BY DEF Update, Manager, ProcState

LEMMA TerminateAllFields ==
  ASSUME NEW m \in Manager
  PROVE  /\ TerminateAll(m) \in Manager
         /\ \A b \in App : IsRunning(TerminateAll(m), b) <=> IsRunning(m, b)
         /\ TerminateAll(m).paused = m.paused
  BY DEF TerminateAll, Continued, Manager, ProcState, IsRunning

(***************************************************************************)
(* Type correctness.                                                       *)
(***************************************************************************)

\* The smallest member of a set of apps exists, so what NextFocus chooses is
\* an app.
LEMMA SmallestApp ==
  ASSUME NEW S \in SUBSET App, S # {}
  PROVE  (CHOOSE a \in S : \A b \in S : a <= b) \in S
<1>1. S \subseteq Nat
  BY AppAssumption
<1>2. PICK a \in S : \A b \in S : ~ (<<b, a>> \in OpToRel(<, Nat))
  BY <1>1, NatLessThanWellFounded, WFMin
<1>3. \A b, c \in Nat : b < c => <<b, c>> \in OpToRel(<, Nat)
  BY DEF OpToRel
<1>4. \A b \in S : ~ (b < a)
  BY <1>1, <1>2, <1>3
<1>5. \A b \in S : a <= b
  BY <1>1, <1>4
<1> QED
  BY <1>5

LEMMA NextFocusTyped ==
  ASSUME TypeOK
  PROVE  NextFocus \in App \cup {NoApp}
         /\ (NextFocus = previous \/ (NextFocus \in known /\ IsRunning(am, NextFocus)))
<1> DEFINE running == {a \in known : IsRunning(am, a)}
           focus == IF previous # NoApp THEN previous ELSE current
           after == IF focus \in known THEN {a \in running : a > focus} ELSE {}
           First(S) == CHOOSE a \in S : \A b \in S : a <= b
<1>1. NextFocus = IF running = {} THEN previous
                  ELSE IF after # {} THEN First(after) ELSE First(running)
  BY DEF NextFocus
<1>2. running \in SUBSET App /\ after \subseteq running
  BY DEF TypeOK
<1> HIDE DEF running, after
<1>3. after # {} => First(after) \in after
  BY <1>2, SmallestApp
<1>4. running # {} => First(running) \in running
  BY <1>2, SmallestApp
<1> HIDE DEF First
<1>5. NextFocus = previous \/ NextFocus \in running
  BY <1>1, <1>2, <1>3, <1>4
<1>6. \A a \in running : a \in known /\ IsRunning(am, a)
  BY DEF running
<1>7. previous \in App \cup {NoApp}
  BY DEF TypeOK
<1> QED
  BY <1>2, <1>5, <1>6, <1>7

LEMMA TargetTyped ==
  ASSUME NEW a, TypeOK
  PROVE  Target(a) \in known \cup {NoApp}
  BY DEF Target, TypeOK

LEMMA ShowTyped ==
  ASSUME TypeOK, Show
  PROVE  /\ am' \in Manager
         /\ known' \in SUBSET App
         /\ removeOnExit' \in SUBSET App
         /\ visible' = TRUE
<1>1. CASE visible
  BY <1>1 DEF Show, TypeOK, AMTypeOK
<1>2. CASE ~visible
  <2>1. am' \in Manager
    BY <1>2, PauseFields DEF Show, TypeOK, AMTypeOK
  <2> QED
    BY <1>2, <2>1 DEF Show, ReadApps, TypeOK
<1> QED
  BY <1>1, <1>2

LEMMA CurrentPausedTyped ==
  ASSUME TypeOK
  PROVE  CurrentPaused \in Manager
  BY PauseFields DEF CurrentPaused, TypeOK, AMTypeOK

LEMMA BroughtTyped ==
  ASSUME NEW m \in Manager, NEW a \in App
  PROVE  Brought(m, a) \in Manager
  BY ResumeFields, LaunchedFields DEF Brought

LEMMA SwitchTyped ==
  ASSUME TypeOK, NEW a \in App, SwitchApp(a)
  PROVE  /\ am' \in Manager
         /\ current' \in App \cup {NoApp}
         /\ previous' \in App \cup {NoApp}
         /\ visible' = FALSE
         /\ sleepTimer' = Stopped(sleepTimer)
         /\ UNCHANGED <<known, removeOnExit>>
<1>1. CASE am' = Brought(CurrentPaused, a) /\ previous' = current /\ current' = a
  BY <1>1, CurrentPausedTyped, BroughtTyped DEF SwitchApp, TypeOK
<1>2. CASE SwitchToFailed(a)
  BY <1>2, CurrentPausedTyped DEF SwitchApp, SwitchToFailed, TypeOK
<1> QED
  BY <1>1, <1>2 DEF SwitchApp, SwitchTo

\* A timer record that can occur: no more orphans have expired than there are.
TimerOK(t) == t \in SleepTimer /\ t.orphansDue <= t.orphans

LEMMA StoppedTyped ==
  ASSUME NEW t, TimerOK(t)
  PROVE  /\ TimerOK(Stopped(t))
         /\ Stopped(t).countdown = -1
         /\ Stopped(t).queued = FALSE
         /\ Stopped(t).orphans = t.orphans
  BY TimeoutAssumption, BoundAssumption DEF TimerOK, SleepTimer, Stopped, Floor

LEMMA StartedTyped ==
  ASSUME NEW t, TimerOK(t), CanStart(t), NEW time \in {0, SleepTimeout}
  PROVE  TimerOK(Started(t, time))
  BY TimeoutAssumption, BoundAssumption DEF TimerOK, SleepTimer, Started, CanStart, Floor

LEMMA SecondPassedTyped ==
  ASSUME NEW t, TimerOK(t)
  PROVE  /\ TimerOK(SecondPassed(t))
         /\ SecondPassed(t).countdown = t.countdown
         /\ SecondPassed(t).queued = t.queued
  BY TimeoutAssumption, BoundAssumption DEF TimerOK, SleepTimer, SecondPassed, Below, Floor

LEMMA InactivityTyped ==
  \A unlocked : Inactivity(unlocked) \in Int
  BY TimeoutAssumption DEF Inactivity

LEMMA TreeTyped ==
  ASSUME TypeOK, NEW unlocked
  PROVE  Tree(unlocked) \in
           [kind : {"blank", "suspended", "lockscreen", "launcher", "dialog", "screenshot"},
            apps : SUBSET App, running : SUBSET App]
  BY DEF Tree, TypeOK

\* What the type invariant needs to be inductive.
TypeInv ==
  /\ TypeOK
  /\ TimerOK(sleepTimer)
  /\ phase = "input" => batch > 0

LEMMA TickedTyped ==
  ASSUME TypeInv, NEW orphan \in BOOLEAN, Expired(orphan),
         NEW countdown \in Floor .. (SleepTimeout + RetryTimeout),
         NEW left \in Floor .. (SleepTimeout + RetryTimeout)
  PROVE  /\ TimerOK(Ticked(sleepTimer, orphan, countdown, left))
         /\ Ticked(sleepTimer, orphan, countdown, left).countdown = countdown
         /\ Ticked(sleepTimer, orphan, countdown, left).queued = sleepTimer.queued
  BY BoundAssumption DEF TypeInv, TimerOK, SleepTimer, Ticked, Expired

\* Where the loop is once n events are left.
LEMMA EndEventsTyped ==
  ASSUME TypeInv, NEW n \in 0 .. MaxBatch, EndEvents(n)
  PROVE  /\ phase' \in {"idle", "input"}
         /\ batch' = n
         /\ phase' = "input" => n > 0
         /\ ui' \in [kind : {"blank", "suspended", "lockscreen", "launcher", "dialog",
                             "screenshot"},
                     apps : SUBSET App, running : SUBSET App]
<1>1. NoTree \in [kind : {"blank", "suspended", "lockscreen", "launcher", "dialog",
                          "screenshot"},
                  apps : SUBSET App, running : SUBSET App]
  BY DEF NoTree
<1>2. ui \in [kind : {"blank", "suspended", "lockscreen", "launcher", "dialog",
                      "screenshot"},
              apps : SUBSET App, running : SUBSET App]
  BY DEF TypeInv, TypeOK
<1>3. /\ phase' = IF n = 0 THEN "idle" ELSE "input"
      /\ batch' = n
      /\ ui' = IF phase' = "idle" THEN NoTree ELSE ui
  BY DEF EndEvents, AfterEvents
<1> HIDE DEF NoTree
<1> QED
  BY <1>1, <1>2, <1>3, BoundAssumption

LEMMA EventTyped ==
  ASSUME TypeInv, NEW unlocked \in BOOLEAN, Event(unlocked)
  PROVE  /\ phase' \in {"idle", "input"}
         /\ batch' \in 0 .. MaxBatch
         /\ phase' = "input" => batch' > 0
         /\ ui' \in [kind : {"blank", "suspended", "lockscreen", "launcher", "dialog",
                             "screenshot"},
                     apps : SUBSET App, running : SUBSET App]
         /\ isUnlocked' \in BOOLEAN
         /\ inactivityCountdown' \in Int
         /\ UNCHANGED <<drafts, minuteDue, second>>
<1>1. batch - 1 \in 0 .. MaxBatch
  BY BoundAssumption DEF TypeInv, TypeOK, Event
<1>2. EndEvents(batch - 1)
  BY DEF Event
<1> QED
  BY <1>1, <1>2, EndEventsTyped, InactivityTyped DEF Event

LEMMA HideTyped ==
  ASSUME TypeInv, NEW sleepNow, Hide(sleepNow)
  PROVE  /\ am' \in Manager
         /\ known' \in SUBSET App
         /\ removeOnExit' \in SUBSET App
         /\ current' \in App \cup {NoApp}
         /\ previous' \in App \cup {NoApp}
         /\ visible' \in BOOLEAN
         /\ TimerOK(sleepTimer')
<1>1. CASE ~visible \/ (previous \notin known /\ current \notin known)
  <2>1. CanStart(Stopped(sleepTimer))
    BY DEF CanStart, Stopped
  <2>2. TimerOK(sleepTimer')
    BY <1>1, <2>1, StoppedTyped, StartedTyped DEF Hide, TypeInv
  <2> QED
    BY <1>1, <2>2 DEF Hide, TypeInv, TypeOK, AMTypeOK, appVars
<1>2. CASE ~ (~visible \/ (previous \notin known /\ current \notin known))
  <2>1. PICK a \in known : SwitchApp(a)
    BY <1>2 DEF Hide
  <2> QED
    BY <2>1, SwitchTyped, StoppedTyped DEF TypeInv, TypeOK
<1> QED
  BY <1>1, <1>2

\* The variables the handler of an event assigns after onAny.
HandlerTyped ==
  /\ am' \in Manager
  /\ known' \in SUBSET App
  /\ removeOnExit' \in SUBSET App
  /\ current' \in App \cup {NoApp}
  /\ previous' \in App \cup {NoApp}
  /\ visible' \in BOOLEAN
  /\ isViewingScreenshot' \in BOOLEAN
  /\ isManagingPower' \in BOOLEAN
  /\ TimerOK(sleepTimer')

LEMMA EventStep ==
  ASSUME TypeInv, NEW unlocked \in BOOLEAN, Event(unlocked), HandlerTyped
  PROVE  TypeInv'
<1>1. sleepTimer' \in SleepTimer
  BY DEF HandlerTyped, TimerOK
<1>2. TypeOK'
  BY EventTyped, <1>1 DEF HandlerTyped, TypeInv, TypeOK, AMTypeOK
<1> QED
  BY <1>2, EventTyped DEF TypeInv, HandlerTyped

LEMMA ShortPressTyped ==
  ASSUME TypeInv, ShortPress
  PROVE  HandlerTyped
<1> USE DEF TypeInv, TypeOK, AMTypeOK
<1>1. CASE ~isUnlocked \/ isViewingScreenshot
  BY <1>1 DEF ShortPress, HandlerTyped, appVars
<1>2. CASE ~ (~isUnlocked \/ isViewingScreenshot) /\ visible
  <2>1. Hide(sleepTimer.countdown <= 0) /\ isManagingPower' = FALSE
        /\ UNCHANGED isViewingScreenshot
    BY <1>2 DEF ShortPress, Toggle
  <2> QED
    BY <2>1, HideTyped DEF HandlerTyped
<1>3. CASE ~ (~isUnlocked \/ isViewingScreenshot) /\ ~visible
  <2>1. /\ CanStart(sleepTimer)
        /\ sleepTimer' = Started(sleepTimer, SleepTimeout)
        /\ Show
        /\ UNCHANGED <<current, previous, isViewingScreenshot>>
        /\ isManagingPower' = FALSE
    BY <1>3 DEF ShortPress, Toggle
  <2> QED
    BY <2>1, ShowTyped, StartedTyped DEF HandlerTyped
<1> QED
  BY <1>1, <1>2, <1>3

LEMMA LongPressTyped ==
  ASSUME TypeInv, LongPress, UNCHANGED isManagingPower
  PROVE  HandlerTyped
<1> USE DEF TypeInv, TypeOK, AMTypeOK
<1>1. CASE ~isUnlocked
  BY <1>1 DEF LongPress, HandlerTyped, appVars
<1>2. CASE isUnlocked /\ visible
  BY <1>2, NextFocusTyped, StoppedTyped DEF LongPress, HandlerTyped
<1>3. CASE isUnlocked /\ ~visible
  BY <1>3, ShowTyped, StoppedTyped DEF LongPress, HandlerTyped
<1> QED
  BY <1>1, <1>2, <1>3

LEMMA InputTyped ==
  ASSUME TypeInv, Input
  PROVE  TypeInv'
<1> USE DEF TypeInv, TypeOK, AMTypeOK
<1>1. CASE PowerShort
  BY <1>1, ShortPressTyped, EventStep DEF PowerShort
<1>2. CASE PowerLong
  BY <1>2, LongPressTyped, EventStep DEF PowerLong
<1>3. CASE OtherInput
  <2>1. HandlerTyped
    BY <1>3 DEF OtherInput, HandlerTyped, appVars
  <2> QED
    BY <1>3, <2>1, EventStep DEF OtherInput
<1>4. CASE Unlock
  <2>1. HandlerTyped
    BY <1>4 DEF Unlock, HandlerTyped, appVars
  <2> QED
    BY <1>4, <2>1, EventStep DEF Unlock
<1>5. CASE CloseScreenshot
  <2>1. HandlerTyped
    BY <1>5 DEF CloseScreenshot, HandlerTyped, appVars
  <2> QED
    BY <1>5, <2>1, EventStep DEF CloseScreenshot
<1>6. ASSUME NEW open \in BOOLEAN, PowerDialog(open)
      PROVE  TypeInv'
  <2>1. HandlerTyped
    BY <1>6 DEF PowerDialog, HandlerTyped, appVars
  <2> QED
    BY <1>6, <2>1, EventStep DEF PowerDialog
<1>7. ASSUME NEW a \in App, TapApp(a)
      PROVE  TypeInv'
  <2>1. Target(a) \in App
    BY <1>7, TargetTyped DEF TapApp
  <2>2. HandlerTyped
    BY <1>7, <2>1, SwitchTyped, StoppedTyped DEF TapApp, HandlerTyped
  <2> QED
    BY <1>7, <2>2, EventStep DEF TapApp
<1>8. ASSUME NEW a \in App, TapKill(a)
      PROVE  TypeInv'
  <2>1. Target(a) \in App
    BY <1>8, TargetTyped DEF TapKill
  <2>2. HandlerTyped
    BY <1>8, <2>1, TerminateFields, StoppedTyped DEF TapKill, HandlerTyped
  <2> QED
    BY <1>8, <2>2, EventStep DEF TapKill
<1>9. ASSUME NEW a \in App, TapCrash(a)
      PROVE  TypeInv'
  <2>1. NoTree \in [kind : {"blank", "suspended", "lockscreen", "launcher", "dialog",
                            "screenshot"},
                    apps : SUBSET App, running : SUBSET App]
    BY DEF NoTree
  <2> HIDE DEF NoTree
  <2> QED
    BY <1>9, <2>1, BoundAssumption
       DEF TapCrash, Crash, appVars, viewVars, timeVars
<1> QED
  BY <1>1, <1>2, <1>3, <1>4, <1>5, <1>6, <1>7, <1>8, <1>9 DEF Input

LEMMA NoTreeTyped ==
  NoTree \in [kind : {"blank", "suspended", "lockscreen", "launcher", "dialog",
                      "screenshot"},
              apps : SUBSET App, running : SUBSET App]
  BY DEF NoTree

LEMMA NoProcessesTyped ==
  NoProcesses \in Manager
  BY DEF NoProcesses, Manager, ProcState

LEMMA NoTimerTyped ==
  TimerOK(NoTimer) /\ NoTimer.countdown = -1 /\ NoTimer.queued = FALSE
  BY TimeoutAssumption, BoundAssumption DEF NoTimer, TimerOK, SleepTimer, Floor

LEMMA TickTyped ==
  ASSUME TypeInv, NEW orphan \in BOOLEAN, Tick(orphan)
  PROVE  /\ am' \in Manager
         /\ known' \in SUBSET App
         /\ removeOnExit' \in SUBSET App
         /\ visible' \in BOOLEAN
         /\ isUnlocked' \in BOOLEAN
         /\ isManagingPower' \in BOOLEAN
         /\ inactivityCountdown' \in Int
         /\ TimerOK(sleepTimer')
<1> USE DEF TypeInv, TypeOK, AMTypeOK
<1>1. /\ sleepTimer.countdown \in Floor .. (SleepTimeout + RetryTimeout)
      /\ sleepTimer.left \in Floor .. (SleepTimeout + RetryTimeout)
  BY DEF SleepTimer
<1>2. /\ Below(sleepTimer.countdown) \in Floor .. (SleepTimeout + RetryTimeout)
      /\ RetryTimeout \in Floor .. (SleepTimeout + RetryTimeout)
      /\ 0 \in Floor .. (SleepTimeout + RetryTimeout)
  BY <1>1, TimeoutAssumption DEF Below, Floor
<1>3. CASE sleepTimer.countdown = 0
  <2>1. PICK woken \in BOOLEAN : SleepOutcome(woken, orphan)
    BY <1>3 DEF Tick
  <2>2. isUnlocked' = FALSE /\ isManagingPower' = FALSE
    BY <1>3 DEF Tick
  <2>3. Expired(orphan)
    BY DEF Tick
  <2>4. CASE woken
    <3>1. /\ inactivityCountdown' = Inactivity(FALSE)
          /\ sleepTimer' = Stopped(Ticked(sleepTimer, orphan, 0, sleepTimer.left))
          /\ Show
      BY <2>1, <2>4 DEF SleepOutcome
    <3>2. TimerOK(Ticked(sleepTimer, orphan, 0, sleepTimer.left))
      BY <1>1, <1>2, <2>3, TickedTyped
    <3> QED
      BY <2>2, <3>1, <3>2, ShowTyped, InactivityTyped, StoppedTyped
  <2>5. CASE ~woken
    <3>1. /\ sleepTimer' = Ticked(sleepTimer, orphan, RetryTimeout, RetryTimeout)
          /\ UNCHANGED <<am, known, removeOnExit, visible, inactivityCountdown>>
      BY <2>1, <2>5 DEF SleepOutcome
    <3>2. TimerOK(sleepTimer')
      BY <1>2, <2>3, <3>1, TickedTyped
    <3> QED
      BY <2>2, <3>1, <3>2
  <2> QED
    BY <2>4, <2>5
<1>4. CASE sleepTimer.countdown # 0
  BY <1>1, <1>2, <1>4, TickedTyped DEF Tick
<1> QED
  BY <1>3, <1>4

LEMMA LoopTyped ==
  ASSUME TypeInv, Loop
  PROVE  TypeInv'
<1> USE DEF TypeInv, TypeOK, AMTypeOK, vars, loopVars, appVars, viewVars, timeVars
<1>1. CASE Wake
  <2>1. Tree(isUnlocked \/ (~Passcode /\ visible /\ ~isViewingScreenshot
                            /\ sleepTimer.countdown # 0))
          \in [kind : {"blank", "suspended", "lockscreen", "launcher", "dialog",
                       "screenshot"},
               apps : SUBSET App, running : SUBSET App]
    BY TreeTyped
  <2> QED
    BY <1>1, <2>1, InactivityTyped DEF Wake
<1>2. CASE UpdateStoppedApps
  <2>1. /\ am' \in Manager
        /\ current' \in App \cup {NoApp}
        /\ previous' \in App \cup {NoApp}
    BY <1>2, UpdateFields DEF UpdateStoppedApps, PathOf
  <2>2. /\ known' \in SUBSET App
        /\ removeOnExit' \in SUBSET App
        /\ visible' \in BOOLEAN
    BY <1>2 DEF UpdateStoppedApps, ReadApps, Survivors
  <2> QED
    BY <1>2, <2>1, <2>2 DEF UpdateStoppedApps
<1>3. CASE InactivityTick
  <2>1. CASE inactivityCountdown = 1
    BY <1>3, <2>1, ShowTyped, StartedTyped, InactivityTyped DEF InactivityTick, TimerOK
  <2>2. CASE inactivityCountdown # 1
    <3>1. /\ inactivityCountdown' = inactivityCountdown - 1
          /\ minuteDue' = FALSE
          /\ UNCHANGED <<am, known, removeOnExit, visible, sleepTimer, phase, batch, ui,
                         drafts, current, previous, isUnlocked, isViewingScreenshot,
                         isManagingPower, second>>
      BY <1>3, <2>2 DEF InactivityTick
    <3>2. inactivityCountdown' \in Int
      BY <3>1
    <3>3. minuteDue' \in BOOLEAN
      BY <3>1
    <3> QED
      BY <3>1, <3>2, <3>3 DEF TimerOK
  <2> QED
    BY <2>1, <2>2
<1>4. CASE TimersDone
  <2>1. EndEvents(batch)
    BY <1>4 DEF TimersDone
  <2> QED
    BY <1>4, <2>1, EndEventsTyped DEF TimersDone
<1>5. CASE Input
  BY <1>5, InputTyped
<1>6. ASSUME NEW orphan \in BOOLEAN, Tick(orphan)
      PROVE  TypeInv'
  <2>1. UNCHANGED <<phase, batch, ui, drafts, current, previous, isViewingScreenshot,
                    minuteDue, second>>
    BY <1>6 DEF Tick
  <2> QED
    BY <1>6, <2>1, TickTyped DEF TimerOK
<1> QED
  BY <1>1, <1>2, <1>3, <1>4, <1>5, <1>6 DEF Loop

LEMMA TypeInvStep ==
  ASSUME TypeInv, [Next]_vars
  PROVE  TypeInv'
<1> USE DEF TypeInv, TypeOK, AMTypeOK, vars, loopVars, appVars, viewVars, timeVars
<1>1. CASE Loop
  BY <1>1, LoopTyped
<1>2. CASE Second
  <2>1. (second + 1) % Minute \in 0 .. (Minute - 1)
    BY TimeoutAssumption
  <2> QED
    BY <1>2, <2>1, SecondPassedTyped DEF Second, TimerOK
<1>3. CASE ChildStep
  <2>1. PICK a \in App, state \in ProcState, sigchld \in BOOLEAN :
          am' = Moved(a, state, sigchld)
    BY <1>3 DEF ChildStep, Setpgid, Exit, Manager, ProcState
  <2>2. am' \in Manager
    BY <2>1 DEF Moved, Manager
  <2> QED
    BY <1>3, <2>2 DEF ChildStep, childFrame
<1>4. CASE SignalHandler
  <2>1. am' \in Manager
    BY <1>4 DEF SignalHandler, OnSigChild, Manager, ProcState
  <2> QED
    BY <1>4, <2>1 DEF SignalHandler, childFrame
<1>5. CASE ChangeDrafts
  BY <1>5 DEF ChangeDrafts
<1>6. CASE Quit
  <2>1. am' \in Manager
    BY <1>6, TerminateAllFields DEF Quit
  <2> QED
    BY <1>6, <2>1 DEF Quit
<1>7. CASE Restart
  <2>1. /\ am' \in Manager
        /\ ui' \in [kind : {"blank", "suspended", "lockscreen", "launcher", "dialog",
                            "screenshot"},
                    apps : SUBSET App, running : SUBSET App]
        /\ TimerOK(sleepTimer')
    BY <1>7, NoTreeTyped, NoProcessesTyped, NoTimerTyped DEF Restart
  <2>2. /\ inactivityCountdown' \in Int
        /\ second' \in 0 .. (Minute - 1)
        /\ batch' \in 0 .. MaxBatch
    BY <1>7, TimeoutAssumption, BoundAssumption DEF Restart
  <2> QED
    BY <1>7, <2>1, <2>2 DEF Restart, TimerOK
<1>8. CASE UNCHANGED vars
  BY <1>8
<1> QED
  BY <1>1, <1>2, <1>3, <1>4, <1>5, <1>6, <1>7, <1>8 DEF Next

LEMMA TypeInvInit ==
  ASSUME Init
  PROVE  TypeInv
<1>1. /\ am \in Manager
      /\ ui \in [kind : {"blank", "suspended", "lockscreen", "launcher", "dialog",
                         "screenshot"},
                 apps : SUBSET App, running : SUBSET App]
      /\ TimerOK(sleepTimer)
  BY NoTreeTyped, NoProcessesTyped, NoTimerTyped DEF Init
<1>2. /\ inactivityCountdown \in Int
      /\ second \in 0 .. (Minute - 1)
      /\ batch \in 0 .. MaxBatch
  BY TimeoutAssumption, BoundAssumption DEF Init
<1> QED
  BY <1>1, <1>2 DEF Init, TypeInv, TypeOK, AMTypeOK, TimerOK

\* Every variable keeps the type LauncherState and AppManager give it, whatever
\* the order of callbacks, signals and timers; the orphaned timers that have
\* expired are among the orphaned timers.
THEOREM TypeCorrect == Spec => []TypeOK
<1>1. Init => TypeInv
  BY TypeInvInit
<1>2. TypeInv /\ [Next]_vars => TypeInv'
  BY TypeInvStep
<1>3. TypeInv => TypeOK
  BY DEF TypeInv
<1> QED
  BY <1>1, <1>2, <1>3, PTL DEF Spec

(***************************************************************************)
(* The apps and the focus.  The three invariants need one another: the app *)
(* show pauses is the only unpaused one only if the path it is looked up   *)
(* by is current, and the path is current only while its app has run info. *)
(***************************************************************************)

AppInv == FocusRunning /\ NoLostProcess /\ OnlyCurrentUnpaused

\* With the current app paused no app is left that can be paused.
LEMMA PausedAll ==
  ASSUME TypeOK, AppInv
  PROVE  /\ CurrentPaused \in Manager
         /\ \A b \in App : IsRunning(CurrentPaused, b) <=> IsRunning(am, b)
         /\ \A b \in App : ~CanPause(CurrentPaused, b)
<1>1. am \in Manager /\ known \subseteq App
  BY DEF TypeOK, AMTypeOK
<1>2. \A b \in App : CanPause(am, b) => b = current /\ current \in known
  BY DEF AppInv, OnlyCurrentUnpaused, NoLostProcess, CanPause
<1>3. CASE current \in known /\ CanPause(am, current)
  <2>1. CurrentPaused = Pause(am, current) /\ current \in App
    BY <1>1, <1>3 DEF CurrentPaused
  <2> QED
    BY <1>1, <1>2, <2>1, PauseFields DEF CanPause, IsPaused
<1>4. CASE ~ (current \in known /\ CanPause(am, current))
  BY <1>1, <1>2, <1>4 DEF CurrentPaused
<1> QED
  BY <1>3, <1>4

LEMMA BroughtFields ==
  ASSUME NEW m \in Manager, NEW a \in App
  PROVE  /\ \A b \in App : IsRunning(Brought(m, a), b) <=> (IsRunning(m, b) \/ b = a)
         /\ \A b \in App \ {a} : CanPause(Brought(m, a), b) <=> CanPause(m, b)
         /\ CanPause(Brought(m, a), a)
<1>1. CASE IsPaused(m, a)
  <2>1. Brought(m, a) = Resume(m, a)
    BY <1>1 DEF Brought
  <2>2. \A b \in App : IsRunning(Resume(m, a), b) <=> IsRunning(m, b)
    BY ResumeFields
  <2>3. \A b \in App : Resume(m, a).paused[b] <=> (m.paused[b] /\ b # a)
    BY ResumeFields
  <2>4. IsRunning(m, a)
    BY <1>1 DEF IsPaused
  <2>5. \A b \in App \ {a} : CanPause(Resume(m, a), b) <=> CanPause(m, b)
    BY <2>2, <2>3 DEF IsPaused, CanPause
  <2>6. CanPause(Resume(m, a), a)
    BY <2>2, <2>3, <2>4 DEF IsPaused, CanPause
  <2> QED
    BY <2>1, <2>2, <2>4, <2>5, <2>6
<1>2. CASE ~IsRunning(m, a)
  <2>1. Brought(m, a) = Launched(m, a)
    BY <1>2 DEF Brought, IsPaused
  <2>2. \A b \in App : IsRunning(Launched(m, a), b) <=> (IsRunning(m, b) \/ b = a)
    BY LaunchedFields DEF IsRunning
  <2>3. \A b \in App \ {a} : Launched(m, a).paused[b] <=> m.paused[b]
    BY LaunchedFields
  <2>4. ~Launched(m, a).paused[a]
    BY LaunchedFields
  <2>5. \A b \in App \ {a} : CanPause(Launched(m, a), b) <=> CanPause(m, b)
    BY <2>2, <2>3 DEF IsPaused, CanPause
  <2>6. CanPause(Launched(m, a), a)
    BY <2>2, <2>4 DEF IsPaused, CanPause
  <2> QED
    BY <2>1, <2>2, <2>5, <2>6
<1>3. CASE IsRunning(m, a) /\ ~IsPaused(m, a)
  BY <1>3 DEF Brought, CanPause
<1> QED
  BY <1>1, <1>2, <1>3

LEMMA ShowApps ==
  ASSUME TypeOK, AppInv, Show, UNCHANGED <<current, previous>>
  PROVE  AppInv'
<1>1. CASE visible
  BY <1>1 DEF Show, AppInv, FocusRunning, NoLostProcess, OnlyCurrentUnpaused
<1>2. CASE ~visible
  <2>1. am \in Manager /\ known \subseteq App
    BY DEF TypeOK, AMTypeOK
  <2>2. am' = IF current \in known THEN Pause(am, current) ELSE am
    BY <1>2 DEF Show
  <2>3. \A b \in App : IsRunning(am', b) <=> IsRunning(am, b)
    BY <2>1, <2>2, PauseFields
  <2>4. \A b \in App : ~CanPause(am', b)
    <3>1. \A b \in App : CanPause(am, b) => b = current /\ current \in known
      BY DEF AppInv, OnlyCurrentUnpaused, NoLostProcess, CanPause
    <3>2. CASE current \in known
      BY <2>1, <2>2, <3>1, <3>2, PauseFields DEF CanPause, IsPaused
    <3>3. CASE current \notin known
      BY <2>2, <3>1, <3>3
    <3> QED
      BY <3>2, <3>3
  <2>5. \A b \in known : IsRunning(am, b) => b \in known'
    BY <1>2 DEF Show, ReadApps
  <2>6. NoLostProcess'
    BY <2>3, <2>5 DEF AppInv, NoLostProcess
  <2>7. FocusRunning'
    BY <2>1, <2>3, <2>5 DEF AppInv, FocusRunning
  <2>8. OnlyCurrentUnpaused'
    BY <2>4 DEF OnlyCurrentUnpaused
  <2> QED
    BY <2>6, <2>7, <2>8 DEF AppInv
<1> QED
  BY <1>1, <1>2

LEMMA SwitchApps ==
  ASSUME TypeOK, AppInv, NEW a \in known, SwitchApp(a)
  PROVE  AppInv'
<1>1. a \in App /\ a # NoApp
  BY AppAssumption DEF TypeOK, NoApp
<1>2. visible' = FALSE /\ known' = known
  BY DEF SwitchApp
<1>3. CASE am' = Brought(CurrentPaused, a) /\ previous' = current /\ current' = a
  <2>1. \A b \in App : IsRunning(am', b) <=> (IsRunning(am, b) \/ b = a)
    BY <1>1, <1>3, PausedAll, BroughtFields
  <2>2. \A b \in App \ {a} : ~CanPause(am', b)
    BY <1>1, <1>3, PausedAll, BroughtFields
  <2>3. known \subseteq App
    BY DEF TypeOK
  <2>4. FocusRunning'
    BY <1>2, <1>3, <2>1, <2>3 DEF AppInv, FocusRunning
  <2>5. NoLostProcess'
    BY <1>2, <2>1 DEF AppInv, NoLostProcess
  <2>6. OnlyCurrentUnpaused'
    BY <1>2, <1>3, <2>2 DEF OnlyCurrentUnpaused
  <2> QED
    BY <2>4, <2>5, <2>6 DEF AppInv
<1>4. CASE SwitchToFailed(a)
  <2>1. am' = CurrentPaused /\ UNCHANGED <<current, previous>>
    BY <1>4 DEF SwitchToFailed
  <2>2. known \subseteq App
    BY DEF TypeOK
  <2>3. FocusRunning'
    BY <1>2, <2>1, <2>2, PausedAll DEF AppInv, FocusRunning
  <2>4. NoLostProcess'
    BY <1>2, <2>1, PausedAll DEF AppInv, NoLostProcess
  <2>5. OnlyCurrentUnpaused'
    BY <2>1, PausedAll DEF OnlyCurrentUnpaused
  <2> QED
    BY <2>3, <2>4, <2>5 DEF AppInv
<1> QED
  BY <1>3, <1>4 DEF SwitchApp, SwitchTo

\* A step that starts no app and pauses or resumes none.
LEMMA SameApps ==
  ASSUME TypeOK, AppInv,
         \A b \in App : IsRunning(am', b) <=> IsRunning(am, b),
         \A b \in App : CanPause(am', b) => CanPause(am, b),
         UNCHANGED <<known, current, visible>>,
         previous' = previous \/ (previous' \in known /\ IsRunning(am, previous'))
  PROVE  AppInv'
<1>1. known \subseteq App
  BY DEF TypeOK
<1>2. FocusRunning'
  BY <1>1 DEF AppInv, FocusRunning
<1>3. NoLostProcess'
  BY DEF AppInv, NoLostProcess
<1>4. OnlyCurrentUnpaused'
  BY DEF AppInv, OnlyCurrentUnpaused
<1> QED
  BY <1>2, <1>3, <1>4 DEF AppInv

LEMMA AppsUnchanged ==
  ASSUME TypeOK, AppInv, UNCHANGED <<am, known, current, previous, visible>>
  PROVE  AppInv'
  BY SameApps

LEMMA HideApps ==
  ASSUME TypeOK, AppInv, NEW sleepNow, Hide(sleepNow)
  PROVE  AppInv'
<1>1. CASE ~visible \/ (previous \notin known /\ current \notin known)
  BY <1>1, AppsUnchanged DEF Hide, appVars
<1>2. CASE ~ (~visible \/ (previous \notin known /\ current \notin known))
  <2>1. PICK a \in known : SwitchApp(a)
    BY <1>2 DEF Hide
  <2> QED
    BY <2>1, SwitchApps
<1> QED
  BY <1>1, <1>2

LEMMA UpdateApps ==
  ASSUME TypeOK, AppInv, UpdateStoppedApps
  PROVE  AppInv'
<1> DEFINE m == Update(am)
<1>1. am \in Manager /\ known \subseteq App
  BY DEF TypeOK, AMTypeOK
<1>2. \A b \in App : IsRunning(m, b) => IsRunning(am, b)
  BY <1>1, UpdateFields DEF IsRunning
<1>3. \A b \in App : CanPause(m, b) => CanPause(am, b)
  <2>1. \A b \in App : IsRunning(m, b) => (m.paused[b] <=> am.paused[b])
    BY <1>1, UpdateFields DEF IsRunning
  <2> QED
    BY <1>2, <2>1 DEF CanPause, IsPaused
<1> HIDE DEF m
<1>4. /\ am' = m
      /\ current' = PathOf(m, current)
      /\ previous' = PathOf(m, previous)
  BY DEF UpdateStoppedApps, m
<1>5. \A b \in App : IsRunning(m, b) => b \in known'
  <2>1. \A b \in App : IsRunning(m, b) => b \in Survivors(m)
    BY <1>2 DEF AppInv, NoLostProcess, Survivors
  <2>2. \A b \in Survivors(m) : IsRunning(m, b) => b \in known'
    BY DEF UpdateStoppedApps, ReadApps, m
  <2> QED
    BY <2>1, <2>2
<1>6. \A a \in {current', previous'} \ {NoApp} : a \in App /\ IsRunning(m, a)
  BY <1>1, <1>4 DEF AppInv, FocusRunning, PathOf
<1>7. ASSUME NEW a \in App, CanPause(m, a)
      PROVE  a = current' /\ ~visible'
  <2>1. a = current /\ ~visible
    BY <1>3, <1>7 DEF AppInv, OnlyCurrentUnpaused
  <2>2. IsRunning(m, a)
    BY <1>7 DEF CanPause
  <2>3. current' = current
    BY <1>4, <2>1, <2>2 DEF PathOf
  <2>4. visible' = visible
    BY <2>3 DEF UpdateStoppedApps
  <2> QED
    BY <2>1, <2>3, <2>4
<1>8. FocusRunning'
  BY <1>4, <1>5, <1>6 DEF FocusRunning
<1>9. NoLostProcess'
  BY <1>4, <1>5 DEF NoLostProcess
<1>10. OnlyCurrentUnpaused'
  BY <1>4, <1>7 DEF OnlyCurrentUnpaused
<1> QED
  BY <1>8, <1>9, <1>10 DEF AppInv

LEMMA InputApps ==
  ASSUME TypeInv, AppInv, Input
  PROVE  AppInv'
<1>0. TypeOK
  BY DEF TypeInv
<1>1. CASE PowerShort
  <2>1. CASE ~isUnlocked \/ isViewingScreenshot
    BY <1>0, <1>1, <2>1, AppsUnchanged DEF PowerShort, ShortPress, appVars
  <2>2. CASE ~ (~isUnlocked \/ isViewingScreenshot) /\ visible
    BY <1>0, <1>1, <2>2, HideApps DEF PowerShort, ShortPress, Toggle
  <2>3. CASE ~ (~isUnlocked \/ isViewingScreenshot) /\ ~visible
    BY <1>0, <1>1, <2>3, ShowApps DEF PowerShort, ShortPress, Toggle
  <2> QED
    BY <2>1, <2>2, <2>3
<1>2. CASE PowerLong
  <2>1. CASE ~isUnlocked
    BY <1>0, <1>2, <2>1, AppsUnchanged DEF PowerLong, LongPress, appVars
  <2>2. CASE isUnlocked /\ visible
    BY <1>0, <1>2, <2>2, NextFocusTyped, SameApps DEF PowerLong, LongPress
  <2>3. CASE isUnlocked /\ ~visible
    BY <1>0, <1>2, <2>3, ShowApps DEF PowerLong, LongPress
  <2> QED
    BY <2>1, <2>2, <2>3
<1>3. CASE OtherInput
  BY <1>0, <1>3, AppsUnchanged DEF OtherInput, appVars
<1>4. CASE Unlock
  BY <1>0, <1>4, AppsUnchanged DEF Unlock, appVars
<1>5. CASE CloseScreenshot
  BY <1>0, <1>5, AppsUnchanged DEF CloseScreenshot, appVars
<1>6. ASSUME NEW open \in BOOLEAN, PowerDialog(open)
      PROVE  AppInv'
  BY <1>0, <1>6, AppsUnchanged DEF PowerDialog, appVars
<1>7. ASSUME NEW a \in App, TapApp(a)
      PROVE  AppInv'
  <2>1. Target(a) \in known /\ SwitchApp(Target(a))
    BY <1>0, <1>7, TargetTyped DEF TapApp
  <2> QED
    BY <1>0, <2>1, SwitchApps
<1>8. ASSUME NEW a \in App, TapKill(a)
      PROVE  AppInv'
  <2>1. Target(a) \in App
    BY <1>0, <1>8, TargetTyped DEF TapKill, TypeOK
  <2>2. am \in Manager /\ am' = Terminate(am, Target(a))
    BY <1>0, <1>8 DEF TapKill, TypeOK, AMTypeOK
  <2>3. \A b \in App : IsRunning(am', b) <=> IsRunning(am, b)
    BY <2>1, <2>2, TerminateFields
  <2>4. \A b \in App : CanPause(am', b) => CanPause(am, b)
    BY <2>1, <2>2, <2>3, TerminateFields DEF CanPause, IsPaused
  <2> QED
    BY <1>0, <1>8, <2>3, <2>4, SameApps DEF TapKill
<1>9. ASSUME NEW a \in App, TapCrash(a)
      PROVE  AppInv'
  BY <1>0, <1>9, AppsUnchanged DEF TapCrash, Crash, appVars, viewVars
<1> QED
  BY <1>1, <1>2, <1>3, <1>4, <1>5, <1>6, <1>7, <1>8, <1>9 DEF Input

LEMMA NoApps ==
  ASSUME NEW a
  PROVE  a \in App => ~IsRunning(NoProcesses, a)
  BY DEF IsRunning, NoProcesses

LEMMA AppInvStep ==
  ASSUME TypeInv, AppInv, [Next]_vars
  PROVE  AppInv'
<1>0. TypeOK /\ am \in Manager
  BY DEF TypeInv, TypeOK, AMTypeOK
<1>1. CASE Wake
  BY <1>0, <1>1, AppsUnchanged DEF Wake, appVars
<1>2. CASE UpdateStoppedApps
  BY <1>0, <1>2, UpdateApps
<1>3. CASE InactivityTick
  BY <1>0, <1>3, ShowApps, AppsUnchanged DEF InactivityTick
<1>4. CASE TimersDone
  BY <1>0, <1>4, AppsUnchanged DEF TimersDone, appVars, viewVars
<1>5. CASE Input
  BY <1>5, InputApps
<1>6. ASSUME NEW orphan \in BOOLEAN, Tick(orphan)
      PROVE  AppInv'
  <2>1. UNCHANGED <<current, previous>>
    BY <1>6 DEF Tick
  <2>2. Show \/ UNCHANGED <<am, known, removeOnExit, visible>>
    BY <1>6 DEF Tick, SleepOutcome
  <2> QED
    BY <1>0, <2>1, <2>2, ShowApps, AppsUnchanged
<1>7. CASE Second
  BY <1>0, <1>7, AppsUnchanged DEF Second, appVars, viewVars
<1>8. CASE ChildStep
  <2>1. PICK a \in App, state \in ProcState \ {"none"}, sigchld \in BOOLEAN :
          am.proc[a] # "none" /\ am' = Moved(a, state, sigchld)
    BY <1>0, <1>8 DEF ChildStep, Setpgid, Exit, Manager, ProcState, Alive
  <2>2. \A b \in App : IsRunning(am', b) <=> IsRunning(am, b)
    BY <1>0, <2>1 DEF Moved, Manager, IsRunning
  <2>3. am'.paused = am.paused
    BY <2>1 DEF Moved
  <2> QED
    BY <1>0, <1>8, <2>2, <2>3, SameApps
       DEF ChildStep, childFrame, viewVars, CanPause, IsPaused
<1>9. CASE SignalHandler
  <2>1. \A b \in App : IsRunning(am', b) <=> IsRunning(am, b)
    BY <1>0, <1>9 DEF SignalHandler, OnSigChild, Manager, IsRunning
  <2>2. am'.paused = am.paused
    BY <1>9 DEF SignalHandler, OnSigChild
  <2> QED
    BY <1>0, <1>9, <2>1, <2>2, SameApps
       DEF SignalHandler, childFrame, viewVars, CanPause, IsPaused
<1>10. CASE ChangeDrafts
  BY <1>0, <1>10, AppsUnchanged DEF ChangeDrafts, appVars, viewVars
<1>11. CASE Quit
  <2>1. \A b \in App : IsRunning(am', b) <=> IsRunning(am, b)
    BY <1>0, <1>11, TerminateAllFields DEF Quit
  <2>2. am'.paused = am.paused
    BY <1>0, <1>11, TerminateAllFields DEF Quit
  <2> QED
    BY <1>0, <1>11, <2>1, <2>2, SameApps DEF Quit, viewVars, CanPause, IsPaused
<1>12. CASE Restart
  BY <1>12, NoApps
     DEF Restart, AppInv, FocusRunning, NoLostProcess, OnlyCurrentUnpaused, CanPause
<1>13. CASE UNCHANGED vars
  BY <1>0, <1>13, AppsUnchanged DEF vars, appVars, viewVars
<1> QED
  BY <1>1, <1>2, <1>3, <1>4, <1>5, <1>6, <1>7, <1>8, <1>9, <1>10, <1>11, <1>12, <1>13
     DEF Next, Loop

LEMMA AppInvInit ==
  ASSUME Init
  PROVE  AppInv
  BY NoApps DEF Init, AppInv, FocusRunning, NoLostProcess, OnlyCurrentUnpaused, CanPause

LEMMA AppInvariant == Spec => [](TypeInv /\ AppInv)
<1>1. Init => TypeInv /\ AppInv
  BY TypeInvInit, AppInvInit
<1>2. TypeInv /\ AppInv /\ [Next]_vars => (TypeInv /\ AppInv)'
  BY TypeInvStep, AppInvStep
<1> QED
  BY <1>1, <1>2, PTL DEF Spec

\* getCurrentApp and getPreviousApp never find an app without a run info, for
\* any number of apps, whatever ends or is uninstalled in between.
THEOREM FocusIsRunning == Spec => []FocusRunning
<1>1. TypeInv /\ AppInv => FocusRunning
  BY DEF AppInv
<1> QED
  BY <1>1, AppInvariant, PTL

\* readApps and updateStoppedApps never drop an app that still has a process.
THEOREM ProcessesAreListed == Spec => []NoLostProcess
<1>1. TypeInv /\ AppInv => NoLostProcess
  BY DEF AppInv
<1> QED
  BY <1>1, AppInvariant, PTL

\* However show, switchApp and the deaths of apps interleave, at most the
\* current app is unpaused, and only while the launcher is hidden.
THEOREM OneUnpaused == Spec => []OnlyCurrentUnpaused
<1>1. TypeInv /\ AppInv => OnlyCurrentUnpaused
  BY DEF AppInv
<1> QED
  BY <1>1, AppInvariant, PTL

\* The list of apps, the paths and the paused flags agree with the processes
\* in every order of taps, deaths, signals and changes of the drafts.
THEOREM AppsAreTracked == Spec => []AppsTracked
BY FocusIsRunning, ProcessesAreListed, OneUnpaused, PTL DEF AppsTracked

(***************************************************************************)
(* What needs a well-behaved system: no failing fork, no late setpgid.     *)
(***************************************************************************)

\* After switchApp has brought an app forward it is the current one, unpaused.
LEMMA SwitchHidden ==
  ASSUME ForkFails = FALSE, TypeOK, AppInv, NEW a \in known, SwitchApp(a)
  PROVE  current' # NoApp /\ CanPause(am', current')
<1>1. a \in App /\ a # NoApp
  BY AppAssumption DEF TypeOK, NoApp
<1>2. am' = Brought(CurrentPaused, a) /\ current' = a
  BY DEF SwitchApp, SwitchTo, SwitchToFailed
<1> QED
  BY <1>1, <1>2, PausedAll, BroughtFields

LEMMA HiddenKept ==
  ASSUME TypeOK, AppInv, HiddenHasApp, UNCHANGED <<current, visible>>,
         ~visible => \A b \in App : CanPause(am, b) => CanPause(am', b)
  PROVE  HiddenHasApp'
  BY DEF HiddenHasApp, TypeOK

LEMMA HiddenUnchanged ==
  ASSUME HiddenHasApp, UNCHANGED <<am, current, visible>>
  PROVE  HiddenHasApp'
  BY DEF HiddenHasApp

LEMMA HiddenShown ==
  ASSUME TypeOK, Show
  PROVE  HiddenHasApp'
  BY ShowTyped DEF HiddenHasApp

LEMMA HiddenStep ==
  ASSUME ForkFails = FALSE, TypeInv, AppInv, HiddenHasApp, [Next]_vars
  PROVE  HiddenHasApp'
<1>0. TypeOK /\ am \in Manager /\ known \subseteq App
  BY DEF TypeInv, TypeOK, AMTypeOK
<1>1. CASE Wake
  BY <1>1, HiddenUnchanged DEF Wake, appVars
<1>2. CASE UpdateStoppedApps
  <2>1. SUFFICES ASSUME ~visible'
                 PROVE  current' # NoApp /\ CanPause(am', current')
    BY DEF HiddenHasApp
  <2>2. current' = current /\ ~visible
    BY <1>2, <2>1 DEF UpdateStoppedApps
  <2>3. current # NoApp /\ CanPause(am, current) /\ current \in known /\ current \in App
    BY <1>0, <2>2 DEF HiddenHasApp, AppInv, FocusRunning, TypeOK
  <2>4. IsRunning(Update(am), current)
    BY <1>2, <2>2, <2>3 DEF UpdateStoppedApps, PathOf
  <2>5. ~Update(am).paused[current]
    BY <1>0, <2>3, UpdateFields DEF CanPause, IsPaused
  <2>6. am' = Update(am)
    BY <1>2 DEF UpdateStoppedApps
  <2> QED
    BY <2>2, <2>3, <2>4, <2>5, <2>6 DEF CanPause, IsPaused
<1>3. CASE InactivityTick
  BY <1>0, <1>3, HiddenShown, HiddenUnchanged DEF InactivityTick
<1>4. CASE TimersDone
  BY <1>4, HiddenUnchanged DEF TimersDone, appVars, viewVars
<1>5. CASE PowerShort
  <2>1. CASE ~isUnlocked \/ isViewingScreenshot
    BY <1>5, <2>1, HiddenUnchanged DEF PowerShort, ShortPress, appVars
  <2>2. CASE ~ (~isUnlocked \/ isViewingScreenshot) /\ visible
    <3>1. PICK sleepNow : Hide(sleepNow)
      BY <1>5, <2>2 DEF PowerShort, ShortPress, Toggle
    <3>2. CASE previous \notin known /\ current \notin known
      BY <2>2, <3>1, <3>2, HiddenUnchanged DEF Hide, appVars
    <3>3. CASE ~ (previous \notin known /\ current \notin known)
      <4>1. PICK a \in known : SwitchApp(a)
        BY <2>2, <3>1, <3>3 DEF Hide
      <4> QED
        BY <1>0, <4>1, SwitchHidden DEF HiddenHasApp
    <3> QED
      BY <3>2, <3>3
  <2>3. CASE ~ (~isUnlocked \/ isViewingScreenshot) /\ ~visible
    BY <1>0, <1>5, <2>3, HiddenShown DEF PowerShort, ShortPress, Toggle
  <2> QED
    BY <2>1, <2>2, <2>3
<1>6. CASE PowerLong
  BY <1>0, <1>6, HiddenShown, HiddenUnchanged DEF PowerLong, LongPress, appVars
<1>7. CASE OtherInput \/ Unlock \/ CloseScreenshot
  BY <1>7, HiddenUnchanged DEF OtherInput, Unlock, CloseScreenshot, appVars
<1>8. ASSUME NEW open \in BOOLEAN, PowerDialog(open)
      PROVE  HiddenHasApp'
  BY <1>8, HiddenUnchanged DEF PowerDialog, appVars
<1>9. ASSUME NEW a \in App, TapApp(a)
      PROVE  HiddenHasApp'
  <2>1. Target(a) \in known /\ SwitchApp(Target(a))
    BY <1>0, <1>9, TargetTyped DEF TapApp
  <2> QED
    BY <1>0, <2>1, SwitchHidden DEF HiddenHasApp
<1>10. ASSUME NEW a \in App, TapKill(a)
       PROVE  HiddenHasApp'
  <2>1. Target(a) \in App /\ am' = Terminate(am, Target(a))
    BY <1>0, <1>10, TargetTyped DEF TapKill
  <2>2. \A b \in App : CanPause(am, b) => CanPause(am', b)
    BY <1>0, <2>1, TerminateFields DEF CanPause, IsPaused
  <2> QED
    BY <1>0, <1>10, <2>2, HiddenKept DEF TapKill
<1>11. ASSUME NEW a \in App, TapCrash(a)
       PROVE  HiddenHasApp'
  BY <1>11, HiddenUnchanged DEF TapCrash, Crash, appVars, viewVars
<1>12. ASSUME NEW orphan \in BOOLEAN, Tick(orphan)
       PROVE  HiddenHasApp'
  <2>1. Show \/ UNCHANGED <<am, known, removeOnExit, visible>>
    BY <1>12 DEF Tick, SleepOutcome
  <2> QED
    BY <1>0, <1>12, <2>1, HiddenShown, HiddenUnchanged DEF Tick
<1>13. CASE Second
  BY <1>13, HiddenUnchanged DEF Second, appVars, viewVars
<1>14. CASE ChildStep
  <2>1. PICK a \in App, state \in ProcState \ {"none"}, sigchld \in BOOLEAN :
          am' = Moved(a, state, sigchld)
    BY <1>0, <1>14 DEF ChildStep, Setpgid, Exit, Manager, ProcState
  <2>2. \A b \in App : IsRunning(am, b) => IsRunning(am', b)
    BY <1>0, <2>1 DEF Moved, Manager, IsRunning
  <2>3. am'.paused = am.paused
    BY <2>1 DEF Moved
  <2>4. \A b \in App : CanPause(am, b) => CanPause(am', b)
    BY <2>2, <2>3 DEF CanPause, IsPaused
  <2> QED
    BY <1>0, <1>14, <2>4, HiddenKept DEF ChildStep, childFrame, viewVars
<1>15. CASE SignalHandler
  <2>1. \A b \in App : IsRunning(am', b) <=> IsRunning(am, b)
    BY <1>0, <1>15 DEF SignalHandler, OnSigChild, Manager, IsRunning
  <2>2. am'.paused = am.paused
    BY <1>15 DEF SignalHandler, OnSigChild
  <2>3. \A b \in App : CanPause(am, b) => CanPause(am', b)
    BY <2>1, <2>2 DEF CanPause, IsPaused
  <2> QED
    BY <1>0, <1>15, <2>3, HiddenKept DEF SignalHandler, childFrame, viewVars
<1>16. CASE ChangeDrafts
  BY <1>16, HiddenUnchanged DEF ChangeDrafts, appVars, viewVars
<1>17. CASE Quit
  <2>1. \A b \in App : IsRunning(am', b) <=> IsRunning(am, b)
    BY <1>0, <1>17, TerminateAllFields DEF Quit
  <2>2. am'.paused = am.paused
    BY <1>0, <1>17, TerminateAllFields DEF Quit
  <2>3. \A b \in App : CanPause(am, b) => CanPause(am', b)
    BY <2>1, <2>2 DEF CanPause, IsPaused
  <2> QED
    BY <1>0, <1>17, <2>3, HiddenKept DEF Quit, viewVars
<1>18. CASE Restart
  BY <1>18 DEF Restart, HiddenHasApp
<1>19. CASE UNCHANGED vars
  BY <1>19, HiddenUnchanged DEF vars, appVars, viewVars
<1> QED
  BY <1>1, <1>2, <1>3, <1>4, <1>5, <1>6, <1>7, <1>8, <1>9, <1>10, <1>11, <1>12, <1>13,
     <1>14, <1>15, <1>16, <1>17, <1>18, <1>19
     DEF Next, Loop, Input

\* Where fork does not fail, a hidden launcher always has an app in front of it
\* that is neither gone nor paused: the assertion show relies on.
THEOREM HiddenLauncherHasApp ==
  ASSUME ForkFails = FALSE
  PROVE  Spec => []HiddenHasApp
<1>1. Init => HiddenHasApp
  BY DEF Init, HiddenHasApp
<1>2. TypeInv /\ AppInv /\ HiddenHasApp /\ [Next]_vars => HiddenHasApp'
  BY HiddenStep
<1> QED
  BY <1>1, <1>2, AppInvariant, PTL DEF Spec

(***************************************************************************)
(* The signals: what the paused flag of a run info says of its process.    *)
(***************************************************************************)

\* A stopped process is marked paused; where children run setpgid in time, a
\* process marked paused that executes has been told to end.
Marked(m) ==
  \A a \in App :
    /\ m.proc[a] = "stopped" => m.paused[a]
    /\ ForkRace = FALSE => m.proc[a] # "forked"
    /\ ForkRace = FALSE /\ m.proc[a] = "running" /\ m.paused[a] => m.term[a]

LEMMA PauseMarked ==
  ASSUME NEW m \in Manager, NEW a \in App, Marked(m)
  PROVE  Marked(Pause(m, a))
  BY DEF Marked, Pause, Manager, ProcState

LEMMA CurrentPausedMarked ==
  ASSUME TypeOK, Marked(am)
  PROVE  Marked(CurrentPaused)
  BY PauseMarked DEF CurrentPaused, TypeOK, AMTypeOK

LEMMA BroughtMarked ==
  ASSUME NEW m \in Manager, NEW a \in App, Marked(m)
  PROVE  Marked(Brought(m, a))
<1>1. Marked(Resume(m, a))
  BY DEF Marked, Resume, Continued, Manager, ProcState
<1>2. Marked(Launched(m, a))
  BY ForkRaceAssumption DEF Marked, Launched, Manager, ProcState
<1> QED
  BY <1>1, <1>2 DEF Brought

LEMMA TerminateMarked ==
  ASSUME NEW m \in Manager, NEW a \in App, Marked(m)
  PROVE  Marked(Terminate(m, a))
  BY DEF Marked, Terminate, Continued, Manager, ProcState

LEMMA UpdateMarked ==
  ASSUME NEW m \in Manager, Marked(m)
  PROVE  Marked(Update(m))
  BY DEF Marked, Update, Manager, ProcState

LEMMA TerminateAllMarked ==
  ASSUME NEW m \in Manager, Marked(m)
  PROVE  /\ Marked(TerminateAll(m))
         /\ \A a \in App : TerminateAll(m).proc[a] # "stopped"
  BY DEF Marked, TerminateAll, Continued, Manager, ProcState

\* Pausing, bringing forward and stopping an app, the deaths and their
\* bookkeeping are all that ever happens to a process.
LEMMA ProcessSteps ==
  ASSUME TypeInv, AppInv, [Next]_vars
  PROVE  \/ am' = am
         \/ current \in App /\ am' = Pause(am, current)
         \/ am' = CurrentPaused
         \/ \E a \in App : am' = Brought(CurrentPaused, a) \/ am' = Terminate(am, a)
         \/ am' = Update(am)
         \/ am' = TerminateAll(am) /\ phase' = "off"
         \/ \E a \in App : Setpgid(a) \/ Exit(a)
         \/ OnSigChild
         \/ am' = NoProcesses
<1>0. TypeOK /\ known \subseteq App
  BY DEF TypeInv, TypeOK
<1>1. Show => am' = am \/ (current \in App /\ am' = Pause(am, current))
  BY <1>0 DEF Show
<1>2. ASSUME NEW a \in known, SwitchApp(a)
      PROVE  am' = CurrentPaused \/ am' = Brought(CurrentPaused, a)
  BY <1>2 DEF SwitchApp, SwitchTo, SwitchToFailed
<1>3. ASSUME NEW sleepNow, Hide(sleepNow)
      PROVE  am' = am \/ \E a \in known : SwitchApp(a)
  BY <1>3 DEF Hide, appVars
<1>4. CASE Input
  <2>1. CASE PowerShort
    BY <1>0, <1>1, <1>2, <1>3, <2>1 DEF PowerShort, ShortPress, Toggle, appVars
  <2>2. CASE PowerLong
    BY <1>1, <2>2 DEF PowerLong, LongPress, appVars
  <2>3. CASE OtherInput \/ Unlock \/ CloseScreenshot
    BY <2>3 DEF OtherInput, Unlock, CloseScreenshot, appVars
  <2>4. ASSUME NEW open \in BOOLEAN, PowerDialog(open)
        PROVE  am' = am
    BY <2>4 DEF PowerDialog, appVars
  <2>5. ASSUME NEW a \in App, TapApp(a)
        PROVE  \E b \in known : SwitchApp(b)
    BY <1>0, <2>5, TargetTyped DEF TapApp
  <2>6. ASSUME NEW a \in App, TapKill(a)
        PROVE  \E b \in App : am' = Terminate(am, b)
    BY <1>0, <2>6, TargetTyped DEF TapKill
  <2>7. ASSUME NEW a \in App, TapCrash(a)
        PROVE  am' = am
    BY <2>7 DEF TapCrash, Crash, appVars
  <2> QED
    BY <1>0, <1>2, <1>4, <2>1, <2>2, <2>3, <2>4, <2>5, <2>6, <2>7 DEF Input
<1>5. CASE Wake \/ TimersDone \/ Second \/ ChangeDrafts \/ UNCHANGED vars
  BY <1>5 DEF Wake, TimersDone, Second, ChangeDrafts, vars, appVars
<1>6. CASE UpdateStoppedApps
  BY <1>6 DEF UpdateStoppedApps
<1>7. CASE InactivityTick
  BY <1>1, <1>7 DEF InactivityTick
<1>8. ASSUME NEW orphan \in BOOLEAN, Tick(orphan)
      PROVE  Show \/ am' = am
  BY <1>8 DEF Tick, SleepOutcome
<1>9. CASE ChildStep
  BY <1>9 DEF ChildStep
<1>10. CASE SignalHandler
  BY <1>10 DEF SignalHandler
<1>11. CASE Quit
  BY <1>11 DEF Quit
<1>12. CASE Restart
  BY <1>12 DEF Restart
<1> QED
  BY <1>1, <1>4, <1>5, <1>6, <1>7, <1>8, <1>9, <1>10, <1>11, <1>12 DEF Next, Loop

LEMMA NoProcessesMarked == Marked(NoProcesses)
  BY DEF Marked, NoProcesses

LEMMA MarkedStep ==
  ASSUME TypeInv, AppInv, Marked(am), [Next]_vars
  PROVE  Marked(am')
<1>0. TypeOK /\ am \in Manager /\ CurrentPaused \in Manager /\ Marked(CurrentPaused)
  BY CurrentPausedTyped, CurrentPausedMarked DEF TypeInv, TypeOK, AMTypeOK
<1>1. CASE current \in App /\ am' = Pause(am, current)
  BY <1>0, <1>1, PauseMarked
<1>2. CASE \E a \in App : am' = Brought(CurrentPaused, a) \/ am' = Terminate(am, a)
  BY <1>0, <1>2, BroughtMarked, TerminateMarked
<1>3. CASE am' = Update(am)
  BY <1>0, <1>3, UpdateMarked
<1>4. CASE am' = TerminateAll(am)
  BY <1>0, <1>4, TerminateAllMarked
<1>5. CASE \E a \in App : Setpgid(a) \/ Exit(a)
  BY <1>0, <1>5, ForkRaceAssumption DEF Marked, Setpgid, Exit, Moved, Manager, ProcState
<1>6. CASE OnSigChild
  BY <1>0, <1>6 DEF Marked, OnSigChild, Manager, ProcState
<1>7. CASE am' = NoProcesses
  BY <1>7, NoProcessesMarked
<1> QED
  BY <1>0, <1>1, <1>2, <1>3, <1>4, <1>5, <1>6, <1>7, ProcessSteps

LEMMA MarkedInvariant == Spec => [](TypeInv /\ AppInv /\ Marked(am))
<1>1. Init => Marked(am)
  BY NoProcessesMarked DEF Init
<1>2. TypeInv /\ AppInv /\ Marked(am) /\ [Next]_vars => Marked(am)'
  BY MarkedStep
<1> QED
  BY <1>1, <1>2, AppInvariant, PTL DEF Spec

\* Where every child runs setpgid before it can be signalled, two apps that were
\* not told to end are never executed at once, for any number of apps.
THEOREM OneAppExecutes ==
  ASSUME ForkRace = FALSE
  PROVE  Spec => []OneForeground
<1>1. TypeInv /\ AppInv /\ Marked(am) => OneForeground
  <2> SUFFICES ASSUME TypeInv, AppInv, Marked(am),
                      NEW a \in App, NEW b \in App,
                      Executing(am, a), Executing(am, b), ~am.term[a], ~am.term[b]
               PROVE  a = b
    BY DEF OneForeground
  <2>1. CanPause(am, a) /\ CanPause(am, b)
    BY DEF Executing, Marked, CanPause, IsPaused, IsRunning
  <2> QED
    BY <2>1 DEF AppInv, OnlyCurrentUnpaused
<1> QED
  BY <1>1, MarkedInvariant, PTL

\* Whatever was paused when rocket ends is continued, for any number of apps.
THEOREM EndLeavesNoneStopped == Spec => []NoneLeftStopped
<1>1. Init => NoneLeftStopped
  BY DEF Init, NoneLeftStopped
<1>2. TypeInv /\ AppInv /\ Marked(am) /\ NoneLeftStopped /\ [Next]_vars
        => NoneLeftStopped'
  <2> SUFFICES ASSUME TypeInv, AppInv, Marked(am), NoneLeftStopped, [Next]_vars,
                      phase' = "off"
               PROVE  \A a \in App : am'.proc[a] # "stopped"
    BY DEF NoneLeftStopped
  <2>0. am \in Manager
    BY DEF TypeInv, TypeOK, AMTypeOK
  <2>1. Quit \/ (phase = "off" /\ (ChildStep \/ SignalHandler \/ UNCHANGED am))
    <3>1. CASE Loop
      <4>1. Input => phase' \in {"idle", "input", "crashed"}
        BY DEF Input, PowerShort, PowerLong, OtherInput, Unlock, CloseScreenshot,
               PowerDialog, TapApp, TapKill, TapCrash, Crash, Event, EndEvents, AfterEvents
      <4>2. UpdateStoppedApps \/ Wake \/ TimersDone => phase' # "off"
        BY DEF Wake, UpdateStoppedApps, TimersDone, EndEvents, AfterEvents
      <4>3. ASSUME InactivityTick \/ \E orphan \in BOOLEAN : Tick(orphan)
            PROVE  phase' # "off"
        BY <4>3 DEF InactivityTick, Tick, loopVars
      <4> QED
        BY <3>1, <4>1, <4>2, <4>3 DEF Loop
    <3>2. CASE Second \/ ChangeDrafts \/ UNCHANGED vars
      BY <3>2 DEF Second, ChangeDrafts, vars, loopVars, appVars
    <3>3. CASE ChildStep \/ SignalHandler
      BY <3>3 DEF ChildStep, SignalHandler, childFrame, loopVars
    <3>4. CASE Restart
      BY <3>4 DEF Restart
    <3> QED
      BY <3>1, <3>2, <3>3, <3>4 DEF Next
  <2>2. CASE Quit
    BY <2>0, <2>2, TerminateAllMarked DEF Quit
  <2>3. CASE phase = "off" /\ ChildStep
    BY <2>0, <2>3 DEF NoneLeftStopped, ChildStep, Setpgid, Exit, Moved, Manager
  <2>4. CASE phase = "off" /\ SignalHandler
    BY <2>0, <2>4 DEF NoneLeftStopped, SignalHandler, OnSigChild, Manager
  <2>5. CASE phase = "off" /\ UNCHANGED am
    BY <2>5 DEF NoneLeftStopped
  <2> QED
    BY <2>1, <2>2, <2>3, <2>4, <2>5
<1> QED
  BY <1>1, <1>2, MarkedInvariant, PTL DEF Spec

(***************************************************************************)
(* The countdown to sleep.                                                 *)
(***************************************************************************)

\* For any timeouts, retries and orphaned timers: leaving the launcher stops the
\* countdown, and nothing starts one before the launcher is back on screen.
THEOREM NoSleepUnderApp == Spec => []SleepOnlyInLauncher
<1>1. Init => SleepOnlyInLauncher
  BY DEF Init, SleepOnlyInLauncher
<1>2. TypeInv /\ SleepOnlyInLauncher /\ [Next]_vars => SleepOnlyInLauncher'
  <2> SUFFICES ASSUME TypeInv, SleepOnlyInLauncher, [Next]_vars
               PROVE  SleepOnlyInLauncher'
    OBVIOUS
  <2>0. /\ TypeOK /\ TimerOK(sleepTimer) /\ known \subseteq App
        /\ sleepTimer.countdown \in Floor .. (SleepTimeout + RetryTimeout)
    BY DEF TypeInv, TypeOK, SleepTimer
  <2>1. ASSUME UNCHANGED <<visible, sleepTimer>>
        PROVE  SleepOnlyInLauncher'
    BY <2>1 DEF SleepOnlyInLauncher
  <2>2. ASSUME sleepTimer' = Stopped(sleepTimer)
        PROVE  SleepOnlyInLauncher'
    <3>1. sleepTimer'.countdown = -1 /\ sleepTimer'.queued = FALSE
      BY <2>2 DEF Stopped
    <3> QED
      BY <3>1 DEF SleepOnlyInLauncher
  <2>3. ASSUME visible' = TRUE
        PROVE  SleepOnlyInLauncher'
    BY <2>3 DEF SleepOnlyInLauncher
  <2>4. Show => visible' = TRUE
    BY <2>0, ShowTyped
  <2>5. ASSUME NEW a, SwitchApp(a)
        PROVE  SleepOnlyInLauncher'
    BY <2>2, <2>5 DEF SwitchApp
  <2>6. CASE Input
    <3>1. CASE PowerShort
      <4>1. CASE ~isUnlocked \/ isViewingScreenshot
        BY <2>1, <3>1, <4>1 DEF PowerShort, ShortPress
      <4>2. CASE ~ (~isUnlocked \/ isViewingScreenshot) /\ visible
        <5>1. PICK sleepNow : Hide(sleepNow)
          BY <3>1, <4>2 DEF PowerShort, ShortPress, Toggle
        <5>2. CASE previous \notin known /\ current \notin known
          BY <2>3, <4>2, <5>1, <5>2 DEF Hide, TypeInv, TypeOK
        <5>3. CASE ~ (previous \notin known /\ current \notin known)
          BY <2>5, <4>2, <5>1, <5>3 DEF Hide
        <5> QED
          BY <5>2, <5>3
      <4>3. CASE ~ (~isUnlocked \/ isViewingScreenshot) /\ ~visible
        BY <2>3, <2>4, <3>1, <4>3 DEF PowerShort, ShortPress, Toggle
      <4> QED
        BY <4>1, <4>2, <4>3
    <3>2. CASE PowerLong
      BY <2>1, <2>2, <3>2 DEF PowerLong, LongPress
    <3>3. CASE OtherInput \/ Unlock \/ CloseScreenshot
      BY <2>1, <3>3 DEF OtherInput, Unlock, CloseScreenshot
    <3>4. ASSUME NEW open \in BOOLEAN, PowerDialog(open)
          PROVE  SleepOnlyInLauncher'
      BY <2>1, <3>4 DEF PowerDialog
    <3>5. ASSUME NEW a \in App, TapApp(a)
          PROVE  SleepOnlyInLauncher'
      BY <2>5, <3>5 DEF TapApp
    <3>6. ASSUME NEW a \in App, TapKill(a)
          PROVE  SleepOnlyInLauncher'
      BY <2>2, <3>6 DEF TapKill
    <3>7. ASSUME NEW a \in App, TapCrash(a)
          PROVE  SleepOnlyInLauncher'
      BY <2>1, <3>7 DEF TapCrash, Crash, viewVars, timeVars
    <3> QED
      BY <2>6, <3>1, <3>2, <3>3, <3>4, <3>5, <3>6, <3>7 DEF Input
  <2>7. ASSUME NEW orphan \in BOOLEAN, Tick(orphan)
        PROVE  SleepOnlyInLauncher'
    <3>1. CASE sleepTimer.countdown = 0
      <4>1. visible = TRUE
        BY <3>1 DEF SleepOnlyInLauncher, TypeInv, TypeOK
      <4>2. Show \/ UNCHANGED visible
        BY <2>7, <3>1 DEF Tick, SleepOutcome
      <4> QED
        BY <2>3, <2>4, <4>1, <4>2
    <3>2. CASE sleepTimer.countdown # 0
      <4>1. /\ sleepTimer' = Ticked(sleepTimer, orphan, Below(sleepTimer.countdown),
                                    sleepTimer.left)
            /\ UNCHANGED visible
        BY <2>7, <3>2 DEF Tick
      <4>2. sleepTimer'.queued = sleepTimer.queued
            /\ sleepTimer'.countdown = Below(sleepTimer.countdown)
        BY <4>1 DEF Ticked
      <4>3. sleepTimer.countdown < 0 => Below(sleepTimer.countdown) < 0
        BY <2>0 DEF Below, Floor
      <4> QED
        BY <4>1, <4>2, <4>3 DEF SleepOnlyInLauncher
    <3> QED
      BY <3>1, <3>2
  <2>8. CASE InactivityTick
    BY <2>1, <2>3, <2>4, <2>8 DEF InactivityTick
  <2>9. CASE UpdateStoppedApps
    BY <2>1, <2>3, <2>9 DEF UpdateStoppedApps, timeVars
  <2>10. CASE Wake \/ TimersDone \/ ChangeDrafts \/ Quit \/ UNCHANGED vars
    BY <2>1, <2>10 DEF Wake, TimersDone, ChangeDrafts, Quit, vars, viewVars, timeVars
  <2>11. CASE ChildStep \/ SignalHandler
    BY <2>1, <2>11 DEF ChildStep, SignalHandler, childFrame, viewVars, timeVars
  <2>12. CASE Second
    BY <2>0, <2>12, SecondPassedTyped DEF Second, viewVars, SleepOnlyInLauncher
  <2>13. CASE Restart
    BY <2>3, <2>13 DEF Restart
  <2> QED
    BY <2>6, <2>7, <2>8, <2>9, <2>10, <2>11, <2>12, <2>13 DEF Next, Loop
<1>3. Spec => []TypeInv
  BY AppInvariant, PTL
<1> QED
  BY <1>1, <1>2, <1>3, PTL DEF Spec

(***************************************************************************)
(* The countdown and the lock.  Where suspending does not fail and the     *)
(* inactivity timeouts are longer than the countdown, as they are in       *)
(* Launcher.h:21-23 and Launcher.cpp:389, no sleep timer is replaced while *)
(* it runs.  So there is one tick a second, and one at most in a round:    *)
(* the tick that locks finds the tree of the suspended screen.             *)
(***************************************************************************)

SleepsInTime ==
  /\ SleepFails = FALSE
  /\ SleepTimeout + 1 < (InactivityTimeout - 1) * Minute
  /\ SleepTimeout + 1 < (LockedInactivity - 1) * Minute

\* The handle's timer is the only one, and its countdown is not ahead of the clock.
Counting(t) ==
  /\ t.orphans = 0 /\ t.orphansDue = 0
  /\ t.due => t.queued
  /\ t.queued => /\ t.countdown \in 0 .. SleepTimeout
                 /\ t.left <= t.countdown
                 /\ t.due /\ t.countdown > 0 => t.left < t.countdown
  /\ ~t.queued => t.countdown = -1

\* The seconds to sleep, and to the end of the inactivity timeout.
ToSleep(t) == t.countdown + (IF t.due THEN 0 ELSE 1)
ToInactivity ==
  (inactivityCountdown - 1) * Minute + (IF minuteDue THEN 0 ELSE Minute - second)

ClockInv ==
  /\ Counting(sleepTimer)
  /\ inactivityCountdown > 0
  /\ minuteDue => second = 0
  /\ sleepTimer.queued => ToSleep(sleepTimer) < ToInactivity

LockInv ==
  /\ ui.kind = "launcher" => isUnlocked
  /\ ui.kind = "launcher" /\ phase \in {"fds", "timers"} /\ sleepTimer.due => sleepTimer.countdown # 0
  /\ ~isUnlocked => visible

LEMMA StoppedCounting ==
  ASSUME NEW t, TimerOK(t), Counting(t)
  PROVE  Counting(Stopped(t)) /\ ~Stopped(t).queued /\ ~Stopped(t).due
         /\ TimerOK(Stopped(t))
<1>1. /\ Stopped(t).queued = FALSE /\ Stopped(t).due = FALSE /\ Stopped(t).countdown = -1
      /\ Stopped(t).orphans = t.orphans /\ Stopped(t).orphansDue = t.orphansDue
  BY DEF Stopped
<1> QED
  BY <1>1, StoppedTyped DEF Counting

LEMMA StartedCounting ==
  ASSUME NEW t, TimerOK(t), Counting(t), ~t.queued, NEW time \in {0, SleepTimeout}
  PROVE  Counting(Started(t, time)) /\ (Started(t, time).due => time = 0)
<1>1. /\ Started(t, time).countdown = time /\ Started(t, time).queued = TRUE
      /\ Started(t, time).due = (time = 0)
      /\ Started(t, time).orphans = t.orphans /\ Started(t, time).orphansDue = t.orphansDue
      /\ Started(t, time).left = time
  BY DEF Started, TimerOK, SleepTimer, Counting
<1>2. time \in 0 .. SleepTimeout /\ time \in Int /\ time <= time
  BY TimeoutAssumption
<1>3. Started(t, time).due => time = 0
  BY <1>1, Zenon
<1> QED
  BY <1>1, <1>2, <1>3 DEF Counting

LEMMA TickedCounting ==
  ASSUME NEW t, TimerOK(t), Counting(t), t.due, t.countdown # 0
  PROVE  /\ Counting(Ticked(t, FALSE, Below(t.countdown), t.left))
         /\ ~Ticked(t, FALSE, Below(t.countdown), t.left).due
         /\ ToSleep(Ticked(t, FALSE, Below(t.countdown), t.left)) = ToSleep(t)
<1> DEFINE u == Ticked(t, FALSE, Below(t.countdown), t.left)
<1>1. /\ t.countdown \in Int /\ t.left \in Int /\ t.queued \in BOOLEAN
  BY TimeoutAssumption DEF TimerOK, SleepTimer, Floor
<1>2. t.countdown \in 1 .. SleepTimeout /\ t.queued /\ t.left < t.countdown
  BY <1>1, TimeoutAssumption DEF Counting
<1>3. Below(t.countdown) = t.countdown - 1
  BY <1>1, <1>2, TimeoutAssumption DEF Below, Floor
<1>4. /\ u.countdown = t.countdown - 1 /\ u.queued = t.queued /\ ~u.due
      /\ u.orphans = t.orphans /\ u.orphansDue = t.orphansDue /\ u.left = t.left
  BY <1>3 DEF Ticked
<1> HIDE DEF u
<1>5. Counting(u) /\ ~u.due /\ ToSleep(u) = ToSleep(t)
  BY <1>1, <1>2, <1>4, TimeoutAssumption DEF Counting, ToSleep
<1> QED
  BY <1>5 DEF u

LEMMA SecondCounting ==
  ASSUME NEW t, TimerOK(t), Counting(t), ~AnyDue(t)
  PROVE  /\ Counting(SecondPassed(t))
         /\ SecondPassed(t).queued = t.queued
         /\ t.queued => ToSleep(SecondPassed(t)) = ToSleep(t) - 1
<1>1. /\ t.countdown \in Int /\ t.left \in Int /\ t.left >= -2 /\ t.queued \in BOOLEAN
  BY TimeoutAssumption DEF TimerOK, SleepTimer, Floor
<1>2. /\ SecondPassed(t).countdown = t.countdown /\ SecondPassed(t).queued = t.queued
      /\ SecondPassed(t).due = t.queued /\ SecondPassed(t).left = Below(t.left)
      /\ SecondPassed(t).orphans = t.orphans /\ SecondPassed(t).orphansDue = t.orphans
  BY DEF SecondPassed
<1>3. Below(t.left) \in Int /\ (t.countdown >= 0 /\ t.left <= t.countdown => Below(t.left) < t.countdown)
  BY <1>1 DEF Below, Floor
<1>4. ~t.due
  BY DEF AnyDue
<1>5. CASE t.queued
  <2>1. t.countdown \in 0 .. SleepTimeout /\ t.left <= t.countdown
    BY <1>5 DEF Counting
  <2>2. /\ SecondPassed(t).due /\ SecondPassed(t).queued
    BY <1>2, <1>5
  <2>3. Counting(SecondPassed(t))
    BY <1>1, <1>2, <1>3, <2>1, <2>2, TimeoutAssumption DEF Counting
  <2>4. ToSleep(SecondPassed(t)) = ToSleep(t) - 1
    BY <1>1, <1>2, <1>4, <2>2 DEF ToSleep
  <2> QED
    BY <1>2, <2>3, <2>4
<1>6. CASE ~t.queued
  BY <1>2, <1>6 DEF Counting
<1> QED
  BY <1>5, <1>6

\* A countdown that runs is shorter than what any input puts the inactivity back to.
LEMMA InactivityReset ==
  ASSUME SleepsInTime, TypeInv, Counting(sleepTimer'), TimerOK(sleepTimer'),
         NEW unlocked, inactivityCountdown' = Inactivity(unlocked), UNCHANGED <<minuteDue, second>>
  PROVE  /\ inactivityCountdown' > 0
         /\ sleepTimer'.queued => ToSleep(sleepTimer') < ToInactivity'
<1>1. /\ Minute \in Nat /\ second \in 0 .. Minute - 1 /\ SleepTimeout \in Nat
      /\ InactivityTimeout \in Nat \ {0} /\ LockedInactivity \in Nat \ {0}
  BY TimeoutAssumption DEF TypeInv, TypeOK
<1>2. inactivityCountdown' \in {InactivityTimeout, LockedInactivity}
  BY DEF Inactivity
<1>3. SleepTimeout + 1 < (inactivityCountdown' - 1) * Minute
  BY <1>2 DEF SleepsInTime
<1>4. (inactivityCountdown' - 1) * Minute \in Int
  BY <1>1, <1>2
<1>5. ToInactivity' = (inactivityCountdown' - 1) * Minute + (IF minuteDue THEN 0 ELSE Minute - second)
  BY DEF ToInactivity
<1>6. (IF minuteDue THEN 0 ELSE Minute - second) \in Nat
  BY <1>1
<1>7. ToInactivity' > SleepTimeout + 1
  BY <1>1, <1>3, <1>4, <1>5, <1>6
<1>8. sleepTimer'.queued => ToSleep(sleepTimer') <= SleepTimeout + 1
  <2> SUFFICES ASSUME sleepTimer'.queued PROVE ToSleep(sleepTimer') <= SleepTimeout + 1
    OBVIOUS
  <2>1. sleepTimer'.countdown \in 0 .. SleepTimeout
    BY DEF Counting
  <2> QED
    BY <1>1, <2>1 DEF ToSleep
<1>9. sleepTimer'.queued => ToSleep(sleepTimer') \in Int /\ ToInactivity' \in Int
  <2> SUFFICES ASSUME sleepTimer'.queued PROVE ToSleep(sleepTimer') \in Int /\ ToInactivity' \in Int
    OBVIOUS
  <2>1. sleepTimer'.countdown \in 0 .. SleepTimeout
    BY DEF Counting
  <2> QED
    BY <1>1, <1>4, <1>5, <1>6, <2>1 DEF ToSleep
<1> QED
  BY <1>1, <1>2, <1>7, <1>8, <1>9

\* What the handlers of the events make of the sleep timer and of what is shown:
\* it runs on, or is stopped, or starts where none ran; no locked launcher is hidden.
LEMMA InputTimer ==
  ASSUME TypeInv, SleepOnlyInLauncher, Counting(sleepTimer), LockInv, Input, phase' # "crashed"
  PROVE  /\ Counting(sleepTimer')
         /\ ~visible' => ~visible \/ isUnlocked
         /\ \E unlocked \in {TRUE, isUnlocked} : Event(unlocked)
<1>0. /\ TypeOK /\ TimerOK(sleepTimer) /\ known \subseteq App
      /\ visible \in BOOLEAN
  BY DEF TypeInv, TypeOK
<1>1. ASSUME UNCHANGED <<visible, sleepTimer>>
      PROVE  Counting(sleepTimer') /\ (~visible' => ~visible)
  BY <1>1
<1>2. ASSUME sleepTimer' = Stopped(sleepTimer) PROVE Counting(sleepTimer')
  BY <1>0, <1>2, StoppedCounting
<1>3. Show => visible' = TRUE
  BY <1>0, ShowTyped
<1>4. CASE PowerShort
  <2>1. Event(isUnlocked)
    BY <1>4 DEF PowerShort
  <2>2. CASE ~isUnlocked \/ isViewingScreenshot
    BY <1>1, <1>4, <2>1, <2>2 DEF PowerShort, ShortPress
  <2>3. CASE isUnlocked /\ ~isViewingScreenshot /\ visible
    <3>1. PICK sleepNow : Hide(sleepNow)
      BY <1>4, <2>3 DEF PowerShort, ShortPress, Toggle
    <3>2. sleepTimer' = Stopped(sleepTimer) \/ sleepTimer' = Started(Stopped(sleepTimer), 0)
      BY <3>1 DEF Hide, SwitchApp
    <3>3. Counting(sleepTimer')
      BY <1>0, <1>2, <3>2, StoppedCounting, StartedCounting
    <3> QED
      BY <2>1, <2>3, <3>3
  <2>4. CASE isUnlocked /\ ~isViewingScreenshot /\ ~visible
    <3>1. sleepTimer' = Started(sleepTimer, SleepTimeout)
      BY <1>4, <2>4 DEF PowerShort, ShortPress, Toggle
    <3>2. ~sleepTimer.queued
      BY <2>4 DEF SleepOnlyInLauncher
    <3>3. Counting(sleepTimer')
      BY <1>0, <3>1, <3>2, StartedCounting
    <3> QED
      BY <2>1, <2>4, <3>3
  <2> QED
    BY <1>0, <2>2, <2>3, <2>4
<1>5. CASE PowerLong
  <2>1. Event(isUnlocked)
    BY <1>5 DEF PowerLong
  <2>2. (UNCHANGED <<visible, sleepTimer>>)
        \/ (sleepTimer' = Stopped(sleepTimer) /\ (visible' = visible \/ Show))
    BY <1>5 DEF PowerLong, LongPress
  <2>3. Counting(sleepTimer') /\ (~visible' => ~visible)
    BY <1>1, <1>2, <1>3, <2>2
  <2> QED
    BY <2>1, <2>3
<1>6. CASE OtherInput \/ CloseScreenshot
  BY <1>1, <1>6 DEF OtherInput, CloseScreenshot
<1>7. CASE Unlock
  BY <1>1, <1>7 DEF Unlock
<1>8. ASSUME NEW open \in BOOLEAN, PowerDialog(open)
      PROVE  /\ Counting(sleepTimer')
             /\ ~visible' => ~visible \/ isUnlocked
             /\ Event(isUnlocked)
  BY <1>1, <1>8 DEF PowerDialog
<1>9. ASSUME NEW a \in App, TapApp(a)
      PROVE  /\ Counting(sleepTimer')
             /\ ~visible' => ~visible \/ isUnlocked
             /\ Event(isUnlocked)
  <2>1. ui.kind = "launcher" /\ Event(isUnlocked) /\ sleepTimer' = Stopped(sleepTimer)
    BY <1>9 DEF TapApp, SwitchApp
  <2> QED
    BY <1>2, <2>1 DEF LockInv
<1>10. ASSUME NEW a \in App, TapKill(a)
       PROVE  /\ Counting(sleepTimer')
              /\ ~visible' => ~visible \/ isUnlocked
              /\ Event(isUnlocked)
  <2>1. Event(isUnlocked) /\ sleepTimer' = Stopped(sleepTimer) /\ visible' = visible
    BY <1>10 DEF TapKill
  <2> QED
    BY <1>2, <2>1
<1>11. ASSUME NEW a \in App, TapCrash(a)
       PROVE  FALSE
  BY <1>11 DEF TapCrash, Crash
<1> QED
  BY <1>4, <1>5, <1>6, <1>7, <1>8, <1>9, <1>10, <1>11 DEF Input

\* What of a round's end and of the screen the lock depends on.
LEMMA EventLock ==
  ASSUME TypeInv, LockInv, NEW unlocked \in {TRUE, isUnlocked}, Event(unlocked),
         ~visible' => ~visible \/ isUnlocked
  PROVE  LockInv'
<1>1. phase' \in {"idle", "input"} /\ ui' \in {NoTree, ui} /\ isUnlocked' = unlocked
  BY DEF Event, EndEvents, AfterEvents
<1>2. NoTree.kind # "launcher"
  BY DEF NoTree
<1>3. ui'.kind = "launcher" => ui.kind = "launcher"
  BY <1>1, <1>2
<1>4. isUnlocked \in BOOLEAN /\ visible \in BOOLEAN
  BY DEF TypeInv, TypeOK
<1> QED
  BY <1>1, <1>3, <1>4 DEF LockInv

\* A tick: the timer that runs goes on counting; one that is through is stopped,
\* and the round that locks the launcher holds no tree of the unlocked one.
LEMMA TickClock ==
  ASSUME SleepsInTime, TypeInv, TypeInv', ClockInv, LockInv,
         NEW orphan \in BOOLEAN, Tick(orphan)
  PROVE  ClockInv' /\ LockInv'
<1>1. /\ TypeOK /\ TimerOK(sleepTimer) /\ Counting(sleepTimer)
      /\ visible \in BOOLEAN /\ isUnlocked \in BOOLEAN
      /\ InactivityTimeout \in Nat \ {0} /\ LockedInactivity \in Nat \ {0}
  BY TimeoutAssumption DEF TypeInv, TypeOK, ClockInv
<1>2. orphan = FALSE /\ sleepTimer.due /\ sleepTimer.queued
  BY <1>1 DEF Tick, Expired, Counting
<1>3. phase = "timers" /\ UNCHANGED <<phase, ui, minuteDue, second>>
  BY DEF Tick, loopVars
<1>4. CASE sleepTimer.countdown = 0
  <2>1. SleepOutcome(TRUE, FALSE) /\ isUnlocked' = FALSE
    BY <1>2, <1>4 DEF Tick, SleepsInTime
  <2>2. /\ inactivityCountdown' = Inactivity(FALSE)
        /\ sleepTimer' = Stopped(Ticked(sleepTimer, FALSE, 0, sleepTimer.left))
        /\ visible' = TRUE
    BY <1>1, <2>1, ShowTyped DEF SleepOutcome
  <2>3. /\ sleepTimer'.countdown = -1 /\ sleepTimer'.queued = FALSE /\ sleepTimer'.due = FALSE
        /\ sleepTimer'.orphans = sleepTimer.orphans
        /\ sleepTimer'.orphansDue = sleepTimer.orphansDue
    BY <2>2 DEF Stopped, Ticked
  <2>4. Counting(sleepTimer')
    BY <1>1, <2>3 DEF Counting
  <2>5. inactivityCountdown' > 0
    BY <1>1, <2>2 DEF Inactivity
  <2>6. ClockInv'
    BY <1>3, <2>3, <2>4, <2>5 DEF ClockInv, Counting
  <2>7. ui'.kind # "launcher"
    BY <1>2, <1>3, <1>4 DEF LockInv
  <2> QED
    BY <2>2, <2>6, <2>7 DEF LockInv
<1>5. CASE sleepTimer.countdown # 0
  <2>1. /\ sleepTimer' = Ticked(sleepTimer, FALSE, Below(sleepTimer.countdown),
                                sleepTimer.left)
        /\ UNCHANGED <<visible, isUnlocked, inactivityCountdown>>
    BY <1>2, <1>5 DEF Tick
  <2>2. /\ Counting(sleepTimer') /\ ~sleepTimer'.due
        /\ ToSleep(sleepTimer') = ToSleep(sleepTimer)
    BY <1>1, <1>2, <1>5, <2>1, TickedCounting
  <2>3. ToInactivity' = ToInactivity
    BY <1>3, <2>1 DEF ToInactivity
  <2>4. ClockInv'
    BY <1>2, <1>3, <2>1, <2>2, <2>3 DEF ClockInv, Counting, ToSleep
  <2> QED
    BY <1>3, <2>1, <2>2, <2>4 DEF LockInv
<1> QED
  BY <1>4, <1>5

\* The inactivity timer never finds a countdown that it would replace.
LEMMA InactivityClock ==
  ASSUME SleepsInTime, TypeInv, TypeInv', ClockInv, LockInv, InactivityTick
  PROVE  ClockInv' /\ LockInv'
<1>1. /\ TypeOK /\ TimerOK(sleepTimer) /\ TimerOK(sleepTimer') /\ Counting(sleepTimer)
      /\ visible \in BOOLEAN /\ isUnlocked \in BOOLEAN
      /\ Minute \in Nat \ {0} /\ SleepTimeout \in Nat \ {0}
      /\ inactivityCountdown \in Nat \ {0}
      /\ minuteDue /\ second = 0
  BY TimeoutAssumption DEF TypeInv, TypeOK, ClockInv, InactivityTick, TimerOK
<1>2. /\ minuteDue' = FALSE
      /\ UNCHANGED <<phase, ui, isUnlocked, second>>
  BY DEF InactivityTick, loopVars
<1>3. CASE inactivityCountdown = 1
  <2>1. /\ inactivityCountdown' = Inactivity(isUnlocked)
        /\ sleepTimer' = Started(sleepTimer, SleepTimeout)
        /\ visible' = TRUE
    BY <1>1, <1>3, ShowTyped DEF InactivityTick
  <2>2. ToInactivity = 0
    BY <1>1, <1>3 DEF ToInactivity
  <2>3. ~sleepTimer.queued
    <3> SUFFICES ASSUME sleepTimer.queued PROVE FALSE
      OBVIOUS
    <3>1. sleepTimer.countdown \in 0 .. SleepTimeout
      BY <1>1 DEF Counting
    <3>2. ToSleep(sleepTimer) >= 0
      BY <1>1, <3>1 DEF ToSleep
    <3> QED
      BY <1>1, <2>2, <3>1, <3>2 DEF ClockInv, ToSleep
  <2>4. Counting(sleepTimer') /\ ~sleepTimer'.due
    BY <1>1, <2>1, <2>3, StartedCounting
  <2>5. inactivityCountdown' \in {InactivityTimeout, LockedInactivity}
    BY <2>1 DEF Inactivity
  <2>6. /\ SleepTimeout + 1 < (inactivityCountdown' - 1) * Minute
        /\ inactivityCountdown' \in Nat \ {0}
    BY <2>5, TimeoutAssumption DEF SleepsInTime
  <2>7. sleepTimer'.countdown = SleepTimeout /\ sleepTimer'.queued = TRUE
    BY <2>1 DEF Started
  <2>8. ToSleep(sleepTimer') = SleepTimeout + 1
    BY <2>4, <2>7 DEF ToSleep
  <2>9. ToInactivity' = (inactivityCountdown' - 1) * Minute + Minute
    BY <1>1, <1>2 DEF ToInactivity
  <2>10. (inactivityCountdown' - 1) * Minute \in Int
    BY <1>1, <2>6
  <2>11. ToSleep(sleepTimer') < ToInactivity'
    <3> DEFINE product == (inactivityCountdown' - 1) * Minute
    <3>1. product \in Int /\ SleepTimeout + 1 < product /\ ToInactivity' = product + Minute
      BY <2>6, <2>9, <2>10
    <3> HIDE DEF product
    <3> QED
      BY <1>1, <2>8, <3>1
  <2>12. ClockInv'
    BY <1>2, <2>4, <2>6, <2>11 DEF ClockInv
  <2> QED
    BY <1>2, <2>1, <2>4, <2>12 DEF LockInv
<1>4. CASE inactivityCountdown # 1
  <2>1. /\ inactivityCountdown' = inactivityCountdown - 1
        /\ UNCHANGED <<visible, sleepTimer>>
    BY <1>4 DEF InactivityTick
  <2>2. ToInactivity = (inactivityCountdown - 1) * Minute
    BY <1>1 DEF ToInactivity
  <2>3. ToInactivity' = (inactivityCountdown - 1 - 1) * Minute + Minute
    BY <1>1, <1>2, <2>1 DEF ToInactivity
  <2>4. (inactivityCountdown - 1 - 1) * Minute + Minute = (inactivityCountdown - 1) * Minute
    BY <1>1
  <2>5. ClockInv'
    BY <1>1, <1>2, <1>4, <2>1, <2>2, <2>3, <2>4 DEF ClockInv
  <2> QED
    BY <1>2, <2>1, <2>5 DEF LockInv
<1> QED
  BY <1>3, <1>4

\* A second is one less to sleep and one less to the end of the inactivity timeout.
LEMMA SecondClock ==
  ASSUME TypeInv, ClockInv, LockInv, Second
  PROVE  ClockInv' /\ LockInv'
<1>1. /\ TimerOK(sleepTimer) /\ Counting(sleepTimer) /\ ~AnyDue(sleepTimer) /\ ~minuteDue
      /\ Minute \in Nat \ {0} /\ second \in 0 .. Minute - 1 /\ inactivityCountdown \in Nat \ {0}
  BY TimeoutAssumption DEF TypeInv, TypeOK, ClockInv, Second
<1>2. /\ sleepTimer' = SecondPassed(sleepTimer)
      /\ second' = (second + 1) % Minute
      /\ minuteDue' = (second = Minute - 1)
      /\ UNCHANGED <<phase, ui, visible, isUnlocked, inactivityCountdown>>
      /\ phase = "idle"
  BY DEF Second, loopVars, viewVars
<1>3. /\ Counting(sleepTimer') /\ sleepTimer'.queued = sleepTimer.queued
      /\ sleepTimer.queued => ToSleep(sleepTimer') = ToSleep(sleepTimer) - 1
  BY <1>1, <1>2, SecondCounting
<1>4. second' = IF second = Minute - 1 THEN 0 ELSE second + 1
  BY <1>1, <1>2
<1>5. (inactivityCountdown - 1) * Minute \in Int
  BY <1>1
<1>6. ToInactivity' = ToInactivity - 1 /\ ToInactivity \in Int
  <2> DEFINE product == (inactivityCountdown - 1) * Minute
  <2>1. product \in Int
    BY <1>5
  <2>2. ToInactivity = product + (Minute - second)
    BY <1>1 DEF ToInactivity
  <2>3. ToInactivity' = product + (IF second = Minute - 1 THEN 0 ELSE Minute - (second + 1))
    BY <1>2, <1>4 DEF ToInactivity
  <2> HIDE DEF product
  <2> QED
    BY <1>1, <2>1, <2>2, <2>3
<1>7. sleepTimer.queued => ToSleep(sleepTimer) \in Int
  BY <1>1, TimeoutAssumption DEF Counting, ToSleep
<1>8. sleepTimer'.queued => ToSleep(sleepTimer') < ToInactivity'
  BY <1>3, <1>6, <1>7 DEF ClockInv
<1>9. ClockInv'
  BY <1>1, <1>2, <1>3, <1>4, <1>8 DEF ClockInv
<1> QED
  BY <1>2, <1>9 DEF LockInv

\* A round starts with the launcher only where it is unlocked and not through.
LEMMA WakeClock ==
  ASSUME SleepsInTime, TypeInv, ClockInv, LockInv, Wake
  PROVE  ClockInv' /\ LockInv'
<1>1. /\ TimerOK(sleepTimer) /\ Counting(sleepTimer)
      /\ isUnlocked \in BOOLEAN /\ visible \in BOOLEAN
  BY DEF TypeInv, TypeOK, ClockInv
<1>2. UNCHANGED <<sleepTimer, minuteDue, second, visible>>
  BY DEF Wake
<1> DEFINE unlocks == ~Passcode /\ visible /\ ~isViewingScreenshot /\ sleepTimer.countdown # 0
<1>3. /\ isUnlocked' = (isUnlocked \/ unlocks)
      /\ inactivityCountdown' = IF unlocks THEN Inactivity(TRUE) ELSE inactivityCountdown
      /\ ui' = Tree(isUnlocked \/ unlocks)
  BY DEF Wake
<1> HIDE DEF unlocks
<1>4. ClockInv'
  <2>1. CASE unlocks
    <3>1. inactivityCountdown' = Inactivity(TRUE)
      BY <1>3, <2>1
    <3>2. Counting(sleepTimer') /\ TimerOK(sleepTimer')
      BY <1>1, <1>2
    <3>3. /\ inactivityCountdown' > 0
          /\ sleepTimer'.queued => ToSleep(sleepTimer') < ToInactivity'
      BY <1>2, <3>1, <3>2, InactivityReset
    <3> QED
      BY <1>2, <3>2, <3>3 DEF ClockInv
  <2>2. CASE ~unlocks
    BY <1>2, <1>3, <2>2 DEF ClockInv, ToInactivity
  <2> QED
    BY <2>1, <2>2
<1>5. ui'.kind = "launcher" => isUnlocked' /\ sleepTimer.countdown # 0
  BY <1>3 DEF Tree
<1> QED
  BY <1>1, <1>2, <1>3, <1>4, <1>5 DEF LockInv

LEMMA ClockStep ==
  ASSUME SleepsInTime, TypeInv, TypeInv', SleepOnlyInLauncher, ClockInv, LockInv, [Next]_vars
  PROVE  ClockInv' /\ LockInv'
<1>1. ASSUME UNCHANGED timeVars PROVE ClockInv'
  BY <1>1 DEF ClockInv, timeVars, ToInactivity
<1>2. ASSUME ui' \in {NoTree, ui}, isUnlocked' = isUnlocked, sleepTimer' = sleepTimer,
             phase' \in {"fds", "timers"} => ui' = NoTree \/ phase \in {"fds", "timers"},
             visible' = visible \/ visible' = TRUE
      PROVE  LockInv'
  <2>1. NoTree.kind # "launcher"
    BY DEF NoTree
  <2> QED
    BY <1>2, <2>1 DEF LockInv
<1>3. CASE Input
  <2>1. CASE phase' = "crashed"
    <3>1. ui' = NoTree /\ UNCHANGED <<viewVars, timeVars>>
      BY <1>3, <2>1 DEF Input, PowerShort, PowerLong, OtherInput, Unlock, CloseScreenshot,
           PowerDialog, TapApp, TapKill, TapCrash, Event, EndEvents, AfterEvents, Crash
    <3> QED
      BY <1>1, <1>2, <2>1, <3>1 DEF viewVars, timeVars
  <2>2. CASE phase' # "crashed"
    <3>1. /\ Counting(sleepTimer')
          /\ ~visible' => ~visible \/ isUnlocked
      BY <1>3, <2>2, InputTimer DEF ClockInv
    <3>2. PICK unlocked \in {TRUE, isUnlocked} : Event(unlocked)
      BY <1>3, <2>2, InputTimer DEF ClockInv
    <3>3. TimerOK(sleepTimer')
      BY DEF TypeInv, TimerOK
    <3>4. inactivityCountdown' = Inactivity(unlocked) /\ UNCHANGED <<minuteDue, second>>
      BY <3>2 DEF Event
    <3>5. /\ inactivityCountdown' > 0
          /\ sleepTimer'.queued => ToSleep(sleepTimer') < ToInactivity'
      BY <3>1, <3>3, <3>4, InactivityReset
    <3>6. ClockInv'
      BY <3>1, <3>4, <3>5 DEF ClockInv
    <3> QED
      BY <3>1, <3>2, <3>6, EventLock
  <2> QED
    BY <2>1, <2>2
<1>4. ASSUME NEW orphan \in BOOLEAN, Tick(orphan)
      PROVE  ClockInv' /\ LockInv'
  BY <1>4, TickClock
<1>5. CASE UpdateStoppedApps
  BY <1>1, <1>2, <1>5 DEF UpdateStoppedApps, timeVars
<1>6. CASE TimersDone
  BY <1>1, <1>2, <1>6 DEF TimersDone, EndEvents, AfterEvents, timeVars, viewVars
<1>7. CASE ChangeDrafts \/ Quit \/ ChildStep \/ SignalHandler \/ UNCHANGED vars
  BY <1>1, <1>2, <1>7 DEF ChangeDrafts, Quit, ChildStep, SignalHandler, childFrame, vars,
       loopVars, timeVars, viewVars
<1>8. CASE Restart
  <2>1. /\ sleepTimer' = NoTimer /\ inactivityCountdown' = InactivityTimeout /\ ui' = NoTree
        /\ minuteDue' = FALSE /\ visible' = TRUE
    BY <1>8 DEF Restart
  <2>2. Counting(NoTimer) /\ ~NoTimer.queued
    BY DEF NoTimer, Counting
  <2>3. ClockInv'
    BY <2>1, <2>2, TimeoutAssumption DEF ClockInv
  <2> QED
    BY <2>1, <2>3 DEF LockInv, NoTree
<1> QED
  BY <1>3, <1>4, <1>5, <1>6, <1>7, <1>8, InactivityClock, SecondClock, WakeClock
     DEF Next, Loop

LEMMA ClockInit == Init => ClockInv /\ LockInv
<1> SUFFICES ASSUME Init PROVE ClockInv /\ LockInv
  OBVIOUS
<1>1. /\ sleepTimer = NoTimer /\ inactivityCountdown = InactivityTimeout /\ ui = NoTree
      /\ minuteDue = FALSE /\ visible = TRUE
  BY DEF Init
<1>2. Counting(NoTimer) /\ ~NoTimer.queued
  BY DEF NoTimer, Counting
<1> QED
  BY <1>1, <1>2, TimeoutAssumption DEF ClockInv, LockInv, NoTree

LEMMA ClockInvariant ==
  ASSUME SleepsInTime
  PROVE  Spec => [](ClockInv /\ LockInv)
<1>1. TypeInv /\ TypeInv' /\ SleepOnlyInLauncher /\ ClockInv /\ LockInv /\ [Next]_vars
      => ClockInv' /\ LockInv'
  BY ClockStep
<1>2. Spec => []TypeInv
  BY AppInvariant, PTL
<1> QED
  BY <1>1, <1>2, ClockInit, NoSleepUnderApp, PTL DEF Spec

\* Whatever order presses, taps, deaths, ticks and timeouts come in, also when the
\* tick that locks runs before the events of its round: a locked device shows rocket.
THEOREM LockedShowsLauncher ==
  ASSUME SleepsInTime
  PROVE  Spec => []LockedInLauncher
<1>1. LockInv => LockedInLauncher
  BY DEF LockInv, LockedInLauncher
<1> QED
  BY <1>1, ClockInvariant, PTL

\* No second timer ever counts a countdown down beside the handle's: it is not
\* ahead of the clock.
THEOREM CountdownIsOnTime ==
  ASSUME SleepsInTime
  PROVE  Spec => []CountdownFollowsClock
<1>1. ClockInv => CountdownFollowsClock
  BY DEF ClockInv, Counting, CountdownFollowsClock
<1> QED
  BY <1>1, ClockInvariant, PTL
=============================================================================
