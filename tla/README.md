# A TLA+ model of rM2-stuff

rM2-stuff is the third-party software of a reMarkable 2: a launcher (`rocket`),
a terminal (`yaft`), a calculator (`tilem`), the UI framework they share
(`rMlib`), a framebuffer server (`rm2fb`) and a free implementation of the
e-paper controller (`swtcon`). This directory models the parts of it in which
order, time and failure matter, checks them with TLC on small instances, and
proves the most important results with TLAPS.

## 1. The system

| component | state | operations | interacts with |
|---|---|---|---|
| rocket: process manager (`apps/rocket/App.*`) | run infos (pid, paused), pipe | launch, pause, resume, stop, update; SIGCHLD handler | launcher, kernel |
| rocket: launcher (`Launcher.*`) | list of apps, current/previous path, visible, locked, sleep and inactivity timers | power button, taps, timers, `updateStoppedApps` | process manager, event loop, drafts on disk |
| rocket: lock screen (`Lockscreen.*`) | digits typed, attempts | type, delete, unlock, power off | launcher |
| rocket: screenshot viewer (`Screenshoter.*`) | selection, choices, dialogs | select, crop, choose, copy | launcher, shell commands |
| rocket: status bar, configuration | battery, clock | periodic read | launcher |
| rMlib: event loop (`UI/AppContext.h`, `UI/Timer.h`) | timer queue, later calls, listened file descriptors | `step` | every app |
| rMlib: widgets and render objects (`UI/*.h`) | dirty flags, cached sizes, current touch, navigator stack, futures | rebuild, layout, draw, handleInput | event loop |
| rMlib: input (`Input.*`) | devices, touch slots, pen state | read a batch of evdev events | event loop, udev |
| rm2fb: server (`rm2fb/Server.cpp`) | control socket, TCP clients | update request, init check, remote input | clients, swtcon, uinput |
| rm2fb: client (`rm2fb/Client.cpp`, `IOCTL.cpp`) | one datagram socket | send update and wait, init check | server |
| rm2fb: input devices (`InputDevice.cpp`) | uinput slots | remote touch to evdev events | server |
| rm2fb: version hooks (`rm2fb/Versions`) | hooked functions, update semaphore | init, update, wait for init | xochitl |
| swtcon: threads (`SwtconState.cpp`, `Vsync.cpp`, `fb.cpp`) | update list, generator thread, vsync thread, 16 pan buffers | update, clear, blank, shutdown | framebuffer driver |
| swtcon: waveforms (`Waveforms.cpp`) | the panel's tables by temperature | read, expand, choose | updates, generator |
| yaft: keyboard (`keyboard.cpp`, `layout.cpp`) | key states, modifiers, layout | key down/up, repeat timer | terminal |
| yaft: terminal and screen (`YaftWidget.*`, `screen.*`) | dirty lines, orientation, mouse | read, draw, refresh, mouse, folio | program in the terminal, keyboard |
| tilem (`apps/tilem`) | keys held per pointer, dialog state | key press/release, load | emulator library |
| unistdpp (`libs/unistdpp`) | file descriptors | read/write all, poll | all |
| tools, tests, vendored code | | | |

Threads and processes: rocket, yaft and tilem are single-threaded event loops
(`AppContext::step`); the apps rocket starts are processes of their own; rm2fb's
server is one loop over sockets, its clients are other processes; swtcon has a
generator and a vsync thread. What is hard in each is listed under `hazards` in
`PROJECT.json`, at the line where it bites.

What makes each component correct:

- process manager and launcher: no process is lost, two apps never execute at
  once, the app in front is not paused, the device sleeps only from the
  launcher and locks before it does, deaths are noticed, an idle device sleeps;
- lock screen: powers off after five wrong codes, whatever is built in between;
- screenshot viewer: what is copied is what was selected, chosen and confirmed;
- render objects: the panel shows what the state says, although only what is marked is
  built, laid out, drawn and sent; every object knows where it is seen;
- event loop: a timer runs at its time and once per period, disabled timers
  never run, the timer popped is the timer that ran;
- rm2fb: an update is answered once and to the one who asked, a client that
  breaks does not stop the others, every connected client sees every update;
- swtcon: a pan buffer is not written while it is shown, every update submitted
  is shown, clear and shutdown end;
- swtcon: waveforms: an update drives every change of level as the panel's file says;
- input: a touch that goes down comes up, slots are not mixed up, nobody is left with a
  touch that is gone;
- terminal: what the program wrote is shown, its end ends yaft;
- keyboard: a key pressed is released, sticky modifiers apply to one key.

## 2. Modules

| module | models | extends |
|---|---|---|
| `AppManager` | `App`, `AppRunInfo`, `AppManager` and the child processes | |
| `Launcher` | `LauncherState`, the round of `AppContext::step`, the sleep timer | `AppManager` |
| `LauncherProofs` | theorems about `Launcher` | `Launcher` |
| `Display` | what the framebuffer server promises the threads that update (abstract) | |
| `Rm2fb` | `serverMain`, `sendUpdate`, `open`, viewers; implements `Display` | `Display` (INSTANCE) |
| `MCRm2fb` | which threads share a socket, for TLC | `Rm2fb` |
| `Rm2fbProofs` | theorems about `Rm2fb` | `Rm2fb` |
| `Keyboard` | `KeyboardRenderObject` and the choice of its layout in `YaftState` | |
| `MCKeyboard` | which attached keys are modifiers, for TLC | `Keyboard` |
| `KeyboardProofs` | theorems about `Keyboard` | `Keyboard` |
| `Touch` | touch, pen and key devices from the kernel's reports (real or made by rm2fb's server) to a gesture detector, the calculator's keys or the terminal's mouse | |
| `TouchProofs` | theorems about `Touch` | `Touch` |
| `FrameRing` | what the ring of pan buffers promises (abstract) | |
| `Swtcon` | `SwtconState` and the vsync thread; implements `FrameRing` | `FrameRing` (INSTANCE) |
| `SwtconProofs` | theorems about `Swtcon` | `Swtcon` |
| `Waveforms` | the panel's file, its tables, the temperature and the updates that use them | |
| `WaveformsProofs` | theorems about `Waveforms` | `Waveforms` |
| `UILayout` | rectangles, constraints, and the layout of every widget | |
| `RenderObjects` | update, rebuild, layout, cleanup and draw of every render object | `UILayout` |
| `AppScreens` | the widgets rocket, tilem and yaft build | `RenderObjects` |
| `RenderTree` | one app's tree, framebuffer and panel in the rounds of `step` | `RenderObjects` |
| `Terminal` | yaft's terminal: output, dirty lines, folio, signal | |
| `TerminalProofs` | theorems about `Terminal` | `Terminal` |
| `Screens` | the lock screen and the screenshot viewer | |
| `UIProofs` | theorems about `UILayout` and `Screens` | both |
| `MCTouch`, `MCRenderTree`, `MCTerminal`, `MCScreens`, `MCWaveforms` | values for TLC | the module of that name |

### AppManager

`am` is one record: the state of each app's process (`proc`), the `paused` flag of
its run info, whether SIGTERM reached it, and whether SIGCHLD is pending. An app
has at most one run info, and the run info outlives the process until `update` has
read its pid from the pipe; so `proc` has the values `zombie` (dead, not waited
for) and `reaped` (its pid is in the pipe), and `isRunning` is "not `none`". The
member functions are operators from a manager to a manager (`Pause`, `Resume`,
`Terminate`, `Update`, ...), because a handler of the launcher makes several of
these calls in one step. The children move by `Setpgid` and `Exit`, the handler by
`OnSigChild`.

`ForkRace` says whether the launcher can signal a child's process group before the
child has created it. Both happen on a real system; properties that hold only
without it say so.

### Launcher

One round of `AppContext::step` is split where something else can act or where the
order matters:

| `phase` | the code | actions |
|---|---|---|
| `idle` | rebuild, draw, poll | `Wake` (poll returns with a batch of events), `Second`, `Quit` |
| `fds` | callback of the pipe | `UpdateStoppedApps` |
| `timers` | `checkTimers` | `Tick`, `InactivityTick`, `TimersDone` |
| `input` | `handleInput` of each event | `PowerShort`, `PowerLong`, `Unlock`, `TapApp`, `TapKill`, `TapCrash`, `CloseScreenshot`, `PowerDialog`, `OtherInput` |

`ui` is the tree built at the start of the round. The events of a round are handed
to that tree, although the pipe's callback and the timers have changed the state
since; `Target` says what a widget's reference into `apps` then refers to. `batch`
counts the events left. Every event passes `onAny` first (`Event`). `TapCrash` is
the access to a run info or an app that is gone; the process ends and `Restart`
starts it over.

`known` is `LauncherState::apps`, a set because the vector is kept sorted by path;
`drafts` are the draft files on disk; `removeOnExit` holds the apps with
`shouldRemove`. The sleep timer is a record: the countdown, whether the handle's
timer is in the queue and due, and how many timers that were replaced while they ran
(orphans) are still ticking. `left` is a history variable: the time to sleep by the
clock. `Second` is the clock; it passes only while the loop waits and nothing is due.

What is abstracted: what the tree looks like beyond its kind and its app widgets;
icons, names, the saved screen; the digits of the passcode (`Unlock` is the lock
screen's callback, and `Passcode = FALSE` a device without one, where the lock
screen's constructor unlocks); the suspend commands (`SleepOutcome`); the commands
of the confirmed power dialog, which end the machine.

### Rm2fb

A drawing is a number: `last` is the newest, `fb` the one the shared buffer holds,
`panel` the one on the e-paper. There is one region (two regions would only tell apart
which part of the screen is old), and an update is of kind `area`, or `pixel` when both
corners of its region are the same point; an init check is of kind `check`.

`phase` is the place in `serverMain` at which the server last stood where somebody else
can act between two steps:

| `phase` | the code | actions |
|---|---|---|
| `start`, `init`, `restore` | lines 277-288 | `Backup`, `InitThreads`, `Restore` |
| `poll` | 300-316 | `Poll`: builds the poll list and keeps the results (`polled`, `acceptable`) |
| `control` | 319-327 | `InitCheck`, `TakeUpdate` |
| `update`, `stream` | 329-343 | `DoUpdate`; `Stream` to one connection after the other; `Answer` |
| `accept` | 351-360 | `Accept` |
| `read` | 362-387 | `SkipClient`, `ReadMessage`, `ReadEof` for one connection after the other; `Erase` |

`polled` holds the results by index, as the code has them, while `tcpClients` changes
under them. `Kept` says what `std::remove_if` and `erase` may leave. A write to a
connection (`DoTCPUpdate`) succeeds, fails and closes it, or waits while its buffers
(`Window` frames) are full. A thread is `waiting` from `sendto` to `recvfrom`; the
threads with one `SocketOf` are one process, and any of them takes an answer. `safe` is a
history variable: the last drawing that no start may lose. It follows `Draw` except between
`Backup` and `Restore`, and a `Crash` sets it to what the buffer holds. `Crash`
ends the server anywhere; systemd keeps the two listening sockets (`rm2fb.socket`), so
`queue` and the backlog survive, and starts it again (`Restart=on-failure`); `queue` is
a datagram socket, its messages arrive in order. `Exit` ends a process, whatever its
threads are doing.

What is abstracted: pixels, waveforms and the other fields of `UpdateParams`; the input
devices behind `Input` and `PowerButton`; messages of a viewer that arrive in parts (the
server would wait for the rest); a reset that discards what a viewer had sent; the
emulator (`inQemu`) and the start without systemd. Writing to a viewer that has left
fails with an error and no signal, as systemd ignores SIGPIPE for its services.

`Display` is what the threads rely on: a call is performed between its begin and its
return, and then the panel shows at least what had been drawn before the call. `Rm2fb`
implements it with `shown <- panel` and `call` computed from `pc` and `performed`.

### Keyboard

`keyState` is split into functions and sets over the keys: `slot`, `stuck`, `held`,
`dirty` and `next`, the time left to `nextRepeat` (kept only while the key has a slot,
as it is only read then). `physDown` and `physNext` are `physKeyState`. `drawn` is what
the framebuffer shows of each key and `drawing` is `mNeedsDraw`.

| the code | actions |
|---|---|
| `handleTouchEvent` | `TouchDown` (with `sendKeyDown` and `clearSticky`), `TouchUp` |
| `handleKeyEvent` | `KeyPress`, `KeyRelease` |
| `updateRepeat`, run by a timer | `UpdateRepeat` |
| `build`, `update` with `updateLayout`, `doLayout`, `doDraw` | `Redraw` |
| `onDeviceUpdate`, `checkLandscape` and its timer | `Plug`, `CheckLandscape` |

`Tick` is the clock; it passes while the loop waits in poll, that is, after a redraw. The
repeat timer may be late by `MaxLate`, and then catches up. A touch that comes down beside
the keys finds no key and changes nothing, so it is no action. `finger`, `keyDown` and
`pogo` are the world: which key each finger came down on, which keys of the attached
keyboard are really down, and whether it is attached. `sent`, `typed`, `fired` and `quiet`
are history variables. The orientation is the configuration's `Auto`.

What is abstracted: where a key lies, which character it stands for, and the bytes the
terminal gets for it.

### Touch

One module follows a touch through all its owners: `kernel` is what the kernel holds of a
device, `queue` its reports the app has not read, `synced` and `td` are libevdev's and
`TouchDevice`'s view, `opened` is `InputManager::devices`, and `current`, `keys`, `mouse`
are what three receivers keep of a touch.

| the code | actions and operators |
|---|---|
| `UinputTouchDevice` and the others: `sendTouch`, `sendPen`, `sendButton` | `SendTouch`, `SendPen`, `SendButton` |
| a finger on the panel, the pen (drivers, external) | `Finger`, `BothUp`, `Stylus` |
| `InputManager::flood` | `Flood` |
| a server that restarts; `udev_monitor_receive_device` | `TakeAway`, `Create` |
| `waitForInput`: poll and udev, then one device after the other | `Poll`, `Read` |
| `readEvents`, `handleEvent` | `ReadReport`, with `Handle` and `Reported` for each kind of device |
| libevdev after `SYN_DROPPED` (external) | `SyncReports` |
| `GestureRenderObject::handleInput`, `KeypadRenderObject`, `ScreenRenderObject` | `GestureInput`, `KeypadInput`, `MouseInput` |

The kernel drops values that do not change and codes a device does not have, and puts
`SYN_DROPPED` in place of reports nobody read. It tells of a change of slot only with the
first value of that slot that changes: `Told` is what a reader of everything passed on knows.
No tracking id is used again while the app knows it or has yet to be told of it (`InUse`). `down`, `paired` and `unseen` are history.
`Setups` says which devices and which receiver are looked at together.

### Swtcon and FrameRing

Every access to a variable that the vsync thread, the generator and the callers of
`doUpdate` share without a lock is a step of its own. `cur` and `last` are
`currentPanPhase` and `lastPanPhase`, `clean` is `dirtyClearCount`, `ring` says which
frame is in each pan buffer. The generator is a function of xochitl's binary
(`Addresses.h`), modelled from what the rest expects of it; `FrameRing` is what both
together promise: frames come to the panel in order, at most once, and whole.

### Waveforms

`Find` looks for the file with the panel's lot, `Load` expands its tables (runs, rows, end
mark) and packs them by transition, eight phases to a word, `updateTemperature` chooses an
entry, `actualUpdate` takes size and form of an update from it and mirrors its region. The
values are real ones: the properties compare them with the matrices of the file
(`MatrixAt`, `Drive`). The loops that read and pack are recursive functions over the
bytes of a table (`ReadUpTo`) and the phases of a transition (`PackUpTo`), with one
operator for a turn of the loop (`ReadByte`, `PackPhase`).

### UILayout, RenderObjects, AppScreens, RenderTree

A render object is a record with the marks, caches, constraints, size and rectangle the
class has; a method is an operator that returns the object as the method leaves it.
Widgets are records too, and `AppScreens` nests them as the `build` methods do, with sizes
scaled down and rows of a kind shown once or twice. A stateful widget lists what it builds
in each of its states, and where its handlers lead. `RenderTree` is the loop: `Frame`
(rebuild, layout, cleanup, draw, `doUpdate` of the drawn region), then any number of
`setState` and `stateFrameCallback` (tilem's timer) until `EndStep` (`reset`). `canvas` is
the framebuffer and `panel` what was sent of it. `places` is a history variable: where each
`Cleared` was drawn since it was last filled.

`UILayout` has no objects in it, and no recursion over trees: `ChildCons`, `WidgetSize` and
`ChildRect` say for every kind of widget what it asks of its i-th child, its size by those of
its children, and where it draws them. `RenderObjects` lays out and draws with these operators,
and `UIProofs` proves about them.

### Terminal

| the code | actions |
|---|---|
| the program: output, end (external) | `Write`, `Exit` |
| `sigHandler` | `sigHandler` |
| `isStopped` before poll | `Check` |
| rebuild, layout, `ScreenRenderObject::doDraw` | `Frame` |
| poll, the terminal's callback, `onDeviceUpdate`, timers, the key that hides the keyboard | `Round` |
| attaching the folio, and the file in /sys that tells of it | `Attach`, `Report` |

A program writes operations (text, cursor, scrolling, mode), a read takes as many as its
buffer holds. `phase` is the place in the loop at which a signal makes a difference.

### Screens

The state of the lock screen and of the viewer lives as long as the launcher shows them:
`Build` is a build of the launcher, which makes the state anew when another screen was
shown before. Between two builds several touches reach one tree (`taps`). `file` is the
code in xochitl.conf, which may change. `crop` is the edited screenshot on the disk,
`simulated` the choices the confirmation was made for.

## 3. Runs

A property in parentheses is a named part of the conjunction before them.

Bounds: `App` has one or two members (two are what switching, previous/current and
"two at once" need, and a third is only another previous app that is not looked at);
`MaxBatch` is the number of events one poll returns (two let an event act on what the
one before it changed); `MaxOrphans` the number of replaced timers that still run;
`SleepTimeout`, `RetryTimeout`, `InactivityTimeout`, `LockedInactivity` and `Minute`
are scaled down (1 to 4) so that every countdown is started, interrupted and ended in
every order; `Floor` ends the countdown below zero, where its value is not looked at.

| run | expects | instance | shows |
|---|---|---|---|
| `LauncherApps` | pass | 2 apps, 2 events, drafts change, no clock | `TypeOK`, `AppsTracked` (`FocusRunning`, `OnlyCurrentUnpaused`, `NoLostProcess`), `HiddenHasApp`, `OneForeground`, `NoneLeftStopped` |
| `LauncherSleep` | pass | 1 app, passcode, clock, 1 orphan, fair | `SleepOnlyInLauncher`, `LockedInLauncher`, `CountdownFollowsClock`, `IdleSleeps` |
| `LauncherDeaths` | pass | 2 apps, late setpgid, failing fork, fair | `DeathsNoticed` (`DeadAreForgotten`, `LauncherReturns`) |
| `Rm2fbCalls` | pass | 2 programs, 1 viewer, a drawing, 2 frames on the way, fair | `TypeOK`, `UpdateIsShown` (`Display` is implemented), `EveryoneServed` (`CallsReturn`, `ViewersFollow`) |
| `Rm2fbViewers` | pass | 2 threads on one socket, 2 viewers, a drawing, a crash | `NeverBlocks` (`ReadNeverBlocks`, `AcceptNeverBlocks`), `AnswersMatchCalls`, `DrawingKept` |
| `Keyboard` | pass | 2 fingers, shift, a letter, escape, 2 attached keys, fair | `TypeOK`, `SlotsMatchFingers`, `DrawnIsCurrent`, `ChordEnds`, `RepeatsOnTime` (`NothingEarly`, `LongPressOnce`), `KeysLetGo` (`LongPressActs`, `DetachedKeysStop`) |
| `Touch` | pass | 2 fingers, a remote touch, 2 pens, a button, each with its receivers; overflow, flood, restarts | `EventsPaired`, `ViewComplete` (`TypeOK`, `CaughtUp`, `NoFreedRead`), `TouchesLeave` (`DetectorsFree`, `KeysReleased`, `MouseReleased`) |
| `Swtcon` | pass | 2 callers, 2 buffers, 2 updates of up to 2 frames, fair | `RingConsistent` (`TypeOK`, `FramesKept`, `BuffersCounted`), `FramesNotStranded` (`LitFrames`, `NoLostWakeup`), `ShowsInOrder` (`FrameRing` is implemented), `EverythingEnds` (`Returns`, `AllShown`) |
| `RenderTree` | pass | every screen of `AppScreens` on 16 by 20 cells | `ShowsState`, `RectsCurrent`, `AssertionsHold` (`TypeOK`, `SizesFit`, `OnCanvas`) |
| `Terminal` | pass | 2 lines, 2 operations, 2 turns of folio and keyboard, fair | `PanelFollows` (`TypeOK`, `TextIsShown`, `NoStaleCursor`), `LandscapeFollows`, `PollWakes` (`OutputSettles`, `ChildEnds`) |
| `Screens` | pass | 2 digits, 3 codes, 3 positions, 2 values for each choice | `OffAfterFive`, `ShownIsCopied` (`TypeOK`, `CropIsSelection`, `SpinsMatch`, `CopyIsWhatIsShown`) |
| `Waveforms` | pass | 2 levels, tables of up to 2 chunks in 2 sizes of file, 3 ranges | `RightTables` (`TypeOK`, `SignaturesDiffer`, `WaveformsFitTemperature`), `UpdateDrivesAsFile`, `RegionIsCovered` |

Bounds of the server: two programs are what a stale answer and a drawing during
another's update need; two viewers are the least that move under the poll results (one
stays while another is accepted or erased); one crash reaches every phase, because every
phase can be the one it interrupts; `Window` and `MaxInbox` are 1 or 2, so that a
connection is full and a message is left for the next round. `CHECK_DEADLOCK` is off in
the runs of the server: when every program has ended and every viewer has gone, it waits
in poll for ever. `UpdateIsShown` is checked with one socket for each thread: with a
shared one a thread can take the answer to another's call, and return before its own
was performed; `AnswersMatchCalls` is what is left then. A call whose message a crash
has swallowed waits for ever, which is why `CallsReturn` is checked without crashes. `Rm2fbViewers`
exchanges viewers, and threads of the one socket, by symmetry, and its view (`Relevant`) leaves
out what no guard and none of its properties depends on; it has only safety properties. One
drawing is enough there: it is made before the crash, between it and the new start's copy,
between the copies, or after.

Bounds of the keyboard: two fingers are what a chord and two fingers on one key need; one
modifier, one letter and one long-press key in each layout are one key of each kind; delays
of one tick and a timer up to two ticks late let a repeat come twice before the loop draws.
Two things are assumed of the world: nobody types in the 100 ms between attaching a keyboard
and `pogoTimer` (else a layout that never changed keeps the key down for ever), and a
keyboard stays off in the end (`DetachedKeysStop`: one that is taken off and attached again
within 100 ms leaves its keys repeating until they are pressed again).

Bounds of the touches: two slots are what mixing them up needs; one report in the queue
makes the second an overflow; tracking ids are a counter of 16 bits, so one is not handed
out while the app still knows it. A device is used once the app has opened it. `Touch` may
stop (`CHECK_DEADLOCK` is off) when a device that nobody replaces is gone.

Bounds of swtcon: two buffers fill and wrap around with two frames; two updates meet in the
list; two callers wait together. `Done` is the state after the destructor, so that the run
checks that nobody waits for ever before it.

Bounds of the tree: cells and insets are scaled down so that every screen just fits, and
insets are equal on all sides; a border that changes with its button is drawn as one.
Events may set any state a handler leads to, several in one round. Of a spin's values the
shortest and another one are enough: the copy dialog grows and gets smaller between them.

Bounds of the terminal: two lines are a cursor's old and new one, two operations are read at
once, which fills the buffer, or one after the other, which does not; the layouts take one line or two. The clock of the
folio's timer is left out: a timer may run out at any time, except that one added after the
folio's last change runs out after its file in /sys has followed (100 ms). The terminal may
stop when the program is gone.

Bounds of the screens: two digits and codes of at most two are a right, a wrong and a
missing code; three positions are an empty and a valid selection and one in the controls.
After the power off nothing is typed.

Bounds of the waveforms: two levels, 16 by 4 pixels and a row of up to two values; runs of
2 and 10 repetitions make tables of up to ten phases, which fill more than one word.
`Waveforms` stops when no file is found.

Some guarantees end at a condition the runs and theorems name. Where fork fails,
`switchApp` returns after it has hidden the launcher and paused the current app
(`HiddenHasApp` needs `ForkFails = FALSE`; the next press of the power button would pause
that app again). Where a child is slow to run setpgid, the signal that is to pause it
finds no process group, and it executes next to the app in front (`OneForeground` needs
`ForkRace = FALSE`). Without a passcode every rebuild of the visible launcher makes a
lock screen whose constructor unlocks and puts the inactivity countdown back, also the
rebuild that the minute timer causes: `IdleSleeps` needs `Passcode = TRUE`. And
`IdleSleeps` is checked with suspends that work.

Where the code departs from its own comments and documents, a constant of the module turns
the case on, and TLC then finds the property violated:

| constant | property | the case |
|---|---|---|
| `SleepFails = TRUE` (`Launcher`) | `CountdownFollowsClock` | Readme.md:32-33 gives the drawer 10 seconds; after a suspend that failed, `startTimer` replaces the handle of a timer that still runs (`Timer.h:17` does not disable it), both tick, and the device sleeps early |
| `OnePixel = TRUE` (`Rm2fb`) | `UpdateIsShown` | Server.cpp:323 takes equal corners for the empty message of an init check; both corners belong to a region, so an update of one pixel is answered and never shown |
| `QuietUnplug = FALSE` (`Touch`) | `NoFreedRead` (`ViewComplete`) | Input.h:118 says unplugged devices are removed; `waitForInput` removes one between poll and its read (Input.cpp:442, 453), and one that leaves events unread is read after it was freed |

Server.cpp:283-285 says that what the shared memory holds at a start is preserved.
`DrawingKept` says so of what it holds at line 286; what a program draws between lines 286
and 288 of a restart is overwritten by the older copy, and `safe` does not count it.

A read of the terminal that fills its 512 bytes asks for no frame: "Otherwise more data is
comming probably" (YaftWidget.cpp:114-115). When no more comes, what was read is in the
terminal and not on the panel until something else asks for a frame. `OutputSettles` names
that case (`FilledExactly`) and promises nothing for it; without that disjunct TLC finds it
violated after two operations.

The copy dialog of the screenshot viewer is as wide as its spins' values (Screenshoter.h:42-61),
its border moves with it, and the stack below is not drawn again (Stack.h:21, with the flag of
Screenshoter.h:181). When a value gets shorter, the old place stays white over the screenshot;
when it gets longer, the screenshot is seen between the new border and the old place, because
`Cleared` fills its place only when it is drawn in full itself. `ShowsState` holds exactly
everywhere else; in these cells (`Outgrown`) it says which of the two is seen, and it is exact
again when the dialog is closed. Without the exception TLC finds it violated, in both ways.

In `Launcher`, the X of an app that died earlier in the same round reaches `App::stop`
without a run info, against the assertion there (App.cpp:157): `TapCrash`.

`LockedInLauncher` is not checked with failing suspends: there an orphaned timer can
tick twice in one round, the second tick locks after the round's launcher tree was
built, and a tap on that tree opens an app on a locked device.

Fairness: `WF(Loop)` because the loop runs on by itself and poll returns when
something is readable or due; `SF(Tick)` and `SF(InactivityTick)` because
`checkTimers` runs every timer that has expired in each round, although other
events may keep coming; `WF(Second)` because time passes; `WF(SignalHandler)` because
the kernel delivers a pending signal. Nothing makes users press, apps end or a crashed
launcher start again, so the liveness properties end when rocket has ended.

Fairness of the server: `WF(Server)` because its loop runs on; `WF(Receive(t))` because
a thread in `recvfrom` is woken by an answer; `WF(ReadFrame(v))` because a viewer's event
loop reads its socket. The last is a real assumption: a viewer that stops reading with
its connection open stops the server, and every program with it.

Fairness of the keyboard: `WF` of `Redraw`, `UpdateRepeat` and `CheckLandscape`, because the
loop draws in every round and runs its timers when they are due; `SF(Tick)` because every
touch is handled in no time and time passes between touches. Nothing makes a finger leave,
so `LongPressActs` is about a finger that stays.

Fairness of swtcon: `WF` of the constructor, the generator and the vsync thread, and of what
a caller and the destructor have begun, because threads run on; posting an update and
destroying the state are the app's choice. Updates are bounded, so nobody who waits for the
list to become empty is passed by for ever.

Fairness of the terminal: `WF` of the loop's steps, because it runs on; of `Report`, because
the driver tells of the folio in time; and of `sigHandler`, because the kernel delivers a
signal. Nobody has to write, touch, attach or exit.

## 4. Proofs

### Launcher

`LauncherProofs` proves, for any set of apps, any timeouts and any bounds:

| theorem | of |
|---|---|
| `TypeCorrect` | `TypeOK` |
| `AppsAreTracked` | `AppsTracked`: `FocusIsRunning`, `ProcessesAreListed`, `OneUnpaused` for its parts |
| `HiddenLauncherHasApp` | `HiddenHasApp`, where fork does not fail |
| `OneAppExecutes` | `OneForeground`, where children run setpgid in time |
| `EndLeavesNoneStopped` | `NoneLeftStopped` |
| `NoSleepUnderApp` | `SleepOnlyInLauncher` |

The type invariant is not inductive: a timer's `orphansDue` must not exceed `orphans`
(they become each other every second) and the input phase needs an event left
(`TypeInv`). `FocusRunning`, `NoLostProcess` and `OnlyCurrentUnpaused` need one
another (`AppInv`): `show` pauses the app it finds by `currentAppPath`, so that it is
the only unpaused one needs the path to be up to date and the app to be listed. Lemmas
`ShowApps`, `SwitchApps`, `HideApps` and `UpdateApps` establish `AppInv` for the
operations the handlers share, and `AppInvStep` goes through the actions. `Marked`
relates the paused flags to the signals: a stopped process is marked paused, and, where
setpgid is in time, a process marked paused that executes was told to end; with
`AppInv` this gives `OneForeground`, and because `~AppManager` continues what is
marked, `NoneLeftStopped`.

`LockedShowsLauncher` and `CountdownIsOnTime` assume `SleepsInTime`: suspending does not
fail, and the countdown is shorter than either inactivity timeout less a minute. The code
has 10 seconds against 20 and 2 minutes (Launcher.h:21-23, Launcher.cpp:389).
The argument is that `startTimer` never replaces a timer that still runs. `Counting` says
so of the timer (no orphans; the countdown is at least what the clock has left), and what
rules a restart out is a second relation in `ClockInv`: while a countdown runs, what is
left of it (`ToSleep`) is less than what is left of the inactivity timeout
(`ToInactivity`), so the minute timer cannot start another one. Then one tick at most falls
into a round, and the tick that locks finds the tree of the suspended screen and not the
launcher's (`LockInv`). Both results end where a suspend fails; section 3 has the case.

Only model-checked: the liveness properties.

### Rm2fb

`Rm2fbProofs` proves, for any threads, sockets, viewers and bounds, and where the table
names no condition with crashes and updates of one pixel:

| theorem | of |
|---|---|
| `Rm2fbTyped` | `TypeOK` |
| `ServerNeverBlocks` | `NeverBlocks` |
| `DrawingIsKept` | `DrawingKept` |
| `AnswersMatch` | `AnswersMatchCalls` |
| `UpdatesAreShown` | `UpdateIsShown`: `Rm2fb` implements `Display`, where each thread has its own socket, the server does not crash and no update is of one pixel |

`TypeInv` adds what the types rest on: the control socket is not empty in phase
`control`, and within a round there are at least as many connections as poll results.
`LoopInv` is the argument for `ServerNeverBlocks`: the accepted connections are distinct
and no longer in the backlog; each one whose turn is still to come in this round
(`ToRead`) is closed, or still has what poll reported; and a connection to accept is
still there. `LoopFrame` says which steps keep it (those that take input only from the
connection at the cursor), `LoopAccept` that appending does not move the connections
poll has seen, `LoopErase` that erasing leaves distinct connections, and `LoopReads`
that reading from one connection takes nothing from another.

`KeptInv` is the argument for `DrawingKept`: what must not be lost (`safe`) is in the buffer
except while the controller's threads have just whited it, and it is in the copy from
`Backup` to `Restore`, or a later drawing in its place. `DrawInv` is the part about the first
start: until the server has run for the first time nobody was answered, so nobody draws, and
the copy it restores is the empty buffer.
`CallsInv` counts, for every socket, the messages in the queue, the one at the server and
the answers (`Answers`): never more than the calls that wait, and exactly as many before a
crash. The threads may be infinitely many; those that wait are not, which is part of it. For
`UpdatesAreShown`, `DisplayInv` says of each call where it is (`QueuedCall`, `HandledCall`,
`AnsweredCall`) and that it was performed if and only if it has left `update`; the lemmas
then map every action to a step of `Display` or to none.

The three conditions of `UpdatesAreShown` are the ones its run has, and section 3 says what
happens without them. Only model-checked: the liveness properties.

### Keyboard

`KeyboardProofs` proves, for any keys, fingers, layouts and delays:

| theorem | of |
|---|---|
| `KeyboardTyped` | `TypeOK` |
| `SlotsAreFingers` | `SlotsMatchFingers` |
| `ChordsEnd` | `ChordEnds` |
| `RepeatsAreOnTime` | `RepeatsOnTime`: `NothingIsEarly`, `LongPressIsOnce` for its parts |
| `KeysAreDrawn` | `DrawnIsCurrent` |

`TypeInv` adds to the types that only keys of the layout are pressed, stuck or locked: this
is what makes the keys a draw goes through all the keys that can be dirty. With it
`SlotsMatchFingers` and `DrawnIsCurrent` are inductive. `ChordEnds` rests on `TypedFree` (a
modifier a key was typed with is not stuck), `NothingEarly` on `Timely` (`nextRepeat` is never
nearer than what is left of the delay) and `LongPressOnce` on `FiredNever` (a long press that
was acted on is hours away). The two liveness properties are only model-checked.

### Touch

`TouchProofs` proves, for any devices, setups, places, tracking ids and sizes of the
kernel's buffer:

| theorem | of |
|---|---|
| `TouchEventsPaired` | `EventsPaired` |
| `TouchViewComplete` | `ViewComplete` (`TypeOK`, `CaughtUp`, `NoFreedRead`), where `QuietUnplug` |
| `NoTouchLeft` | `TouchesLeave` (`DetectorsFree`, `KeysReleased`, `MouseReleased`), where `QuietUnplug` and `PointersApart` |

The three follow a report from the kernel to the receivers.

- What the app has yet to read leads from libevdev's view to the kernel's (`Known`): either
  the reports in the queue do so one after the other (`Chain`), or `SYN_DROPPED` stands for
  them. A report (`Leads`) is a path of events, each of which is `Proper`: it changes the
  view, and no touch begins in a slot whose last one has not ended. The second half is what
  a detector relies on, and it holds because a device's driver, and a viewer with its one
  slot, can only write what changes (`Passes`, proved for every kind of write).
- After an overflow, libevdev hands on the difference of the views. That this is a path of
  the same kind (`SyncTouch`, `SyncOthers`) needs that a touch that was replaced by another
  ends in a report of its own, and that a new touch never has the id of the one the view
  still shows: `NoReuse`, which `InUse` gives.
- Between two reports `TouchDevice` and the others agree with libevdev's view (`Between`),
  inside of one they are ahead by the changes (`Mid`). So the events of a report bring the
  touches the app was told of (`Held`) from one view to the next (`ReadTells`), and whoever
  comes down was not there, and whoever leaves was. This is `BaseInv`, which needs neither of
  the conditions.
- `QuietInv` adds that what a receiver keeps is a touch that some device still holds, or one
  whose end it was not shown (`GestureOK`, `KeypadOK`, `MouseOK`). Each event keeps this
  (`ReceiverStep`) and so does the end of a device.

`QuietUnplug` is needed because a device that leaves events unread is read after it was
freed (section 3). `PointersApart` asks of the calculator's devices that no two of them use
the same ids: one panel, one viewers' device and one pen. With two pens it would not hold:
both are pointer -1234, `emplace` (KeyPad.cpp:240) keeps the key of the first, and the key of
the second stays pressed. A reMarkable has one panel and one pen, and rm2fb's server adds a
second pen for its viewers: what the theorem leaves out is a person who holds a key of tilem
with the pen while a viewer holds another with his.

### Swtcon

`SwtconProofs` proves, for any callers, pan buffers, updates and frames:

| theorem | of |
|---|---|
| `RingIsConsistent` | `RingConsistent`: `TypeOK`, `FramesKept`, `BuffersCounted` |
| `FramesAreNotStranded` | `FramesNotStranded`: `LitFrames`, `NoLostWakeup` |
| `FramesInOrder` | `ShowsInOrder`: `Swtcon` implements `FrameRing` |

The counters are shared without a lock, so at most places in the threads they disagree.
`RingInv` says by how much: `Low` is the oldest frame whose buffer was not wiped yet and
`High` the one that is written next, both read off the places of the two threads; the
buffers from `Low` to `High` hold these frames and all others are clean (`Contents`), and
the clean ones are counted up to the one the vsync thread has wiped and not counted
(`Phases`). `Stages` is needed for the clear, which empties the ring without looking at it: it
happens before anything was posted. `Lit` says at which places a dark panel is lit again.
For the refinement, the frames that wait are the numbers from `cur` to `last`
(`WaitingIsFrames`).

### Layout and screens

`UIProofs` proves, for trees of widgets of any shape, size and depth, with any insets, positions,
flexes and texts:

| theorem | of |
|---|---|
| `LayoutKeepsConstraints` | the assertions of `RenderObject::layout`: a size is never the one that stands for no limit, and keeps the constraints the parent gave (`SizeKept`) |
| `DrawnWithinParents` | every object is drawn in a rectangle of its own size, within its parent's and the root's |
| `SiblingsApart` | no cell belongs to two children of a `Flex` or of a `Wrap` |

and `OffAfterFive` (`FiveWrongCodesPowerOff`) and `ShownIsCopied` (`ScreenshotIsAsShown`) for
any digits, passcode, positions and choices.

The three theorems about layout are about a tree after a frame. The tree is flat: `kids`, `cons`,
`size` and `rect` are functions of the object, and a level for each object makes it a tree. What
they assume is what the run of `RenderTree` checks of every object after every frame (`SizesFit`),
and not the result:

- `LaidOut`: an object was laid out by the operators of `UILayout`. That no mark or cache lets a
  size become stale is what the run shows. `DrawnTree` is the same for the rectangles; in the run
  `RectsCurrent` shows it, comparing with a draw of the whole tree.
- `WidgetOK`: the arguments have their types, and an object as many children as its kind has.
- `HasRoom`: the children of a `Flex` and of a `Wrap` fit (Flex.h:76-77 asserts the first, nothing
  asserts the second), an inset or a position is not larger than what there is, and what takes
  all there is has a limit. Without it the results are false: a border thicker than its limit
  leaves its child a rectangle of negative size.
- The root gets constraints that some size keeps, and a rectangle of its size.

For each kind of widget there are lemmas: what it asks of its children is sound (`ConsOK`) if it
was asked soundly, its size keeps its constraints if theirs do (`SizeOK`), and a child is put
into its rectangle (`Put`). Two of them take an argument:

- A `Flex` asks the expanded children after the fixed ones (`KeptAlone`, then `Kept`), and gives each
  flex / total of the rest, rounded down. `FlexLength` is that the shares together are not more than
  the rest: it compares total times the shares so far with the flexes so far times the rest.
- A `Wrap` finds the ends of its runs twice: its layout by the constraints, its draw by the
  rectangle, which may be smaller and in which the runs are centered. `WrapUpToIs` is that the draw
  turns at the same children (`TurnsAlike`), so that the number of the run it is in is how many
  runs the layout had by then, and `runSizes.at` gets the depth of that run; `RunsGrow` is that a run,
  once it has a child, keeps at least its length and depth.

`ConsKeep` and `SizesKeep` then go through the tree: sizes from the leaves to the root, each under
the condition that the object was asked soundly, and then what is asked from the root to the leaves.

In `Screens`, `ViewerInv` relates the state to the tree of the last build, which the taps of a round
still reach: before the first tap they agree (`Shown`), a dialog comes up with the choices its
spins start with, and a choice that was made is the spin's (`Fresh`).

### Terminal

`TerminalProofs` proves `PanelFollows` (`PanelFollowsTerminal`) and `LandscapeFollows`
(`LandscapeFollowsFolio`) for any lines, texts, layouts and size of the read buffer.
`PanelInv`: a line that is not dirty is on the canvas as the terminal has it, without a
cursor (`CleanLines`), and after a frame a line that stayed dirty is too (`DirtyLines`).
A read takes any number of operations; that none of them changes a line without marking it
(`Follows`) is an induction over them. `LandscapeInv`: the newest of the timers that wait was
added after the folio's last change.

### Waveforms

`WaveformsProofs` proves, for any serial numbers, bounds, temperatures, panels, regions, files and levels:

| theorem | of |
|---|---|
| `TablesAreRight` | `RightTables`: `TypeOK`, `SignaturesDiffer`, `WaveformsFitTemperature` |
| `UpdatesCoverTheirRegion` | `RegionIsCovered` |
| `UpdatesDriveAsFile` | `UpdateDrivesAsFile` |

The last one is the result about the data. A file is a sequence of runs, rows and end marks;
the code counts and expands its bytes, samples every transition's phases out of the
matrices, and packs eight phases to a word. The proof follows these loops. `Between` and
`Reached` are the reading loop's invariant: after a chunk, the output is that of the chunks before it
and the flags are as at a row's start (`FileDecoded`). `OffsetIsEntry` and `PhasesSampled`
say that the index the code computes is the entry of the transition's matrix. `PackInv` is
the packing loop's: the words written and the word begun have the phases so far as their
digits to the base 4 (`Packed`); `UnpackedAs` reads them back. `DriveSkips` covers the leading
phases that drive nothing, which partial updates leave out. `TablesInv` carries this from
the load to the updates.

### Induction

The library's induction theorems take an operator as a parameter and cannot be used with these
provers. Where the proofs need induction over numbers (`Touch`, `Terminal`, `Waveforms`, the layout) they use
that every nonempty set of numbers has a least member (`WFMin`, which has no such
parameter), with the set of the positions at which a statement holds: `LeastNumber`,
`Ascends`. That a recursive function equals its definition is proved in the same way for each
(`WrittenUpToDef`, `ReadUpToDef`, `ReceivedUpToDef`, `ParsedUpToDef`, `Recursion`).

### The rest

Of `RenderTree` the layout is proved. What its properties say of marks, caches and partial draws
(`ShowsState`, `RectsCurrent`, and that `SizesFit` holds of objects that were not laid out in this
frame) is only model-checked: these methods go through trees with RECURSIVE operators, with which
the prover loses its backends. Liveness is model-checked everywhere.

## 5. Not modelled

- What the models meet and leave out, because the code's answer is not what the properties
  are about, with what was seen while modelling:
  - render objects: a `Flex` that changes across its axis under a `Corner` or `Center`; an
    `Image` exchanged for one of another size is not laid out again; a widget of a stack that
    is replaced by a smaller one within the round leaves what it covered; a widget under the
    top of a stack that draws by itself would paint over the top. None of the screens here
    reaches them in the states `AppScreens` lists. `StatusBar::build` sets its state while it
    is built, and the lock screen's constructor calls `onUnlock` during a build. The
    framebuffer is white when an app starts.
  - input: a mouse button released beside the terminal's screen stays down there; positions
    of a device that has just been made; a calculator key held by one pen while another pen
    holds a second key stays pressed (both pens are pointer -1234).
  - swtcon: `include/swtcon.h` names flag 2 for waiting, SwtconState.cpp:135 looks at flag 1;
    an empty list means taken by the generator, not shown; frames that wait at the destructor
    may be dropped; a clear writes over buffers 0 to 2; frames right after a clear are shown
    on a dark panel (`LitFrames` names it).
  - waveforms: files in /var/lib/uboot are looked for without the slash
    (Waveforms.cpp:166, 187) and never opened; the length of the serial's record is shifted
    as a signed byte; at 102 degrees and more the last, empty entry is taken; reading the
    boot partition and freeing the tables.
  - terminal: the setting for the automatic full refresh never reaches the screen
    (screen.h:12); a cursor that moves to a line that is clean may not be drawn until that
    line changes; output that fills a buffer exactly is drawn with the next frame;
    `term_resize` does not clamp the cursor; a background process that keeps the terminal
    open when SIGCHLD comes during a frame lets yaft wait until the next event; the
    configuration file; colours and glyphs.
  - lock screen and viewer: attempts start again when the lock screen was away (after sleep);
    a second tap on Confirm in one round copies twice; Cancel and Copy in one round leave a
    confirmation above the selection; a second finger can leave the viewer's detector with a
    touch that is gone; a copy button of an older tree writes an empty crop; without notebooks
    the dialog reads beyond its list; a crop that cannot be written is not noticed. A tap is
    one step.
- The heap of the timer queue: `checkTimers` pops the top after running a timer that may have
  added others. With durations that are not negative and a steady clock the top is still
  the one that ran, or one that is due at the same time; the models have a set of timers.
  `doLater` has no callers.
- Navigator and futures: tilem shows its error dialog with them, whose only button ends the
  program; going back is only used by a developers' tool.
- Pixels, fonts and images (`Canvas.cpp`, `FrameBuffer.cpp` beyond its update), probing the
  device, the SDL emulation, formatting of battery and clock: data, no control.
- rm2fb's hooks into closed binaries, which cannot be seen from the repository; the client's
  mapping of ioctls to waveforms; the tools; tests, build files and vendored code.

## 6. Plan

1. The mapping of ioctls to waveforms (`IOCTL.cpp`) as an operator of `Rm2fb`.
2. `Navigator` with futures, should an app use them.
