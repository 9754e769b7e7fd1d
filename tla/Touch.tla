------------------------------- MODULE Touch -------------------------------
(***************************************************************************)
(* Fingers and pens, from the kernel's input devices to what an app makes  *)
(* of them: the uinput devices of rm2fb's server (libs/rm2fb/              *)
(* InputDevice.cpp), rMlib's TouchDevice and PenDevice with the list of    *)
(* devices that udev changes (libs/rMlib/Input.cpp), and three of the      *)
(* receivers of the events: a gesture detector (UI/Gesture.h), the keys of *)
(* the calculator (apps/tilem/KeyPad.cpp) and the mouse of the terminal    *)
(* (apps/yaft/screen.cpp).  The kernel and libevdev are external.          *)
(***************************************************************************)
EXTENDS Integers, Sequences

CONSTANTS
  TouchDevices,   \* the multi-touch devices of this instance
  PenDevices,     \* the pens
  KeyDevices,     \* the power buttons
  Remote,         \* those of them that rm2fb's server made with uinput
  Setups,         \* which devices exist, and which receiver is looked at
  Area, Off,      \* places: a detector, a key; Off is outside of everything
  Ids,            \* tracking ids the kernel hands out
  MaxQueue,       \* frames the kernel keeps for a reader; one more is an overflow
  Unplug,         \* whether rm2fb's server may restart, and take its devices away
  QuietUnplug     \* whether everything was read from a device before it goes away

Slot == 0..1
FakeSlot == 1
FakeId == 123
PenId == -1234
PenSlot == 4096
None == -1
Pos == Area \union {Off}
Receiver == {"gesture", "keypad", "mouse"}
Device == TouchDevices \union PenDevices \union KeyDevices

ASSUME TouchAssumption ==
  /\ TouchDevices \cap PenDevices = {} /\ Remote \subseteq Device
  /\ KeyDevices \cap (TouchDevices \union PenDevices) = {}
  /\ Setups \subseteq (SUBSET Device) \X Receiver
  /\ Off \notin Area /\ Area # {}
  /\ Ids \subseteq Nat /\ FakeId \notin Ids
  /\ MaxQueue \in Nat \ {0}
  /\ Unplug \in BOOLEAN /\ QuietUnplug \in BOOLEAN

VARIABLES
  kernel,   \* what the kernel holds of each device
  queue,    \* frames not yet read by the app, a sequence of them per device
  alive,    \* devices that exist
  udev,     \* messages of udev not yet received: <<"add" or "remove", device>>
  opened,   \* InputManager::devices
  ready,    \* devices poll found readable that waitForInput has not come to
  synced,   \* libevdev's view of each device
  td,       \* the TouchDevice or PenDevice of each device
  setup,    \* the devices of this behaviour
  crashed,  \* a device that is gone was read
  app,      \* the receiver
  current,  \* GestureRenderObject::currentId of the detector at each place
  keys,     \* KeypadRenderObject::keyPointers, a function from ids to keys
  pressed,  \* keys the calculator takes for pressed
  mouse,    \* ScreenRenderObject::mouseSlot and the terminal's mouse mode
  down,     \* history: the touch each slot is in, by the events
  paired,   \* history: no touch came down twice or left twice
  unseen    \* history: ids and slots whose end the app was not shown

input == <<kernel, queue, alive, udev>>
reader == <<opened, ready, synced, td, crashed>>
receiver == <<setup, app, current, keys, pressed, mouse>>
history == <<down, paired, unseen>>
vars == <<input, reader, receiver, history>>

----------------------------------------------------------------------------
(* The kernel                                                               *)

\* The codes a device is made with; the kernel drops a value with any other code.
TouchCodes == {"slot", "track", "pos"}
PenCodes == {"tool", "track", "pos"}
ButtonCodes == {"tool"}
Codes(d) == IF d \in TouchDevices THEN TouchCodes ELSE IF d \in PenDevices THEN PenCodes ELSE ButtonCodes

\* Every device has the same record; a pen uses slot 0 and `tool`, a button only `tool`, its key.
FreshKernel == [slot |-> 0, sent |-> 0, tool |-> 0,
                track |-> [s \in Slot |-> None], pos |-> [s \in Slot |-> Off]]

\* What a reader of all that was passed on knows; `sent` is the slot it was told last.
Told(k) == [slot |-> k.sent, tool |-> k.tool, track |-> k.track, pos |-> k.pos]

\* One value written to a device: unknown codes and values that do not change are not passed
\* on, and a change of slot only with the first value that is.
Write(d, acc, w) ==
  LET k == acc.k  s == k.slot
      Pass(k2, more) == [k |-> [k2 EXCEPT !.sent = s],
                         out |-> acc.out \o (IF k.sent = s THEN <<>> ELSE << <<"slot", s>> >>) \o more]
  IN IF w[1] \notin Codes(d) THEN acc
     ELSE CASE w[1] = "slot" -> [acc EXCEPT !.k.slot = w[2]]
            [] w[1] = "track" /\ k.track[s] # w[2] -> Pass([k EXCEPT !.track[s] = w[2]], <<w>>)
            [] w[1] = "pos" /\ k.pos[s] # w[2] -> Pass([k EXCEPT !.pos[s] = w[2]], <<w>>)
            [] w[1] = "tool" /\ k.tool # w[2] -> Pass([k EXCEPT !.tool = w[2]], <<w>>)
            [] OTHER -> acc

\* What was passed on after each of the writes.
WrittenUpTo(d, writes) ==
  LET r[n \in 0 .. Len(writes)] ==
        IF n = 0 THEN [k |-> kernel[d], out |-> <<>>] ELSE Write(d, r[n - 1], writes[n])
  IN r

\* A report: the writes up to SYN_REPORT.  An empty one is not passed on; one too many
\* overflows the reader's buffer, and SYN_DROPPED takes the place of what was in it.
DroppedReport == << <<"dropped", 0>> >>
Dropped == <<DroppedReport>>
Report(d, writes) ==
  LET r == WrittenUpTo(d, writes)[Len(writes)]
  IN /\ d \in alive \intersect opened
     /\ kernel' = [kernel EXCEPT ![d] = r.k]
     /\ queue' = [queue EXCEPT ![d] = IF r.out = <<>> THEN @
                                      ELSE IF Len(@) >= MaxQueue \/ @ = Dropped THEN Dropped
                                      ELSE Append(@, r.out)]
     /\ UNCHANGED <<alive, udev, reader, receiver, history>>

\* Tracking ids are a counter of 16 bits, so none is used again while the app knows it or is
\* still to be told of it.
InUse(d, i) ==
  \/ \E s \in Slot : i \in {kernel[d].track[s], synced[d].track[s]}
  \/ \E n \in DOMAIN queue[d] : \E m \in DOMAIN queue[d][n] : queue[d][n][m] = <<"track", i>>

\* The driver of the real touch screen reports what each slot's finger did.
FingerWrites(d, s, act, i, p) ==
  CASE act = "down" -> << <<"slot", s>>, <<"track", i>>, <<"pos", p>> >>
    [] act = "move" -> << <<"slot", s>>, <<"pos", p>> >>
    [] act = "up" -> << <<"slot", s>>, <<"track", None>> >>

Finger(d, s) ==
  /\ d \in TouchDevices \ Remote
  /\ \E p \in Pos, i \in Ids :
       \/ /\ kernel[d].track[s] = None /\ ~InUse(d, i)
          /\ Report(d, FingerWrites(d, s, "down", i, p))
       \/ /\ kernel[d].track[s] # None
          /\ \/ Report(d, FingerWrites(d, s, "move", i, p))
             \/ Report(d, FingerWrites(d, s, "up", i, p))

\* Both fingers leave in one report.
BothUp(d) ==
  /\ d \in TouchDevices \ Remote /\ \A s \in Slot : kernel[d].track[s] # None
  /\ Report(d, FingerWrites(d, 0, "up", None, Off) \o FingerWrites(d, 1, "up", None, Off))

\* The real pen comes near, touches, moves, lifts and leaves, one thing at a time.
Stylus(d) ==
  /\ d \in PenDevices \ Remote
  /\ \E w \in {<<"tool", 1>>, <<"tool", 0>>, <<"track", 1>>, <<"track", None>>} :
       /\ w[1] = "track" => kernel[d].tool = 1
       /\ w = <<"tool", 0>> => kernel[d].track[0] = None
       /\ \E p \in Pos : Report(d, << <<"pos", p>>, w >>)

\* rocket's flood before it resumes an app, which fills the app's buffers.
Flood(d) ==
  /\ d \in alive \ PenDevices
  /\ queue' = [queue EXCEPT ![d] = Dropped]
  /\ UNCHANGED <<kernel, alive, udev, reader, receiver, history>>

----------------------------------------------------------------------------
(* rm2fb's server: viewers send Down, Move and Up in any order, as two of   *)
(* them share the device and one sends nothing for what is beside its       *)
(* picture of the screen.                                                   *)

\* sendTouch
SendTouch(d, type, p) ==
  /\ d \in TouchDevices \cap Remote
  /\ Report(d, (CASE type = "Down" -> << <<"slot", FakeSlot>>, <<"track", FakeId>> >>
                  [] type = "Up" -> << <<"track", None>>, <<"slot", 0>> >>
                  [] type = "Move" -> <<>>) \o << <<"pos", p>> >>)

\* sendPen
SendPen(d, type, p) ==
  LET value == IF type = "Down" THEN 1 ELSE 0
  IN /\ d \in PenDevices \cap Remote
     /\ Report(d, << <<"pos", p>> >> \o
                  (IF type = "Move" THEN <<>>
                   ELSE << <<"tool", value>>, <<"track", IF value = 1 THEN 1 ELSE None>> >>))

\* sendButton
SendButton(d, press) ==
  /\ d \in KeyDevices
  /\ Report(d, << <<"tool", IF press THEN 1 ELSE 0>> >>)

\* What the receivers know a touch by.
IdOf(d, s) == IF d \in PenDevices THEN PenId ELSE kernel[d].track[s]
SlotOf(d, s) == IF d \in PenDevices THEN PenSlot ELSE s

\* The server ends, and its devices with it: what was not read is lost, and udev tells.
TakeAway(d) ==
  /\ Unplug /\ d \in Remote \intersect alive \intersect opened
  /\ QuietUnplug => queue[d] = <<>>
  /\ alive' = alive \ {d}
  /\ udev' = Append(udev, <<"remove", d>>)
  /\ unseen' = unseen \union {IF app = "mouse" THEN SlotOf(d, s) ELSE IdOf(d, s) :
                               s \in {t \in Slot : kernel[d].track[t] # None}}
  /\ UNCHANGED <<kernel, queue, reader, receiver, down, paired>>

\* makeAllDevices, when systemd has started the server again
Create(d) ==
  /\ d \in setup \ (alive \union opened) /\ \A n \in DOMAIN udev : udev[n][2] # d
  /\ alive' = alive \union {d}
  /\ udev' = Append(udev, <<"add", d>>)
  /\ kernel' = [kernel EXCEPT ![d] = FreshKernel]
  /\ queue' = [queue EXCEPT ![d] = <<>>]
  /\ UNCHANGED <<reader, receiver, history>>

----------------------------------------------------------------------------
(* TouchDevice and PenDevice                                                *)

FreshDevice == [slot |-> 0, changed |-> {}, tool |-> "Move", keys |-> <<>>,
                type |-> [s \in Slot |-> "Move"], id |-> [s \in Slot |-> 0],
                pos |-> [s \in Slot |-> Off]]

\* A variant that takes no position once the finger has left.
HandleTouchLifted(t, ev) ==
  LET s == IF ev[1] = "slot" THEN ev[2] ELSE t.slot
      t1 == [t EXCEPT !.slot = s, !.changed = @ \union {s}]
  IN CASE ev[1] = "track" -> IF ev[2] = None THEN [t1 EXCEPT !.type[s] = "Up"]
                             ELSE [t1 EXCEPT !.type[s] = "Down", !.id[s] = ev[2]]
       [] ev[1] = "pos" /\ t.type[s] # "Move" -> [t1 EXCEPT !.pos[s] = ev[2]]
       [] OTHER -> t1

\* TouchDevice::handleEvent before SYN_REPORT
HandleTouch(t, ev) ==
  LET s == IF ev[1] = "slot" THEN ev[2] ELSE t.slot
      t1 == [t EXCEPT !.slot = s, !.changed = @ \union {s}]
  IN CASE ev[1] = "track" -> IF ev[2] = None THEN [t1 EXCEPT !.type[s] = "Up"]
                             ELSE [t1 EXCEPT !.type[s] = "Down", !.id[s] = ev[2]]
       [] ev[1] = "pos" -> [t1 EXCEPT !.pos[s] = ev[2]]
       [] OTHER -> t1

\* Variants that forget one of the resets.
TouchReportedChanged(t) == [t EXCEPT !.type = [s \in Slot |-> "Move"]]
TouchReportedTyped(t) == [t EXCEPT !.changed = {}]

\* TouchDevice::handleEvent at SYN_REPORT: the type of the changed slots becomes Move again
TouchReported(t) == [t EXCEPT !.changed = {},
                              !.type = [s \in Slot |-> IF s \in t.changed THEN "Move" ELSE @[s]]]

\* PenDevice::handleEvent before SYN_REPORT: one type for the whole report, the last one stays
HandlePen(t, ev) ==
  CASE ev[1] = "pos" -> [t EXCEPT !.pos[0] = ev[2]]
    [] ev[1] = "tool" -> [t EXCEPT !.tool = IF ev[2] = 1 THEN "ToolClose" ELSE "ToolLeave"]
    [] ev[1] = "track" -> [t EXCEPT !.tool = IF ev[2] = None THEN "Up" ELSE "Down"]
    [] OTHER -> t

PenReported(t) == [t EXCEPT !.tool = "Move"]

\* KeyDevice::handleEvent: the key events of a report are kept until its end
HandleKey(t, ev) == IF ev[1] = "tool" THEN [t EXCEPT !.keys = Append(@, ev[2])] ELSE t
KeyReported(t) == [t EXCEPT !.keys = <<>>]

\* makeDevice: what a device is taken for, by its codes
Made(d) == IF "slot" \in Codes(d) THEN "touch" ELSE IF "pos" \in Codes(d) THEN "pen" ELSE "key"

\* The events a report is turned into; changedSlots is an unordered set.
Orders == {<<0, 1>>, <<1, 0>>}
Events(d, t, order) ==
  LET Ev(type, id, s, p) == [dev |-> d, type |-> type, id |-> id, slot |-> s, pos |-> p]
      Of(s) == IF s \in t.changed THEN << Ev(t.type[s], t.id[s], s, t.pos[s]) >> ELSE <<>>
  IN CASE Made(d) = "touch" -> Of(order[1]) \o Of(order[2])
       [] Made(d) = "pen" -> << Ev(t.tool, PenId, PenSlot, t.pos[0]) >>
       [] Made(d) = "key" ->
            [n \in DOMAIN t.keys |-> Ev(IF t.keys[n] = 1 THEN "Press" ELSE "Release", None, 0, Off)]

Handle(d, t, ev) ==
  CASE Made(d) = "touch" -> HandleTouch(t, ev)
    [] Made(d) = "pen" -> HandlePen(t, ev)
    [] Made(d) = "key" -> HandleKey(t, ev)

Reported(d, t) ==
  CASE Made(d) = "touch" -> TouchReported(t)
    [] Made(d) = "pen" -> PenReported(t)
    [] Made(d) = "key" -> KeyReported(t)

\* libevdev's view of a device after one more event
After(view, ev) ==
  CASE ev[1] = "slot" -> [view EXCEPT !.slot = ev[2]]
    [] ev[1] = "track" -> [view EXCEPT !.track[view.slot] = ev[2]]
    [] ev[1] = "pos" -> [view EXCEPT !.pos[view.slot] = ev[2]]
    [] ev[1] = "tool" -> [view EXCEPT !.tool = ev[2]]
    [] OTHER -> view

\* libevdev's view and the device after each of a report's events
ReadUpTo(d, view, t, report) ==
  LET r[n \in 0 .. Len(report)] ==
        IF n = 0 THEN [view |-> view, t |-> t]
        ELSE [view |-> After(r[n - 1].view, report[n]), t |-> Handle(d, r[n - 1].t, report[n])]
  IN r

\* One report read: the view and the device afterwards, and its events.
ReadReport(d, view, t, report, order) ==
  LET r == ReadUpTo(d, view, t, report)[Len(report)]
  IN [view |-> r.view, t |-> Reported(d, r.t), evs |-> Events(d, r.t, order)]

\* What libevdev hands on after SYN_DROPPED: the difference between its view and the
\* kernel's, where a touch that was replaced by another first ends, in a report of its own.
Ended(v, k, s) ==
  IF v.track[s] # None /\ k.track[s] # None /\ v.track[s] # k.track[s]
  THEN << <<"slot", s>>, <<"track", None>> >> ELSE <<>>
NewTrack(v, k, s) == IF v.track[s] # k.track[s] THEN << <<"track", k.track[s]>> >> ELSE <<>>
NewPos(v, k, s) == IF v.pos[s] # k.pos[s] THEN << <<"pos", k.pos[s]>> >> ELSE <<>>
NewTool(v, k) == IF v.tool # k.tool THEN << <<"tool", k.tool>> >> ELSE <<>>

NewSlot(v, k, s) ==
  IF v.track[s] # k.track[s] \/ v.pos[s] # k.pos[s]
  THEN << <<"slot", s>> >> \o NewTrack(v, k, s) \o NewPos(v, k, s) ELSE <<>>

SyncReports(d) ==
  LET k == kernel[d]  v == synced[d]
      ended == Ended(v, k, 0) \o Ended(v, k, 1)
      last == NewSlot(v, k, 0) \o NewSlot(v, k, 1) \o << <<"slot", k.sent>> >>
  IN IF d \notin TouchDevices
     THEN << DroppedReport \o NewTool(v, k) \o NewTrack(v, k, 0) \o NewPos(v, k, 0) >>
     ELSE IF ended = <<>> THEN << DroppedReport \o last >>
     ELSE << DroppedReport \o ended, last >>

----------------------------------------------------------------------------
(* The receivers                                                            *)

\* emplace: a pointer that already has a key keeps it.
WithPointer(keyOf, id, key) == [i \in DOMAIN keyOf \union {id} |-> IF i \in DOMAIN keyOf THEN keyOf[i] ELSE key]

\* Variants: an Up counts only inside the detector, or on a key, and an Up that leaves the
\* mouse button down.
GestureInputInside(cur, ev) ==
  [a \in Area |->
     IF ev.type = "Down" /\ ev.pos = a /\ cur[a] = None THEN ev.id
     ELSE IF ev.type = "Up" /\ ev.id = cur[a] /\ ev.pos = a THEN None
     ELSE cur[a]]

KeypadInputInside(r, ev) ==
  CASE ev.type = "Up" /\ ev.id \in DOMAIN r.keys /\ ev.pos \in Area ->
         [keys |-> [i \in DOMAIN r.keys \ {ev.id} |-> r.keys[i]], pressed |-> r.pressed \ {r.keys[ev.id]}]
    [] ev.type = "Down" /\ ev.pos \in Area ->
         [keys |-> WithPointer(r.keys, ev.id, ev.pos), pressed |-> r.pressed \union {ev.pos}]
    [] OTHER -> r

MouseInputStays(m, ev) ==
  IF ev.pos = Off \/ ~m.on THEN m
  ELSE IF ev.type = "Down" /\ m.slot = None THEN [m EXCEPT !.slot = ev.slot] ELSE m

\* GestureRenderObject::handlePointerEv of the detector at place a
GestureInput(cur, ev) ==
  [a \in Area |->
     IF ev.type = "Down" /\ ev.pos = a /\ cur[a] = None THEN ev.id
     ELSE IF ev.type = "Up" /\ ev.id = cur[a] THEN None
     ELSE cur[a]]

\* KeypadRenderObject::handleInput
KeypadInput(r, ev) ==
  CASE ev.type = "Up" /\ ev.id \in DOMAIN r.keys ->
         [keys |-> [i \in DOMAIN r.keys \ {ev.id} |-> r.keys[i]], pressed |-> r.pressed \ {r.keys[ev.id]}]
    [] ev.type = "Down" /\ ev.pos \in Area ->
         [keys |-> WithPointer(r.keys, ev.id, ev.pos), pressed |-> r.pressed \union {ev.pos}]
    [] OTHER -> r

\* ScreenRenderObject::handleInput and handleTouchEvent
MouseInput(m, ev) ==
  IF ev.pos = Off \/ ~m.on THEN m
  ELSE IF ev.type = "Down" /\ m.slot = None THEN [m EXCEPT !.slot = ev.slot]
  ELSE IF ev.type = "Up" /\ m.slot = ev.slot THEN [m EXCEPT !.slot = None]
  ELSE m

MouseUnseen(m, ev) == app = "mouse" /\ ev.type = "Up" /\ (ev.pos = Off \/ ~m.on)

\* What the events themselves say of who is down.
DownAfter(h, ev) ==
  LET s == IF ev.slot = PenSlot THEN 0 ELSE ev.slot
  IN [down |-> [h.down EXCEPT ![ev.dev][s] = CASE ev.type = "Down" -> ev.id
                                               [] ev.type = "Press" -> 1
                                               [] ev.type \in {"Up", "Release"} -> None
                                               [] OTHER -> @],
      paired |-> h.paired /\ (ev.type \in {"Down", "Press"} => h.down[ev.dev][s] = None)
                          /\ (ev.type \in {"Up", "Release"} => h.down[ev.dev][s] # None)]

\* What the receivers and the history make of one event
Receive(h, ev) ==
  LET k == KeypadInput([keys |-> h.keys, pressed |-> h.pressed], ev)
      d == DownAfter([down |-> h.down, paired |-> h.paired], ev)
  IN [down |-> d.down, paired |-> d.paired,
      current |-> IF app = "gesture" THEN GestureInput(h.current, ev) ELSE h.current,
      keys |-> IF app = "keypad" THEN k.keys ELSE h.keys,
      pressed |-> IF app = "keypad" THEN k.pressed ELSE h.pressed,
      mouse |-> IF app = "mouse" THEN MouseInput(h.mouse, ev) ELSE h.mouse,
      unseen |-> IF MouseUnseen(h.mouse, ev) /\ h.mouse.slot = ev.slot
                 THEN h.unseen \union {ev.slot} ELSE h.unseen]

ReceivedUpTo(evs) ==
  LET r[n \in 0 .. Len(evs)] ==
        IF n = 0 THEN [down |-> down, paired |-> paired, current |-> current, keys |-> keys,
                       pressed |-> pressed, mouse |-> mouse, unseen |-> unseen]
        ELSE Receive(r[n - 1], evs[n])
  IN r

Deliver(evs) ==
  LET h == ReceivedUpTo(evs)[Len(evs)]
  IN /\ down' = h.down /\ paired' = h.paired /\ unseen' = h.unseen
     /\ current' = h.current
     /\ keys' = h.keys /\ pressed' = h.pressed
     /\ mouse' = h.mouse
     /\ UNCHANGED <<setup, app>>

----------------------------------------------------------------------------
(* InputManager::waitForInput                                               *)

\* canRead: a device that hung up is not readable unless there are events left in it; and a
\* variant that takes it for readable.
ReadableHup(d) == queue[d] # <<>> \/ d \notin alive
Readable(d) == queue[d] # <<>>

\* poll, then one message of udev: a device it adds is opened, any other message removes it
Poll ==
  /\ ~crashed /\ ready = {}
  /\ \/ udev # <<>>
     \/ \E d \in opened : Readable(d)
  /\ ready' = {d \in opened : Readable(d)}
  /\ IF udev = <<>> THEN UNCHANGED <<udev, opened, synced, td, down>>
     ELSE LET d == Head(udev)[2]
          IN /\ udev' = Tail(udev)
             /\ IF Head(udev)[1] = "add" /\ d \notin opened /\ d \in alive
                THEN /\ opened' = opened \union {d}
                     /\ synced' = [synced EXCEPT ![d] = Told(FreshKernel)]
                     /\ down' = [down EXCEPT ![d] = [s \in Slot |-> None]]
                     /\ td' = [td EXCEPT ![d] = FreshDevice]
                ELSE /\ opened' = IF Head(udev)[1] = "add" THEN opened ELSE opened \ {d}
                     /\ UNCHANGED <<synced, td, down>>
  /\ UNCHANGED <<kernel, queue, alive, crashed, receiver, paired, unseen>>

\* readEvents of a device poll found readable; a device that is gone has been freed
Read(d) ==
  /\ ~crashed /\ d \in ready
  /\ IF d \notin opened
     THEN /\ crashed' = TRUE
          /\ UNCHANGED <<input, opened, ready, synced, td, receiver, history>>
     ELSE IF d \notin alive \/ queue[d] = <<>>
     THEN /\ ready' = ready \ {d}
          /\ UNCHANGED <<input, opened, synced, td, crashed, receiver, history>>
     ELSE \E order \in Orders :
       LET reports == IF queue[d] = Dropped THEN SyncReports(d) ELSE <<Head(queue[d])>>
           r1 == ReadReport(d, synced[d], td[d], reports[1], order)
           r2 == ReadReport(d, r1.view, r1.t, reports[2], order)
           r == IF Len(reports) = 1 THEN r1 ELSE [r2 EXCEPT !.evs = r1.evs \o @]
       IN /\ td' = [td EXCEPT ![d] = r.t]
          /\ synced' = [synced EXCEPT ![d] = r.view]
          /\ queue' = [queue EXCEPT ![d] = Tail(@)]
          /\ ready' = IF Len(queue[d]) = 1 THEN ready \ {d} ELSE ready
          /\ Deliver(r.evs)
          /\ UNCHANGED <<kernel, alive, udev, opened, crashed>>

\* The program in the terminal switches its mouse mode.
MouseMode ==
  /\ app = "mouse"
  /\ mouse' = [mouse EXCEPT !.on = ~@]
  /\ UNCHANGED <<input, reader, setup, app, current, keys, pressed, history>>

Init ==
  /\ kernel = [d \in Device |-> FreshKernel]
  /\ queue = [d \in Device |-> <<>>]
  /\ \E S \in Setups : setup = S[1] /\ app = S[2]
  /\ alive = setup /\ udev = <<>>
  /\ opened = setup /\ ready = {}
  /\ synced = [d \in Device |-> Told(FreshKernel)]
  /\ td = [d \in Device |-> FreshDevice]
  /\ crashed = FALSE
  /\ current = [a \in Area |-> None]
  /\ keys = <<>> /\ pressed = {}
  /\ mouse = [slot |-> None, on |-> TRUE]
  /\ down = [d \in Device |-> [s \in Slot |-> None]]
  /\ paired = TRUE /\ unseen = {}

Next ==
  \/ \E d \in Device : \/ \E s \in Slot : Finger(d, s)
                       \/ BothUp(d)
                       \/ Stylus(d)
                       \/ Flood(d)
                       \/ \E type \in {"Down", "Move", "Up"}, p \in Pos :
                            SendTouch(d, type, p) \/ SendPen(d, type, p)
                       \/ \E press \in BOOLEAN : SendButton(d, press)
                       \/ TakeAway(d)
                       \/ Create(d)
                       \/ Read(d)
  \/ Poll
  \/ MouseMode

Spec == Init /\ [][Next]_vars

----------------------------------------------------------------------------
\* Only devices that exist are open or ready, and slots, tracking ids and positions that the kernel and
\* the receivers keep are in their ranges.
TypeOK ==
  /\ alive \subseteq Device /\ opened \subseteq Device /\ ready \subseteq Device
  /\ \A d \in Device : Len(queue[d]) <= MaxQueue /\ td[d].slot \in Slot /\ td[d].changed = {}
  /\ \A d \in Device, s \in Slot :
       kernel[d].track[s] \in Ids \union {None, FakeId, 1} /\ kernel[d].pos[s] \in Pos
  /\ crashed \in BOOLEAN /\ paired \in BOOLEAN
  /\ app \in Receiver /\ \A a \in Area : current[a] \in Ids \union {None, FakeId, PenId}
  /\ pressed \subseteq Area /\ DOMAIN keys \subseteq Ids \union {FakeId, PenId}
  /\ mouse \in [slot : Slot \union {None, PenSlot}, on : BOOLEAN]

\* Everything the kernel has was read.
Quiet == ready = {} /\ udev = <<>> /\ \A d \in Device : queue[d] = <<>>

\* Who is down, as the kernel has it.
Touching == {t \in alive \X Slot : kernel[t[1]].track[t[2]] # None}
TouchingIds == {IdOf(t[1], t[2]) : t \in Touching}
TouchingSlots == {SlotOf(t[1], t[2]) : t \in Touching}

\* The events of a touch come as one Down and one Up, however reports are merged, lost in
\* an overflow, or sent by two viewers at once (TouchDevice::handleEvent, readEvents).
EventsPaired == paired

\* When all is read, every device knows the touches and places the kernel has, also after
\* SYN_DROPPED and rocket's flood (readEvents' inner loop).
HeldIn(d, s) ==
  IF d \in KeyDevices THEN IF s = 0 /\ kernel[d].tool = 1 THEN 1 ELSE None
  ELSE IF kernel[d].track[s] = None THEN None ELSE IdOf(d, s)
CaughtUp ==
  \A d \in opened \intersect alive :
    queue[d] = <<>> =>
      \A s \in Slot : down[d][s] = HeldIn(d, s) /\ td[d].pos[s] = kernel[d].pos[s]

\* A detector waits only for a touch that is still there; else it would never take another
\* (GestureRenderObject::currentId).  A device that went away can leave it so.
DetectorsFree ==
  Quiet => \A a \in Area : current[a] \in TouchingIds \union unseen \union {None}

\* No key of the calculator stays down without a finger on it, however fingers share keys
\* (KeypadRenderObject::keyPointers).
KeysReleased ==
  Quiet /\ unseen = {} =>
    /\ DOMAIN keys \subseteq TouchingIds
    /\ \A a \in pressed : \E i \in DOMAIN keys : keys[i] = a

\* The terminal's mouse button is down only for a touch that is still there, unless its end
\* was beside the screen or came while the program did not ask for the mouse
\* (ScreenRenderObject::mouseSlot).
MouseReleased ==
  Quiet => mouse.slot \in TouchingSlots \union unseen \union {None}

\* No receiver is left with a touch that is gone: a detector, a key of the calculator and the
\* terminal's mouse are free when all was read.
TouchesLeave == DetectorsFree /\ KeysReleased /\ MouseReleased

\* waitForInput reads no device that it has just removed (deviceOrder and handeDevice).
NoFreedRead == ~crashed

\* The view of the touches is complete, and the variables keep their types.
ViewComplete == TypeOK /\ CaughtUp /\ NoFreedRead
=============================================================================
