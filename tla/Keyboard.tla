------------------------------ MODULE Keyboard ------------------------------
(***************************************************************************)
(* The keyboard of yaft (apps/yaft/keyboard.cpp) and the part of           *)
(* YaftState that chooses its layout (YaftWidget.cpp).                     *)
(*                                                                         *)
(* Fingers (touch slots and the pen) press the keys of the layout on the   *)
(* screen; a modifier sticks when it is tapped and locks when it is held;  *)
(* a long press on escape hides most of the keyboard.  A keyboard that is  *)
(* attached to the device has keys of its own.  A timer repeats what is    *)
(* held down.  Every touch, key, timer and redraw is an action; time       *)
(* passes only while the event loop waits.                                 *)
(***************************************************************************)
EXTENDS Integers, FiniteSets

CONSTANTS
  FullKeys, HiddenKeys,  \* the keys of the layouts
  Modifier,              \* shift, alt and ctrl
  LongKeys,              \* the keys with a longPressCode
  Slot,                  \* touch slots, and pen_slot
  PhysKey,               \* keys of the attached keyboard
  PhysCode,              \* the modifier such a key stands for, or NoKey
  NoSlot, NoKey,
  RepeatDelay, RepeatTime,
  MaxLate                \* bound on how late the repeat timer runs

Key == FullKeys \cup HiddenKeys

ASSUME KeyAssumption ==
  /\ FullKeys \cap HiddenKeys = {} /\ Key \cap PhysKey = {}
  /\ Modifier \subseteq FullKeys
  /\ LongKeys \subseteq Key \ Modifier
  /\ NoKey \notin Key /\ NoSlot \notin Slot
  /\ PhysCode \in [PhysKey -> Modifier \cup {NoKey}]
ASSUME TimeAssumption ==
  RepeatDelay \in Nat /\ RepeatTime \in Nat \ {0} /\ MaxLate \in Nat \ {0}

VARIABLES
  hidden,      \* YaftState::hidden
  landscape,   \* YaftState::isLandscape
  pogoTimer,   \* checkLandscape's timer is running
  layout,      \* the layout the keyboard has
  slot,        \* KeyState::slot
  stuck, held, \* the modifiers with KeyState::stuck and KeyState::held
  next,        \* time to nextRepeat of the keys with a slot, else 0
  dirty,       \* the keys with KeyState::dirty
  drawing,     \* mNeedsDraw
  drawn,       \* how each key looks on the screen
  physDown,    \* the keys with PhysKeyState::down
  physNext,    \* time to nextRepeat of these keys
  finger,      \* the key on which each finger came down
  pogo,        \* a keyboard is attached
  keyDown,     \* its keys that are down
  sent,        \* history: what the last step sent
  typed,       \* history: modifiers that were down when a key was typed
  fired,       \* history: keys whose long press was acted on since they came down
  quiet        \* history: time since a key with a slot came down or a modifier was used

yaft    == <<hidden, landscape, pogoTimer>>
touched == <<slot, stuck, held, next>>
picture == <<dirty, drawing, drawn>>
phys    == <<physDown, physNext>>
world   == <<finger, pogo, keyDown>>
history == <<sent, typed, fired, quiet>>
vars    == <<yaft, layout, touched, picture, phys, world, history>>

Layout == {"full", "hidden", "empty"}
KeysOf(l) ==
  CASE l = "full" -> FullKeys [] l = "hidden" -> HiddenKeys [] OTHER -> {}

\* The long press of escape forgotten.
WantedShown == IF landscape THEN "empty" ELSE "full"

\* YaftState::build
Wanted == IF landscape THEN "empty" ELSE IF hidden THEN "hidden" ELSE "full"

IsDown(k) == slot[k] # NoSlot \/ k \in stuck \/ k \in held

Look(k) == IF k \in held THEN "held" ELSE IF IsDown(k) THEN "down" ELSE "up"
Looks == {"none", "up", "down", "held"}

\* An elapsed time of more than RepeatDelay counts as RepeatDelay + 1; nextRepeat is
\* five hours away when it is Never.
Older(t) == IF t > RepeatDelay THEN t ELSE t + 1
Never == RepeatDelay + RepeatTime + 1
Nearer(t) == IF t = Never THEN t ELSE t - 1

\* markNeedsDraw(false)
PartialDraw == IF drawing = "no" THEN "partial" ELSE drawing

Press(k, mods, repeat) == [key |-> k, mods |-> mods, repeat |-> repeat]
Sent == [key : (Key \ Modifier) \cup PhysKey, mods : SUBSET Modifier, repeat : BOOLEAN]

Init ==
  /\ hidden = FALSE
  /\ landscape = FALSE
  /\ pogo \in BOOLEAN /\ pogoTimer = TRUE
  /\ layout = Wanted
  /\ slot = [k \in Key |-> NoSlot]
  /\ stuck = {} /\ held = {}
  /\ next = [k \in Key |-> 0]
  /\ dirty = {} /\ drawing = "full"
  /\ drawn = [k \in Key |-> "none"]
  /\ physDown = {}
  /\ physNext = [p \in PhysKey |-> 0]
  /\ finger = [s \in Slot |-> NoKey]
  /\ keyDown = {}
  /\ sent = {} /\ typed = {} /\ fired = {}
  /\ quiet = [k \in Key |-> 0]

------------------------------------------------------------------------------
(* The keys on the screen *)

ModsDown == {m \in Modifier : IsDown(m)}

\* A tap on a modifier sticks it or frees it; a tap on a locked one unlocks it.
TapModifier(k) ==
  /\ stuck' = IF k \in held THEN stuck
              ELSE (stuck \ {k}) \cup ({k} \ stuck)
  /\ held' = held \ {k}
  /\ sent' = {}
  /\ dirty' = dirty \cup {k}
  /\ typed' = typed \ {k}

\* The modifiers stay stuck.
TypeKeySticky(k) ==
  /\ sent' = {Press(k, ModsDown, FALSE)}
  /\ dirty' = dirty \cup {k}
  /\ typed' = typed \cup {m \in Modifier : slot[m] # NoSlot}
  /\ UNCHANGED <<stuck, held>>

\* The freed modifiers are not drawn.
TypeKeyUndrawn(k) ==
  /\ sent' = {Press(k, ModsDown, FALSE)}
  /\ stuck' = {}
  /\ dirty' = dirty \cup {k}
  /\ typed' = typed \cup {m \in Modifier : slot[m] # NoSlot}
  /\ UNCHANGED held

\* sendKeyDown, then clearSticky.
TypeKey(k) ==
  /\ sent' = {Press(k, ModsDown, FALSE)}
  /\ stuck' = {}
  /\ dirty' = dirty \cup {k} \cup stuck
  /\ typed' = typed \cup {m \in Modifier : slot[m] # NoSlot}
  /\ UNCHANGED held

\* The long press of a modifier is not put off.
PutOffNone(k) == {}

\* clearSticky puts the long press of a modifier off.
PutOff(k) == {m \in Modifier : k \notin Modifier /\ slot[m] # NoSlot}

TouchDown(s, k) ==
  /\ finger[s] = NoKey
  /\ k \in KeysOf(layout)
  /\ finger' = [finger EXCEPT ![s] = k]
  /\ slot' = [slot EXCEPT ![k] = s]
  /\ next' = [j \in Key |-> IF j \in {k} \cup PutOff(k) THEN RepeatDelay ELSE next[j]]
  /\ IF k \in Modifier
       THEN TapModifier(k) /\ quiet' = [quiet EXCEPT ![k] = 0]
       ELSE /\ TypeKey(k)
            /\ quiet' = [j \in Key |-> IF j = k \/ j \in Modifier THEN 0 ELSE quiet[j]]
  /\ fired' = fired \ {k}
  /\ drawing' = PartialDraw
  /\ UNCHANGED <<yaft, layout, drawn, phys, pogo, keyDown>>

\* Only touches that end on the keyboard are handled.
TouchUpInside(s) ==
  /\ finger[s] # NoKey
  /\ finger' = [finger EXCEPT ![s] = NoKey]
  /\ sent' = {}
  /\ UNCHANGED <<yaft, layout, touched, picture, phys, pogo, keyDown, typed, fired, quiet>>

\* A finger is lifted, wherever it has moved to.
TouchUp(s) ==
  /\ finger[s] # NoKey
  /\ finger' = [finger EXCEPT ![s] = NoKey]
  /\ LET up == {k \in Key : slot[k] = s} IN
       IF up = {}
         THEN UNCHANGED <<touched, dirty, drawing, typed, fired, quiet>>
         ELSE \E k \in up :
                /\ slot' = [slot EXCEPT ![k] = NoSlot]
                /\ next' = [next EXCEPT ![k] = 0]
                /\ dirty' = dirty \cup {k}
                /\ drawing' = PartialDraw
                /\ typed' = typed \ {k} /\ fired' = fired \ {k}
                /\ quiet' = [quiet EXCEPT ![k] = 0]
                /\ UNCHANGED <<stuck, held>>
  /\ sent' = {}
  /\ UNCHANGED <<yaft, layout, drawn, phys, pogo, keyDown>>

------------------------------------------------------------------------------
(* The attached keyboard *)

PhysMods == {PhysCode[p] : p \in physDown} \ {NoKey}

\* Nobody types within the 100 ms of pogoTimer.
KeyPress(p) ==
  /\ pogo /\ ~pogoTimer
  /\ p \notin keyDown
  /\ keyDown' = keyDown \cup {p}
  /\ physDown' = physDown \cup {p}
  /\ physNext' = [physNext EXCEPT ![p] = RepeatDelay]
  /\ sent' = IF PhysCode[p] = NoKey THEN {Press(p, PhysMods, FALSE)} ELSE {}
  /\ UNCHANGED <<yaft, layout, touched, picture, finger, pogo, typed, fired, quiet>>

KeyRelease(p) ==
  /\ p \in keyDown
  /\ keyDown' = keyDown \ {p}
  /\ physDown' = physDown \ {p}
  /\ physNext' = [physNext EXCEPT ![p] = 0]
  /\ sent' = {}
  /\ UNCHANGED <<yaft, layout, touched, picture, finger, pogo, typed, fired, quiet>>

\* poll reports that the keyboard was attached or taken off; the loop has drawn before it
\* polls.  Keys that are down when it is taken off are never reported as released.
Plug ==
  /\ layout = Wanted
  /\ pogo' = ~pogo
  /\ keyDown' = {}
  /\ pogoTimer' = TRUE
  /\ sent' = {}
  /\ UNCHANGED <<hidden, landscape, layout, touched, picture, phys, finger, typed, fired, quiet>>

CheckLandscape ==
  /\ pogoTimer
  /\ pogoTimer' = FALSE
  /\ landscape' = pogo
  /\ sent' = {}
  /\ UNCHANGED <<hidden, layout, touched, picture, phys, world, typed, fired, quiet>>

------------------------------------------------------------------------------
(* The event loop *)

Due == {k \in Key : slot[k] # NoSlot /\ next[k] < 0}
PhysDue == {p \in physDown : physNext[p] < 0}

\* The modifiers that a long press locks.
Locks == (Due \cap Modifier) \ held

\* Every key repeats.
RepeatsAlways(k) == next[k] + RepeatTime

\* The next repeat of a key that was due.
Repeats(k) == IF k \in LongKeys THEN Never ELSE next[k] + RepeatTime

UpdateRepeat ==
  /\ Due \cup PhysDue # {}
  /\ held' = held \cup Locks
  /\ dirty' = dirty \cup Locks
  /\ drawing' = IF Locks = {} THEN drawing ELSE PartialDraw
  /\ sent' = {Press(k, ModsDown, TRUE) : k \in Due \ Modifier} \cup
             {Press(p, PhysMods, TRUE) : p \in {q \in PhysDue : PhysCode[q] = NoKey}}
  /\ hidden' = IF Due \cap LongKeys = {} THEN hidden ELSE ~hidden
  /\ next' = [k \in Key |-> IF k \in Due THEN Repeats(k) ELSE next[k]]
  /\ physNext' = [p \in PhysKey |-> IF p \in PhysDue THEN physNext[p] + RepeatTime ELSE physNext[p]]
  /\ fired' = fired \cup (Due \cap LongKeys)
  /\ UNCHANGED <<landscape, pogoTimer, layout, slot, stuck, drawn, physDown, world, typed, quiet>>

\* keyState is not cleared.
ClearPhysKeys ==
  /\ physDown' = {}
  /\ physNext' = [p \in PhysKey |-> 0]
  /\ UNCHANGED <<touched, typed, fired, quiet>>

\* physKeyState is not cleared.
ClearScreenKeys ==
  /\ slot' = [k \in Key |-> NoSlot]
  /\ stuck' = {} /\ held' = {}
  /\ next' = [k \in Key |-> 0]
  /\ typed' = {} /\ fired' = {}
  /\ quiet' = [k \in Key |-> 0]
  /\ UNCHANGED phys

\* updateLayout
ClearKeys ==
  /\ slot' = [k \in Key |-> NoSlot]
  /\ stuck' = {} /\ held' = {}
  /\ next' = [k \in Key |-> 0]
  /\ physDown' = {}
  /\ physNext' = [p \in PhysKey |-> 0]
  /\ typed' = {} /\ fired' = {}
  /\ quiet' = [k \in Key |-> 0]

\* Rebuild, layout and draw.  No two layouts have the same height, so that a new one is
\* drawn in full.
Redraw ==
  /\ layout # Wanted \/ drawing # "no"
  /\ layout' = Wanted
  /\ IF layout = Wanted THEN UNCHANGED <<touched, phys, typed, fired, quiet>> ELSE ClearKeys
  /\ drawn' = [k \in Key |->
                 IF k \notin KeysOf(Wanted) THEN "none"
                 ELSE IF layout = Wanted /\ drawing = "partial" /\ k \notin dirty THEN drawn[k]
                 ELSE Look(k)']
  /\ dirty' = {}
  /\ drawing' = "no"
  /\ sent' = {}
  /\ UNCHANGED <<yaft, world>>

\* Time passes while the loop waits.
Tick ==
  /\ layout = Wanted /\ drawing = "no"
  /\ \A k \in Key : next[k] > -MaxLate
  /\ \A p \in PhysKey : physNext[p] > -MaxLate
  /\ next' = [k \in Key |-> IF slot[k] = NoSlot THEN next[k] ELSE Nearer(next[k])]
  /\ physNext' = [p \in PhysKey |-> IF p \in physDown THEN physNext[p] - 1 ELSE physNext[p]]
  /\ quiet' = [k \in Key |-> IF slot[k] = NoSlot THEN quiet[k] ELSE Older(quiet[k])]
  /\ sent' = {}
  /\ UNCHANGED <<yaft, layout, slot, stuck, held, picture, physDown, world, typed, fired>>

Next ==
  \/ \E s \in Slot : (\E k \in Key : TouchDown(s, k)) \/ TouchUp(s)
  \/ \E p \in PhysKey : KeyPress(p) \/ KeyRelease(p)
  \/ Plug \/ CheckLandscape
  \/ UpdateRepeat \/ Redraw \/ Tick

Spec == Init /\ [][Next]_vars

\* The loop runs on, its timers run, and time passes between the touches it handles.
FairSpec == Spec /\ WF_vars(Redraw) /\ WF_vars(CheckLandscape) /\ WF_vars(UpdateRepeat) /\ SF_vars(Tick)

------------------------------------------------------------------------------
(* Properties *)

\* The keys' state and their repeats stay in their types.
TypeOK ==
  /\ hidden \in BOOLEAN /\ landscape \in BOOLEAN /\ pogoTimer \in BOOLEAN
  /\ layout \in Layout
  /\ slot \in [Key -> Slot \cup {NoSlot}]
  /\ stuck \subseteq Modifier /\ held \subseteq Modifier
  /\ next \in [Key -> (-MaxLate) .. Never]
  /\ dirty \subseteq KeysOf(layout)
  /\ drawing \in {"no", "partial", "full"}
  /\ drawn \in [Key -> Looks]
  /\ physDown \subseteq PhysKey
  /\ physNext \in [PhysKey -> (-MaxLate) .. RepeatDelay + RepeatTime]
  /\ finger \in [Slot -> Key \cup {NoKey}]
  /\ pogo \in BOOLEAN /\ keyDown \subseteq PhysKey
  /\ sent \subseteq Sent
  /\ typed \subseteq Modifier /\ fired \subseteq LongKeys
  /\ quiet \in [Key -> 0 .. RepeatDelay + 1]

\* A key is pressed by the finger that its slot names, and that finger came down on it:
\* whatever two fingers do on one key, and whichever layout they came down on, no key
\* goes on repeating after its finger has left.
SlotsMatchFingers == \A k \in Key : slot[k] # NoSlot => finger[slot[k]] = k

\* What a key looks like on the screen is its state, or it is marked to be drawn again
\* and the keyboard with it; also for the modifiers that another key frees.
DrawnIsCurrent ==
  \A k \in KeysOf(layout) :
    drawn[k] # Look(k) => drawing = "full" \/ (drawing = "partial" /\ k \in dirty)

\* A modifier that is not locked and was used for another key while its finger was on it
\* is off when the finger leaves.
ChordEnds ==
  [][\A m \in typed \ held :
       slot[m] # NoSlot /\ slot'[m] = NoSlot => m \notin stuck' \cup held']_vars

\* A key repeats, and a modifier locks, only when it has been down for longer than
\* RepeatDelay, and a modifier only when no key was typed in that time.
NothingEarly ==
  [][/\ \A e \in sent' : e.repeat /\ e.key \in Key => quiet[e.key] > RepeatDelay
     /\ \A m \in held' \ held : quiet[m] > RepeatDelay]_vars

\* However long escape is held, the keyboard is hidden or shown once for each press.
LongPressOnce ==
  [][hidden' # hidden => \E e \in sent' : e.repeat /\ e.key \in LongKeys \ fired]_vars

\* Repeats and locks come neither too early nor twice, however late the timer is.
RepeatsOnTime == NothingEarly /\ LongPressOnce

\* A long press takes effect: a finger that stays on escape, and that no other finger
\* relieves, ends up on another layout.
LongPressActs ==
  \A k \in LongKeys, s \in Slot : slot[k] = s ~> slot[k] # s

\* The keys of a keyboard that was taken off stop repeating, although nothing says that
\* they were released.
DetachedKeysStop == <>[](~pogo) => <>[](physDown = {})

\* No key goes on for ever.
KeysLetGo == LongPressActs /\ DetachedKeysStop

=============================================================================
