---------------------------- MODULE KeyboardProofs ---------------------------
(***************************************************************************)
(* Theorems about Keyboard, for any keys, fingers and delays.              *)
(***************************************************************************)
EXTENDS Keyboard, TLAPS

\* The types, and that only keys of the layout are pressed, stuck or locked.
TypeInv ==
  /\ TypeOK
  /\ stuck \subseteq KeysOf(layout) /\ held \subseteq KeysOf(layout)
  /\ \A k \in Key : slot[k] # NoSlot => k \in KeysOf(layout)

LEMMA KeysOfType == \A l : KeysOf(l) \subseteq Key
BY DEF KeysOf, Key

LEMMA NeverType == Never \in Nat /\ Never > RepeatDelay + RepeatTime
BY TimeAssumption DEF Never

LEMMA PressType ==
  ASSUME NEW k \in (Key \ Modifier) \cup PhysKey, NEW mods \in SUBSET Modifier, NEW r \in BOOLEAN
  PROVE  Press(k, mods, r) \in Sent
BY DEF Press, Sent

LEMMA ModsType ==
  ASSUME TypeInv
  PROVE  ModsDown \in SUBSET Modifier /\ PhysMods \in SUBSET Modifier
BY KeyAssumption DEF ModsDown, PhysMods, TypeInv, TypeOK

\* TypeInv is inductive.
LEMMA TypeInvHolds == Spec => []TypeInv
<1>1. Init => TypeInv
  <2> SUFFICES ASSUME Init PROVE TypeInv
    OBVIOUS
  <2>1. layout \in Layout
    BY DEF Init, Wanted, Layout
  <2>2. next \in [Key -> (-MaxLate) .. Never] /\ quiet \in [Key -> 0 .. RepeatDelay + 1]
    BY TimeAssumption, NeverType DEF Init
  <2>3. physNext \in [PhysKey -> (-MaxLate) .. RepeatDelay + RepeatTime]
    BY TimeAssumption DEF Init
  <2> QED
    BY <2>1, <2>2, <2>3 DEF Init, TypeInv, TypeOK, Looks
<1>2. TypeInv /\ [Next]_vars => TypeInv'
  <2> SUFFICES ASSUME TypeInv, [Next]_vars PROVE TypeInv'
    OBVIOUS
  <2> USE DEF TypeInv, TypeOK
  <2>1. ASSUME NEW s \in Slot, NEW k \in Key, TouchDown(s, k) PROVE TypeInv'
    <3>1. next' \in [Key -> (-MaxLate) .. Never]
      BY <2>1, TimeAssumption, NeverType DEF TouchDown, Never
    <3>2. quiet' \in [Key -> 0 .. RepeatDelay + 1]
      BY <2>1, TimeAssumption DEF TouchDown
    <3>3. KeysOf(layout') = KeysOf(layout) /\ k \in KeysOf(layout)
      BY <2>1 DEF TouchDown
    <3>4. /\ stuck' \subseteq Modifier /\ stuck' \subseteq KeysOf(layout)
          /\ held' \subseteq Modifier /\ held' \subseteq KeysOf(layout)
          /\ dirty' \subseteq KeysOf(layout)
          /\ typed' \subseteq Modifier
      <4>1. CASE k \in Modifier
        <5>1. TapModifier(k)
          BY <2>1, <4>1 DEF TouchDown
        <5> QED
          BY <5>1, <4>1, <3>3 DEF TapModifier
      <4>2. CASE k \notin Modifier
        <5>1. TypeKey(k)
          BY <2>1, <4>2 DEF TouchDown
        <5> QED
          BY <5>1, <4>2, <3>3 DEF TypeKey
      <4> QED
        BY <4>1, <4>2
    <3>5. sent' \subseteq Sent
      <4>1. CASE k \in Modifier
        BY <2>1, <4>1 DEF TouchDown, TapModifier
      <4>2. CASE k \notin Modifier
        <5>1. Press(k, ModsDown, FALSE) \in Sent
          BY <4>2, PressType, ModsType
        <5>2. sent' = {Press(k, ModsDown, FALSE)}
          BY <2>1, <4>2 DEF TouchDown, TypeKey
        <5> QED
          BY <5>1, <5>2
      <4> QED
        BY <4>1, <4>2
    <3>6. slot' \in [Key -> Slot \cup {NoSlot}] /\ finger' \in [Slot -> Key \cup {NoKey}]
      BY <2>1 DEF TouchDown
    <3>7. \A j \in Key : slot'[j] # NoSlot => j \in KeysOf(layout)
      BY <2>1, <3>3 DEF TouchDown
    <3>8. fired' \subseteq LongKeys /\ drawing' \in {"no", "partial", "full"}
      BY <2>1 DEF TouchDown, PartialDraw
    <3>9. UNCHANGED <<yaft, layout, drawn, phys, pogo, keyDown>>
      BY <2>1 DEF TouchDown
    <3> QED
      BY <3>1, <3>2, <3>3, <3>4, <3>5, <3>6, <3>7, <3>8, <3>9 DEF yaft, phys
  <2>2. ASSUME NEW s \in Slot, TouchUp(s) PROVE TypeInv'
    <3>1. CASE {k \in Key : slot[k] = s} = {}
      BY <2>2, <3>1 DEF TouchUp, yaft, touched, phys
    <3>2. CASE {k \in Key : slot[k] = s} # {}
      <4>1. PICK k \in {j \in Key : slot[j] = s} :
              /\ slot' = [slot EXCEPT ![k] = NoSlot]
              /\ next' = [next EXCEPT ![k] = 0]
              /\ dirty' = dirty \cup {k}
              /\ drawing' = PartialDraw
              /\ typed' = typed \ {k} /\ fired' = fired \ {k}
              /\ quiet' = [quiet EXCEPT ![k] = 0]
              /\ UNCHANGED <<stuck, held>>
        BY <2>2, <3>2 DEF TouchUp
      <4>2. next' \in [Key -> (-MaxLate) .. Never] /\ quiet' \in [Key -> 0 .. RepeatDelay + 1]
        BY <4>1, TimeAssumption, NeverType
      <4>3. s # NoSlot /\ k \in KeysOf(layout)
        BY <4>1, KeyAssumption
      <4>4. /\ finger' \in [Slot -> Key \cup {NoKey}] /\ sent' = {}
            /\ UNCHANGED <<yaft, layout, drawn, phys, pogo, keyDown>>
        BY <2>2 DEF TouchUp
      <4>5. drawing' \in {"no", "partial", "full"}
        BY <4>1 DEF PartialDraw
      <4> QED
        BY <4>1, <4>2, <4>3, <4>4, <4>5 DEF yaft, phys
    <3> QED
      BY <3>1, <3>2
  <2>3. ASSUME NEW p \in PhysKey, KeyPress(p) PROVE TypeInv'
    <3>1. physNext' \in [PhysKey -> (-MaxLate) .. RepeatDelay + RepeatTime]
      BY <2>3, TimeAssumption DEF KeyPress
    <3>2. sent' \subseteq Sent
      BY <2>3, PressType, ModsType DEF KeyPress
    <3> QED
      BY <2>3, <3>1, <3>2 DEF KeyPress, yaft, touched, picture
  <2>4. ASSUME NEW p \in PhysKey, KeyRelease(p) PROVE TypeInv'
    <3>1. physNext' \in [PhysKey -> (-MaxLate) .. RepeatDelay + RepeatTime]
      BY <2>4, TimeAssumption DEF KeyRelease
    <3> QED
      BY <2>4, <3>1 DEF KeyRelease, yaft, touched, picture
  <2>5. ASSUME Plug PROVE TypeInv'
    BY <2>5 DEF Plug, touched, picture, phys
  <2>6. ASSUME CheckLandscape PROVE TypeInv'
    BY <2>6 DEF CheckLandscape, touched, picture, phys, world
  <2>7. ASSUME UpdateRepeat PROVE TypeInv'
    <3>1. next' \in [Key -> (-MaxLate) .. Never]
      <4>1. \A k \in Due : Repeats(k) \in (-MaxLate) .. Never
        BY TimeAssumption, NeverType DEF Due, Repeats
      <4> QED
        BY <2>7, <4>1 DEF UpdateRepeat
    <3>2. physNext' \in [PhysKey -> (-MaxLate) .. RepeatDelay + RepeatTime]
      <4>1. \A p \in PhysDue : physNext[p] + RepeatTime \in (-MaxLate) .. RepeatDelay + RepeatTime
        BY TimeAssumption DEF PhysDue
      <4> QED
        BY <2>7, <4>1 DEF UpdateRepeat
    <3>3. Locks \subseteq Modifier /\ Locks \subseteq KeysOf(layout)
      BY DEF Locks, Due
    <3>4. sent' \subseteq Sent
      <4>1. \A k \in Due \ Modifier : Press(k, ModsDown, TRUE) \in Sent
        BY PressType, ModsType DEF Due
      <4>2. \A p \in PhysDue : Press(p, PhysMods, TRUE) \in Sent
        BY PressType, ModsType DEF PhysDue
      <4> QED
        BY <2>7, <4>1, <4>2 DEF UpdateRepeat
    <3>5. hidden' \in BOOLEAN /\ fired' \subseteq LongKeys /\ drawing' \in {"no", "partial", "full"}
      BY <2>7 DEF UpdateRepeat, PartialDraw
    <3>6. /\ held' = held \cup Locks /\ dirty' = dirty \cup Locks
          /\ UNCHANGED <<landscape, pogoTimer, layout, slot, stuck, drawn, physDown, world, typed, quiet>>
      BY <2>7 DEF UpdateRepeat
    <3> QED
      BY <3>1, <3>2, <3>3, <3>4, <3>5, <3>6 DEF world
  <2>8. ASSUME Redraw PROVE TypeInv'
    <3>1. layout' \in Layout /\ layout' = Wanted /\ dirty' = {} /\ drawing' = "no" /\ sent' = {}
      BY <2>8 DEF Redraw, Wanted, Layout
    <3>2. drawn' \in [Key -> Looks]
      BY <2>8 DEF Redraw, Look, Looks
    <3>3. /\ slot' \in [Key -> Slot \cup {NoSlot}]
          /\ stuck' \subseteq Modifier /\ held' \subseteq Modifier
          /\ typed' \subseteq Modifier /\ fired' \subseteq LongKeys /\ physDown' \subseteq PhysKey
      BY <2>8 DEF Redraw, ClearKeys, touched, phys
    <3>4. /\ next' \in [Key -> (-MaxLate) .. Never]
          /\ quiet' \in [Key -> 0 .. RepeatDelay + 1]
          /\ physNext' \in [PhysKey -> (-MaxLate) .. RepeatDelay + RepeatTime]
      BY <2>8, TimeAssumption, NeverType DEF Redraw, ClearKeys, touched, phys
    <3>5. /\ stuck' \subseteq KeysOf(layout') /\ held' \subseteq KeysOf(layout')
          /\ \A k \in Key : slot'[k] # NoSlot => k \in KeysOf(layout')
      BY <2>8 DEF Redraw, ClearKeys, touched
    <3>6. UNCHANGED <<yaft, world>>
      BY <2>8 DEF Redraw
    <3> QED
      BY <3>1, <3>2, <3>3, <3>4, <3>5, <3>6 DEF yaft, world
  <2>9. ASSUME Tick PROVE TypeInv'
    <3>1. next' \in [Key -> (-MaxLate) .. Never]
      BY <2>9, TimeAssumption, NeverType DEF Tick, Nearer
    <3>2. physNext' \in [PhysKey -> (-MaxLate) .. RepeatDelay + RepeatTime]
      BY <2>9, TimeAssumption DEF Tick
    <3>3. quiet' \in [Key -> 0 .. RepeatDelay + 1]
      BY <2>9, TimeAssumption DEF Tick, Older
    <3>4. sent' = {} /\ UNCHANGED <<yaft, layout, slot, stuck, held, picture, physDown, world, typed, fired>>
      BY <2>9 DEF Tick
    <3> QED
      BY <3>1, <3>2, <3>3, <3>4 DEF yaft, picture, world
  <2>10. CASE UNCHANGED vars
    BY <2>10 DEF vars, yaft, touched, picture, phys, world, history
  <2> QED
    BY <2>1, <2>2, <2>3, <2>4, <2>5, <2>6, <2>7, <2>8, <2>9, <2>10 DEF Next
<1> QED
  BY <1>1, <1>2, PTL DEF Spec

\* Type correctness (KeyState, PhysKeyState, YaftState and the draw flags): delays stay in
\* their ranges and only keys of the layout are marked to be drawn.
THEOREM KeyboardTyped == Spec => []TypeOK
<1>1. TypeInv => TypeOK
  BY DEF TypeInv
<1> QED
  BY <1>1, TypeInvHolds, PTL

------------------------------------------------------------------------------
(* Fingers *)

\* A finger that comes down has no slot yet, and one that leaves is on one key only.
THEOREM SlotsAreFingers == Spec => []SlotsMatchFingers
<1>1. Init => SlotsMatchFingers
  BY DEF Init, SlotsMatchFingers
<1>2. TypeInv /\ SlotsMatchFingers /\ [Next]_vars => SlotsMatchFingers'
  <2> SUFFICES ASSUME TypeInv, SlotsMatchFingers, [Next]_vars PROVE SlotsMatchFingers'
    OBVIOUS
  <2>t. slot \in [Key -> Slot \cup {NoSlot}] /\ finger \in [Slot -> Key \cup {NoKey}]
    BY DEF TypeInv, TypeOK
  <2>1. ASSUME NEW s \in Slot, NEW k \in Key, TouchDown(s, k) PROVE SlotsMatchFingers'
    BY <2>1, <2>t, KeyAssumption DEF TouchDown, SlotsMatchFingers
  <2>2. ASSUME NEW s \in Slot, TouchUp(s) PROVE SlotsMatchFingers'
    <3>1. finger' = [finger EXCEPT ![s] = NoKey]
      BY <2>2 DEF TouchUp
    <3>2. CASE {k \in Key : slot[k] = s} = {}
      <4>1. slot' = slot
        BY <2>2, <3>2 DEF TouchUp, touched
      <4> QED
        BY <3>1, <3>2, <4>1, <2>t DEF SlotsMatchFingers
    <3>3. CASE {k \in Key : slot[k] = s} # {}
      <4>1. PICK k \in {j \in Key : slot[j] = s} : slot' = [slot EXCEPT ![k] = NoSlot]
        BY <2>2, <3>3 DEF TouchUp
      <4>2. finger[s] = k
        BY <4>1, <2>t, KeyAssumption DEF SlotsMatchFingers
      <4> QED
        BY <3>1, <4>1, <4>2, <2>t DEF SlotsMatchFingers
    <3> QED
      BY <3>2, <3>3
  <2>3. ASSUME Redraw PROVE SlotsMatchFingers'
    <3>1. finger' = finger
      BY <2>3 DEF Redraw, world
    <3>2. slot' = slot \/ slot' = [k \in Key |-> NoSlot]
      BY <2>3 DEF Redraw, ClearKeys, touched
    <3> QED
      BY <3>1, <3>2 DEF SlotsMatchFingers
  <2>4. ASSUME slot' = slot, finger' = finger PROVE SlotsMatchFingers'
    BY <2>4 DEF SlotsMatchFingers
  <2>5. ASSUME NEW p \in PhysKey, KeyPress(p) \/ KeyRelease(p) PROVE SlotsMatchFingers'
    BY <2>5, <2>4 DEF KeyPress, KeyRelease, touched
  <2>6. CASE Plug
    BY <2>6, <2>4 DEF Plug, touched
  <2>7. CASE CheckLandscape
    BY <2>7, <2>4 DEF CheckLandscape, touched, world
  <2>8. CASE UpdateRepeat
    BY <2>8, <2>4 DEF UpdateRepeat, world
  <2>9. CASE Tick
    BY <2>9, <2>4 DEF Tick, world
  <2>10. CASE UNCHANGED vars
    BY <2>10, <2>4 DEF vars, touched, world
  <2> QED
    BY <2>1, <2>2, <2>3, <2>5, <2>6, <2>7, <2>8, <2>9, <2>10 DEF Next
<1> QED
  BY <1>1, <1>2, TypeInvHolds, PTL DEF Spec

------------------------------------------------------------------------------
(* Modifiers *)

\* A modifier with which a key was typed is not stuck: it was freed then, and a tap of
\* another finger starts it anew.
TypedFree == typed \cap stuck = {}

LEMMA TypedFreeHolds == Spec => []TypedFree
<1>1. Init => TypedFree
  BY DEF Init, TypedFree
<1>2. TypedFree /\ [Next]_vars => TypedFree'
  <2> SUFFICES ASSUME TypedFree, [Next]_vars PROVE TypedFree'
    OBVIOUS
  <2>1. ASSUME NEW s \in Slot, NEW k \in Key, TouchDown(s, k) PROVE TypedFree'
    <3>1. CASE k \in Modifier
      BY <2>1, <3>1 DEF TouchDown, TapModifier, TypedFree
    <3>2. CASE k \notin Modifier
      BY <2>1, <3>2 DEF TouchDown, TypeKey, TypedFree
    <3> QED
      BY <3>1, <3>2
  <2>2. ASSUME NEW s \in Slot, TouchUp(s) PROVE TypedFree'
    <3>1. stuck' = stuck /\ typed' \subseteq typed
      BY <2>2 DEF TouchUp, touched
    <3> QED
      BY <3>1 DEF TypedFree
  <2>3. CASE Redraw
    <3>1. (stuck' = stuck /\ typed' = typed) \/ typed' = {}
      BY <2>3 DEF Redraw, ClearKeys, touched
    <3> QED
      BY <3>1 DEF TypedFree
  <2>4. ASSUME stuck' = stuck, typed' = typed PROVE TypedFree'
    BY <2>4 DEF TypedFree
  <2>5. ASSUME NEW p \in PhysKey, KeyPress(p) \/ KeyRelease(p) PROVE TypedFree'
    BY <2>5, <2>4 DEF KeyPress, KeyRelease, touched
  <2>6. CASE Plug
    BY <2>6, <2>4 DEF Plug, touched
  <2>7. CASE CheckLandscape
    BY <2>7, <2>4 DEF CheckLandscape, touched
  <2>8. CASE UpdateRepeat
    BY <2>8, <2>4 DEF UpdateRepeat
  <2>9. CASE Tick
    BY <2>9, <2>4 DEF Tick
  <2>10. CASE UNCHANGED vars
    BY <2>10, <2>4 DEF vars, touched, history
  <2> QED
    BY <2>1, <2>2, <2>3, <2>5, <2>6, <2>7, <2>8, <2>9, <2>10 DEF Next
<1> QED
  BY <1>1, <1>2, PTL DEF Spec

\* A modifier used for another key while a finger was on it (handleTouchEvent, clearSticky)
\* is off when that finger leaves, unless it is locked.
THEOREM ChordsEnd == Spec => ChordEnds
<1>1. TypeInv /\ TypedFree /\ [Next]_vars =>
        [\A m \in typed \ held :
           slot[m] # NoSlot /\ slot'[m] = NoSlot => m \notin stuck' \cup held']_vars
  <2> SUFFICES ASSUME TypeInv, TypedFree, Next,
                      NEW m \in typed \ held, slot[m] # NoSlot, slot'[m] = NoSlot
               PROVE  m \notin stuck' \cup held'
    OBVIOUS
  <2>t. slot \in [Key -> Slot \cup {NoSlot}] /\ m \in Key /\ m \notin stuck
    BY KeyAssumption DEF TypeInv, TypeOK, TypedFree, Key
  <2>1. ASSUME NEW s \in Slot, NEW k \in Key, TouchDown(s, k) PROVE FALSE
    BY <2>1, <2>t, KeyAssumption DEF TouchDown
  <2>2. ASSUME NEW s \in Slot, TouchUp(s) PROVE m \notin stuck' \cup held'
    BY <2>2, <2>t DEF TouchUp, touched
  <2>3. CASE Redraw
    <3>1. (slot' = slot) \/ (stuck' = {} /\ held' = {})
      BY <2>3 DEF Redraw, ClearKeys, touched
    <3> QED
      BY <3>1
  <2>4. ASSUME slot' = slot PROVE FALSE
    BY <2>4
  <2>5. ASSUME NEW p \in PhysKey, KeyPress(p) \/ KeyRelease(p) PROVE FALSE
    BY <2>5, <2>4 DEF KeyPress, KeyRelease, touched
  <2>6. CASE Plug
    BY <2>6, <2>4 DEF Plug, touched
  <2>7. CASE CheckLandscape
    BY <2>7, <2>4 DEF CheckLandscape, touched
  <2>8. CASE UpdateRepeat
    BY <2>8, <2>4 DEF UpdateRepeat
  <2>9. CASE Tick
    BY <2>9, <2>4 DEF Tick
  <2> QED
    BY <2>1, <2>2, <2>3, <2>5, <2>6, <2>7, <2>8, <2>9 DEF Next
<1> QED
  BY <1>1, TypeInvHolds, TypedFreeHolds, PTL DEF Spec, ChordEnds

------------------------------------------------------------------------------
(* Time *)

\* nextRepeat is never nearer than what is left of RepeatDelay.
Timely ==
  \A k \in Key :
    slot[k] # NoSlot => next[k] + quiet[k] >= RepeatDelay \/ quiet[k] > RepeatDelay

LEMMA TimelyHolds == Spec => []Timely
<1>1. Init => Timely
  BY DEF Init, Timely
<1>2. TypeInv /\ Timely /\ [Next]_vars => Timely'
  <2> SUFFICES ASSUME TypeInv, Timely, [Next]_vars PROVE Timely'
    OBVIOUS
  <2>t. /\ slot \in [Key -> Slot \cup {NoSlot}]
        /\ next \in [Key -> Int] /\ quiet \in [Key -> 0 .. RepeatDelay + 1]
        /\ RepeatDelay \in Nat
    BY TimeAssumption, NeverType DEF TypeInv, TypeOK
  <2>1. ASSUME NEW s \in Slot, NEW k \in Key, TouchDown(s, k) PROVE Timely'
    <3>1. /\ slot' = [slot EXCEPT ![k] = s]
          /\ next' = [j \in Key |-> IF j \in {k} \cup PutOff(k) THEN RepeatDelay ELSE next[j]]
      BY <2>1 DEF TouchDown
    <3>2. quiet'[k] = 0 /\ \A j \in Key : quiet'[j] = quiet[j] \/ quiet'[j] = 0
      BY <2>1, <2>t DEF TouchDown
    <3>3. \A j \in Key \ {k} : quiet'[j] = quiet[j] \/ slot[j] = NoSlot \/ j \in PutOff(k)
      BY <2>1, <2>t DEF TouchDown, PutOff
    <3> SUFFICES ASSUME NEW j \in Key, slot'[j] # NoSlot
                 PROVE  next'[j] + quiet'[j] >= RepeatDelay \/ quiet'[j] > RepeatDelay
      BY DEF Timely
    <3>4. CASE j = k \/ j \in PutOff(k)
      <4>1. next'[j] = RepeatDelay /\ quiet'[j] \in Nat
        BY <3>1, <3>2, <3>4, <2>t
      <4> QED
        BY <4>1, <2>t
    <3>5. CASE j # k /\ j \notin PutOff(k)
      BY <3>1, <3>3, <3>5, <2>t DEF Timely
    <3> QED
      BY <3>4, <3>5
  <2>2. ASSUME NEW s \in Slot, TouchUp(s) PROVE Timely'
    <3>1. CASE {k \in Key : slot[k] = s} = {}
      BY <2>2, <3>1 DEF TouchUp, touched, Timely
    <3>2. CASE {k \in Key : slot[k] = s} # {}
      <4>1. PICK k \in {j \in Key : slot[j] = s} :
              /\ slot' = [slot EXCEPT ![k] = NoSlot]
              /\ next' = [next EXCEPT ![k] = 0]
              /\ quiet' = [quiet EXCEPT ![k] = 0]
        BY <2>2, <3>2 DEF TouchUp
      <4> QED
        BY <4>1, <2>t DEF Timely
    <3> QED
      BY <3>1, <3>2
  <2>3. CASE UpdateRepeat
    <3>1. /\ slot' = slot /\ quiet' = quiet
          /\ next' = [k \in Key |-> IF k \in Due THEN Repeats(k) ELSE next[k]]
      BY <2>3 DEF UpdateRepeat
    <3>2. \A k \in Due : quiet[k] > RepeatDelay
      BY <2>t DEF Due, Timely
    <3> QED
      BY <3>1, <3>2, <2>t DEF Timely
  <2>4. CASE Redraw
    <3>1. (slot' = slot /\ next' = next /\ quiet' = quiet) \/ slot' = [k \in Key |-> NoSlot]
      BY <2>4 DEF Redraw, ClearKeys, touched
    <3> QED
      BY <3>1 DEF Timely
  <2>5. CASE Tick
    <3>1. /\ slot' = slot
          /\ next' = [k \in Key |-> IF slot[k] = NoSlot THEN next[k] ELSE Nearer(next[k])]
          /\ quiet' = [k \in Key |-> IF slot[k] = NoSlot THEN quiet[k] ELSE Older(quiet[k])]
      BY <2>5 DEF Tick
    <3>2. \A k \in Key : Nearer(next[k]) >= next[k] - 1 /\ Nearer(next[k]) \in Int
      BY <2>t DEF Nearer
    <3>3. \A k \in Key : Older(quiet[k]) = quiet[k] + 1 \/ Older(quiet[k]) > RepeatDelay
      BY <2>t DEF Older
    <3>4. \A k \in Key : quiet[k] > RepeatDelay => Older(quiet[k]) > RepeatDelay
      BY <2>t DEF Older
    <3> QED
      BY <3>1, <3>2, <3>3, <3>4, <2>t DEF Timely
  <2>6. ASSUME slot' = slot, next' = next, quiet' = quiet PROVE Timely'
    BY <2>6 DEF Timely
  <2>7. ASSUME NEW p \in PhysKey, KeyPress(p) \/ KeyRelease(p) PROVE Timely'
    BY <2>7, <2>6 DEF KeyPress, KeyRelease, touched
  <2>8. CASE Plug
    BY <2>8, <2>6 DEF Plug, touched
  <2>9. CASE CheckLandscape
    BY <2>9, <2>6 DEF CheckLandscape, touched
  <2>10. CASE UNCHANGED vars
    BY <2>10, <2>6 DEF vars, touched, history
  <2> QED
    BY <2>1, <2>2, <2>3, <2>4, <2>5, <2>7, <2>8, <2>9, <2>10 DEF Next
<1> QED
  BY <1>1, <1>2, TypeInvHolds, PTL DEF Spec

\* Nothing repeats or locks before RepeatDelay is over (updateRepeat), and clearSticky puts
\* the locking of a modifier off whenever a key is typed.
THEOREM NothingIsEarly == Spec => NothingEarly
<1>1. TypeInv /\ Timely /\ [Next]_vars =>
        [/\ \A e \in sent' : e.repeat /\ e.key \in Key => quiet[e.key] > RepeatDelay
         /\ \A m \in held' \ held : quiet[m] > RepeatDelay]_vars
  <2> SUFFICES ASSUME TypeInv, Timely, Next
               PROVE  /\ \A e \in sent' : e.repeat /\ e.key \in Key => quiet[e.key] > RepeatDelay
                      /\ \A m \in held' \ held : quiet[m] > RepeatDelay
    OBVIOUS
  <2>1. ASSUME NEW s \in Slot, NEW k \in Key, TouchDown(s, k)
        PROVE  held' \subseteq held /\ \A e \in sent' : ~e.repeat
    <3>1. CASE k \in Modifier
      BY <2>1, <3>1 DEF TouchDown, TapModifier
    <3>2. CASE k \notin Modifier
      BY <2>1, <3>2 DEF TouchDown, TypeKey, Press
    <3> QED
      BY <3>1, <3>2
  <2>2. ASSUME NEW s \in Slot, TouchUp(s) PROVE held' \subseteq held /\ sent' = {}
    BY <2>2 DEF TouchUp, touched
  <2>3. ASSUME NEW p \in PhysKey, KeyPress(p)
        PROVE  held' \subseteq held /\ \A e \in sent' : ~e.repeat
    BY <2>3 DEF KeyPress, touched, Press
  <2>4. ASSUME NEW p \in PhysKey, KeyRelease(p) PROVE held' \subseteq held /\ sent' = {}
    BY <2>4 DEF KeyRelease, touched
  <2>5. ASSUME Plug \/ CheckLandscape \/ Tick PROVE held' \subseteq held /\ sent' = {}
    BY <2>5 DEF Plug, CheckLandscape, Tick, touched
  <2>6. ASSUME Redraw PROVE held' \subseteq held /\ sent' = {}
    BY <2>6 DEF Redraw, ClearKeys, touched
  <2>7. ASSUME UpdateRepeat
        PROVE  /\ \A e \in sent' : e.repeat /\ e.key \in Key => quiet[e.key] > RepeatDelay
               /\ \A m \in held' \ held : quiet[m] > RepeatDelay
    <3>1. \A k \in Due : quiet[k] > RepeatDelay
      BY TimeAssumption, NeverType DEF Due, Timely, TypeInv, TypeOK
    <3>2. \A e \in sent' : e.key \in Due \/ e.key \in PhysKey
      BY <2>7 DEF UpdateRepeat, Press, PhysDue, TypeInv, TypeOK
    <3>3. \A m \in held' \ held : m \in Due
      BY <2>7 DEF UpdateRepeat, Locks
    <3> QED
      BY <3>1, <3>2, <3>3, KeyAssumption
  <2> QED
    BY <2>1, <2>2, <2>3, <2>4, <2>5, <2>6, <2>7 DEF Next
<1> QED
  BY <1>1, TypeInvHolds, TimelyHolds, PTL DEF Spec, NothingEarly

------------------------------------------------------------------------------
(* Drawing *)

\* Whatever changes the look of a key marks it (TouchDown, TouchUp, UpdateRepeat), and what
\* frees a modifier marks that modifier (clearSticky); a draw clears only what it drew.
THEOREM KeysAreDrawn == Spec => []DrawnIsCurrent
<1>1. Init => DrawnIsCurrent
  BY DEF Init, DrawnIsCurrent
<1>2. TypeInv /\ DrawnIsCurrent /\ [Next]_vars => DrawnIsCurrent'
  <2> SUFFICES ASSUME TypeInv, DrawnIsCurrent, [Next]_vars PROVE DrawnIsCurrent'
    OBVIOUS
  <2>t. slot \in [Key -> Slot \cup {NoSlot}] /\ drawing \in {"no", "partial", "full"}
    BY DEF TypeInv, TypeOK
  <2>k. \A l : KeysOf(l) \subseteq Key
    BY KeysOfType
  \* It is enough that a step marks every key whose look it changes.
  <2>m. ASSUME layout' = layout, drawn' = drawn, dirty \subseteq dirty',
               drawing' = drawing \/ drawing' = PartialDraw,
               \A k \in Key : Look(k)' = Look(k) \/ (k \in dirty' /\ drawing' = PartialDraw)
        PROVE  DrawnIsCurrent'
    <3> SUFFICES ASSUME NEW k \in KeysOf(layout), drawn[k] # Look(k)'
                 PROVE  drawing' = "full" \/ (drawing' = "partial" /\ k \in dirty')
      BY <2>m DEF DrawnIsCurrent
    <3>1. drawing' = "full" \/ drawing' = "partial" \/ (drawing' = "no" /\ drawing = "no")
      BY <2>m, <2>t DEF PartialDraw
    <3>2. drawing = "full" => drawing' = "full"
      BY <2>m DEF PartialDraw
    <3>3. CASE Look(k)' = Look(k)
      BY <2>m, <3>1, <3>2, <3>3 DEF DrawnIsCurrent, PartialDraw
    <3>4. CASE k \in dirty' /\ drawing' = PartialDraw
      BY <3>4, <2>t DEF PartialDraw
    <3> QED
      BY <2>m, <2>k, <3>3, <3>4
  <2>s. ASSUME layout' = layout, drawn' = drawn, dirty' = dirty, drawing' = drawing,
               slot' = slot, stuck' = stuck, held' = held
        PROVE  DrawnIsCurrent'
    BY <2>s, <2>m DEF Look, IsDown
  <2>1. ASSUME NEW s \in Slot, NEW k \in Key, TouchDown(s, k) PROVE DrawnIsCurrent'
    <3>1. /\ layout' = layout /\ drawn' = drawn /\ drawing' = PartialDraw
          /\ slot' = [slot EXCEPT ![k] = s]
      BY <2>1 DEF TouchDown
    <3>2. CASE k \in Modifier
      <4>1. /\ dirty' = dirty \cup {k}
            /\ \A j \in Key \ {k} : (j \in stuck' <=> j \in stuck) /\ (j \in held' <=> j \in held)
        BY <2>1, <3>2 DEF TouchDown, TapModifier
      <4>2. \A j \in Key \ {k} : Look(j)' = Look(j)
        BY <3>1, <4>1, <2>t DEF Look, IsDown
      <4> QED
        BY <2>m, <3>1, <4>1, <4>2
    <3>3. CASE k \notin Modifier
      <4>1. dirty' = dirty \cup {k} \cup stuck /\ stuck' = {} /\ held' = held
        BY <2>1, <3>3 DEF TouchDown, TypeKey
      <4>2. \A j \in Key : j = k \/ j \in stuck \/ Look(j)' = Look(j)
        BY <3>1, <4>1, <2>t DEF Look, IsDown
      <4> QED
        BY <2>m, <3>1, <4>1, <4>2
    <3> QED
      BY <3>2, <3>3
  <2>2. ASSUME NEW s \in Slot, TouchUp(s) PROVE DrawnIsCurrent'
    <3>0. layout' = layout /\ drawn' = drawn
      BY <2>2 DEF TouchUp
    <3>1. CASE {k \in Key : slot[k] = s} = {}
      BY <2>2, <2>s, <3>0, <3>1 DEF TouchUp, touched
    <3>2. CASE {k \in Key : slot[k] = s} # {}
      <4>1. PICK k \in {j \in Key : slot[j] = s} :
              /\ slot' = [slot EXCEPT ![k] = NoSlot]
              /\ dirty' = dirty \cup {k}
              /\ drawing' = PartialDraw
              /\ stuck' = stuck /\ held' = held
        BY <2>2, <3>2 DEF TouchUp
      <4>2. \A j \in Key : j = k \/ Look(j)' = Look(j)
        BY <4>1, <2>t DEF Look, IsDown
      <4> QED
        BY <2>m, <3>0, <4>1, <4>2
    <3> QED
      BY <3>1, <3>2
  <2>3. CASE UpdateRepeat
    <3>1. /\ layout' = layout /\ drawn' = drawn /\ slot' = slot /\ stuck' = stuck
          /\ held' = held \cup Locks /\ dirty' = dirty \cup Locks
          /\ drawing' = IF Locks = {} THEN drawing ELSE PartialDraw
      BY <2>3 DEF UpdateRepeat
    <3>2. \A j \in Key : j \in Locks \/ Look(j)' = Look(j)
      BY <3>1 DEF Look, IsDown
    <3> QED
      BY <2>m, <3>1, <3>2
  <2>4. CASE Redraw
    <3>1. /\ layout' = Wanted
          /\ drawn' = [k \in Key |->
                 IF k \notin KeysOf(Wanted) THEN "none"
                 ELSE IF layout = Wanted /\ drawing = "partial" /\ k \notin dirty THEN drawn[k]
                 ELSE Look(k)']
      BY <2>4 DEF Redraw
    <3>2. layout = Wanted => \A k \in Key : Look(k)' = Look(k)
      BY <2>4 DEF Redraw, touched, Look, IsDown
    <3>3. \A k \in KeysOf(Wanted) : drawn'[k] = Look(k)'
      BY <3>1, <3>2, <2>k DEF DrawnIsCurrent
    <3> QED
      BY <3>1, <3>3 DEF DrawnIsCurrent
  <2>5. ASSUME NEW p \in PhysKey, KeyPress(p) \/ KeyRelease(p) PROVE DrawnIsCurrent'
    BY <2>5, <2>s DEF KeyPress, KeyRelease, touched, picture
  <2>6. CASE Plug
    BY <2>6, <2>s DEF Plug, touched, picture
  <2>7. CASE CheckLandscape
    BY <2>7, <2>s DEF CheckLandscape, touched, picture
  <2>8. CASE Tick
    BY <2>8, <2>s DEF Tick, picture
  <2>9. CASE UNCHANGED vars
    BY <2>9, <2>s DEF vars, touched, picture
  <2> QED
    BY <2>1, <2>2, <2>3, <2>4, <2>5, <2>6, <2>7, <2>8, <2>9 DEF Next
<1> QED
  BY <1>1, <1>2, TypeInvHolds, PTL DEF Spec

------------------------------------------------------------------------------
(* Long presses *)

\* A long press that was acted on is not due again while its finger stays.
FiredNever == \A k \in fired : slot[k] # NoSlot => next[k] = Never

LEMMA FiredNeverHolds == Spec => []FiredNever
<1>1. Init => FiredNever
  BY DEF Init, FiredNever
<1>2. TypeInv /\ FiredNever /\ [Next]_vars => FiredNever'
  <2> SUFFICES ASSUME TypeInv, FiredNever, [Next]_vars PROVE FiredNever'
    OBVIOUS
  <2>t. /\ slot \in [Key -> Slot \cup {NoSlot}] /\ next \in [Key -> Int]
        /\ fired \subseteq LongKeys /\ LongKeys \subseteq Key \ Modifier
        /\ Never \in Nat
    BY KeyAssumption, NeverType DEF TypeInv, TypeOK
  <2>1. ASSUME NEW s \in Slot, NEW k \in Key, TouchDown(s, k) PROVE FiredNever'
    BY <2>1, <2>t DEF TouchDown, PutOff, FiredNever, Never
  <2>2. ASSUME NEW s \in Slot, TouchUp(s) PROVE FiredNever'
    <3>1. CASE {k \in Key : slot[k] = s} = {}
      BY <2>2, <3>1 DEF TouchUp, touched, FiredNever, Never
    <3>2. CASE {k \in Key : slot[k] = s} # {}
      <4>1. PICK k \in {j \in Key : slot[j] = s} :
              /\ slot' = [slot EXCEPT ![k] = NoSlot]
              /\ next' = [next EXCEPT ![k] = 0]
              /\ fired' = fired \ {k}
        BY <2>2, <3>2 DEF TouchUp
      <4> QED
        BY <4>1, <2>t DEF FiredNever, Never
    <3> QED
      BY <3>1, <3>2
  <2>3. CASE UpdateRepeat
    <3>1. /\ slot' = slot /\ fired' = fired \cup (Due \cap LongKeys)
          /\ next' = [k \in Key |-> IF k \in Due THEN Repeats(k) ELSE next[k]]
      BY <2>3 DEF UpdateRepeat
    <3> QED
      BY <3>1, <2>t DEF Repeats, FiredNever, Never
  <2>4. CASE Redraw
    <3>1. (slot' = slot /\ next' = next /\ fired' = fired) \/ fired' = {}
      BY <2>4 DEF Redraw, ClearKeys, touched
    <3> QED
      BY <3>1 DEF FiredNever, Never
  <2>5. CASE Tick
    <3>1. /\ slot' = slot /\ fired' = fired
          /\ next' = [k \in Key |-> IF slot[k] = NoSlot THEN next[k] ELSE Nearer(next[k])]
      BY <2>5 DEF Tick
    <3> QED
      BY <3>1, <2>t DEF Nearer, FiredNever, Never
  <2>6. ASSUME slot' = slot, next' = next, fired' = fired PROVE FiredNever'
    BY <2>6 DEF FiredNever, Never
  <2>7. ASSUME NEW p \in PhysKey, KeyPress(p) \/ KeyRelease(p) PROVE FiredNever'
    BY <2>7, <2>6 DEF KeyPress, KeyRelease, touched
  <2>8. CASE Plug
    BY <2>8, <2>6 DEF Plug, touched
  <2>9. CASE CheckLandscape
    BY <2>9, <2>6 DEF CheckLandscape, touched
  <2>10. CASE UNCHANGED vars
    BY <2>10, <2>6 DEF vars, touched, history
  <2> QED
    BY <2>1, <2>2, <2>3, <2>4, <2>5, <2>7, <2>8, <2>9, <2>10 DEF Next
<1> QED
  BY <1>1, <1>2, TypeInvHolds, PTL DEF Spec

\* The keyboard is hidden or shown only by a long press, and once for each (updateRepeat puts
\* the next repeat of such a key hours away).
THEOREM LongPressIsOnce == Spec => LongPressOnce
<1>1. TypeInv /\ FiredNever /\ [Next]_vars =>
        [hidden' # hidden => \E e \in sent' : e.repeat /\ e.key \in LongKeys \ fired]_vars
  <2> SUFFICES ASSUME TypeInv, FiredNever, Next, hidden' # hidden
               PROVE  \E e \in sent' : e.repeat /\ e.key \in LongKeys \ fired
    OBVIOUS
  <2>1. UpdateRepeat
    BY DEF Next, TouchDown, TouchUp, KeyPress, KeyRelease, Plug, CheckLandscape, Redraw, Tick, yaft
  <2>2. PICK k \in Due \cap LongKeys : TRUE
    BY <2>1 DEF UpdateRepeat
  <2>3. k \in Due \ Modifier
    BY <2>2, KeyAssumption
  <2>4. Press(k, ModsDown, TRUE) \in sent'
    BY <2>1, <2>3 DEF UpdateRepeat
  <2>5. k \notin fired
    BY <2>2, NeverType DEF Due, FiredNever
  <2> QED
    BY <2>2, <2>4, <2>5 DEF Press
<1> QED
  BY <1>1, TypeInvHolds, FiredNeverHolds, PTL DEF Spec, LongPressOnce

\* No repeat and no lock comes too early, and no long press is acted on twice.
THEOREM RepeatsAreOnTime == Spec => RepeatsOnTime
BY NothingIsEarly, LongPressIsOnce, PTL DEF RepeatsOnTime
=============================================================================
