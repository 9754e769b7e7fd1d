---------------------------- MODULE SwtconProofs ----------------------------
(***************************************************************************)
(* Theorems about swtcon's threads, for any number of callers, of pan      *)
(* buffers, of updates and of frames.                                      *)
(***************************************************************************)
EXTENDS Swtcon, FiniteSetTheorems, TLAPS

(* The frames whose buffers are in use: Low is the oldest one whose buffer   *)
(* was not cleared yet, High the one that is written next.                   *)
Low == IF vs = "wipe" THEN victim ELSE IF prev # -1 THEN prev ELSE cur
High == IF gen = "publish" THEN last + 1 ELSE last
Uncounted == IF vs = "count" THEN 1 ELSE 0

(* The counters follow one another.                                          *)
Phases ==
  /\ cur <= last
  /\ prev # -1 => prev + 1 = cur
  /\ vs = "wipe" => victim # -1 /\ victim + 1 = (IF prev # -1 THEN prev ELSE cur)
  /\ clean + Uncounted + (High - Low) = Buffers

(* The buffers in use hold the frames from Low on, all others are clean.     *)
Contents ==
  /\ \A i \in Low .. High - 1 : ring[Slot(i)] = i
  /\ \A s \in 0 .. Buffers - 1 : ring[s] = Clean \/ \E i \in Low .. High - 1 : s = Slot(i)

(* What a place in one thread says of the others: above all, that a clear    *)
(* happens before there is anything to show.                                 *)
Stages ==
  /\ msgs <= posted
  /\ vs \in {"delay", "check", "sleep", "woken"} => prev = -1
  /\ vs = "woken" => cur # last \/ clearReq \/ shutReq
  /\ clearReq => state \in {"cleared", "clearing"}
  /\ state \in {"made", "cleared", "clearing"} => posted = 0 /\ left = 0 /\ last = 0 /\ gen # "publish"

(* A blanked panel is dark on every way back to the frames.                  *)
Lit ==
  /\ vs \in {"frames", "wipe", "count", "tell", "delay"} /\ blanked => dark
  /\ vs = "leave" /\ blanked => dark \/ clearReq \/ shutReq

RingInv == TypeOK /\ Phases /\ Contents /\ Stages

------------------------------------------------------------------------------
(* The ring                                                                   *)

(* A slot is one of the ring's. *)
LEMMA SlotType ==
  ASSUME NEW i \in Nat
  PROVE  Slot(i) \in 0 .. Buffers - 1
BY SwtconAssumption DEF Slot

(* Frames that are less than a round apart have slots of their own. *)
LEMMA SlotDistinct ==
  ASSUME NEW i \in Nat, NEW j \in Nat, i < j, j - i < Buffers
  PROVE  Slot(i) # Slot(j)
<1> DEFINE b == Buffers
           p == i \div b
           q == j \div b
<1> USE SwtconAssumption
<1>1. /\ p \in Int /\ q \in Int /\ b \in Nat /\ b > 0
      /\ i = b * p + (i % b) /\ j = b * q + (j % b)
  OBVIOUS
<1> SUFFICES ASSUME i % b = j % b PROVE FALSE
  BY DEF Slot
<1> HIDE DEF b, p, q
<1>2. j - i = b * (q - p)
  BY <1>1
<1>3. q - p >= 1
  BY <1>1, <1>2
<1>4. b * (q - p) >= b
  BY <1>1, <1>3
<1> QED BY <1>1, <1>2, <1>4 DEF b

(* The frames in use are numbers. *)
LEMMA Window ==
  ASSUME TypeOK, Phases
  PROVE  /\ Low \in Nat /\ High \in Nat /\ Low <= cur /\ last <= High
         /\ High - Low <= Buffers
         /\ \A i \in Low .. High - 1 : i \in Nat
<1>1. /\ cur \in Nat /\ last \in Nat /\ Buffers \in Nat /\ clean \in Nat
      /\ prev \in Nat \cup {-1} /\ victim \in Nat \cup {-1}
  BY SwtconAssumption DEF TypeOK
<1>2. Uncounted \in {0, 1} /\ High \in {last, last + 1}
  BY DEF Uncounted, High
<1>3. Low \in Nat /\ Low <= cur
  BY <1>1 DEF Phases, Low
<1>4. clean + Uncounted + (High - Low) = Buffers
  BY DEF Phases
<1> QED BY <1>1, <1>2, <1>3, <1>4

------------------------------------------------------------------------------
(* Types                                                                      *)

LEMMA TypeInit == Init => TypeOK
<1> SUFFICES ASSUME Init PROVE TypeOK
  OBVIOUS
<1>1. 0 \in 0 .. MaxUpdates /\ 0 \in 0 .. MaxPhases /\ Buffers \in 0 .. Buffers
  BY SwtconAssumption
<1> QED BY <1>1 DEF Init, TypeOK

(* A step of the app keeps the types. *)
LEMMA TypeApp ==
  ASSUME TypeOK, Stages,
         \/ Clear \/ Shutdown
         \/ \E c \in Caller : actualUpdate(c) \/ notifyGeneratorThread(c) \/ ListEmpty(c)
  PROVE  TypeOK'
<1> USE DEF appVars, genVars, requests, vsVars
<1>1. CASE Clear
  <2>1. /\ state' \in {"cleared", "clearing", "ready"} /\ vs' \in {vs, "check"}
        /\ clearReq' \in BOOLEAN /\ genShut' \in BOOLEAN /\ shutReq' \in BOOLEAN
    BY <1>1 DEF Clear, clear, notifyVsyncThread, TypeOK
  <2>2. UNCHANGED <<app, posted, msgs, genVars, genNotify, last, ring, clean, vsVars>>
    BY <1>1 DEF Clear
  <2> QED BY <2>1, <2>2 DEF TypeOK
<1>2. CASE Shutdown
  <2>1. /\ state' \in {"tell_generator", "join_generator", "tell_vsync", "join_vsync", "gone"}
        /\ vs' \in {vs, "check"}
    BY <1>2 DEF Shutdown, shutdown, notifyVsyncThread
  <2>2. clearReq' \in BOOLEAN /\ genShut' \in BOOLEAN /\ shutReq' \in BOOLEAN /\ genNotify' \in BOOLEAN
    BY <1>2 DEF Shutdown, shutdown, TypeOK
  <2>3. UNCHANGED <<app, posted, msgs, genVars, last, ring, clean, vsVars>>
    BY <1>2 DEF Shutdown
  <2> QED BY <2>1, <2>2, <2>3 DEF TypeOK
<1>3. ASSUME NEW c \in Caller, actualUpdate(c) PROVE TypeOK'
  <2>1. posted' \in 0 .. MaxUpdates /\ msgs' \in 0 .. MaxUpdates
    BY <1>3, SwtconAssumption DEF TypeOK, Stages, actualUpdate
  <2> QED BY <1>3, <2>1 DEF TypeOK, actualUpdate
<1>4. ASSUME NEW c \in Caller, notifyGeneratorThread(c) PROVE TypeOK'
  BY <1>4 DEF TypeOK, notifyGeneratorThread
<1>5. ASSUME NEW c \in Caller, ListEmpty(c) PROVE TypeOK'
  BY <1>5 DEF TypeOK, ListEmpty
<1> QED BY <1>1, <1>2, <1>3, <1>4, <1>5

(* A step of the generator keeps the types. *)
LEMMA TypeGenerator ==
  ASSUME TypeOK, Generator
  PROVE  TypeOK'
<1> USE SwtconAssumption DEF appVars, genVars, requests, vsVars
<1>1. CASE GeneratorWakes
  <2>1. gen' = "work" /\ genNotify' \in BOOLEAN
    BY <1>1 DEF GeneratorWakes
  <2>2. UNCHANGED <<appVars, msgs, left, requests, vs, last, ring, clean, vsVars>>
    BY <1>1 DEF GeneratorWakes
  <2> QED BY <2>1, <2>2 DEF TypeOK
<1>2. CASE GeneratorSleeps
  BY <1>2 DEF TypeOK, GeneratorSleeps
<1>3. CASE GeneratorTakes
  <2>1. msgs' \in 0 .. MaxUpdates /\ left' \in 0 .. MaxPhases
    BY <1>3 DEF TypeOK, GeneratorTakes
  <2> QED BY <1>3, <2>1 DEF TypeOK, GeneratorTakes
<1>4. CASE GeneratorWrites
  <2>1. clean' \in 0 .. Buffers /\ left' \in 0 .. MaxPhases
    BY <1>4 DEF TypeOK, GeneratorWrites
  <2>2. ring' \in [0 .. Buffers - 1 -> Nat \cup {Clean, Mixed}]
    BY <1>4 DEF TypeOK, GeneratorWrites
  <2> QED BY <1>4, <2>1, <2>2 DEF TypeOK, GeneratorWrites
<1>5. CASE GeneratorPublishes
  BY <1>5 DEF TypeOK, GeneratorPublishes
<1>6. CASE GeneratorNotifies
  BY <1>6 DEF TypeOK, GeneratorNotifies, notifyVsyncThread
<1>7. CASE GeneratorEnds
  BY <1>7 DEF TypeOK, GeneratorEnds
<1> QED BY <1>1, <1>2, <1>3, <1>4, <1>5, <1>6, <1>7 DEF Generator

(* A step of the vsync thread keeps the types. *)
LEMMA TypeVsync ==
  ASSUME TypeOK, Phases, Timeout \/ Vsync
  PROVE  TypeOK'
<1> USE DEF appVars, genVars, requests, vsVars
<1>1. CASE Timeout
  <2>1. blanked' \in BOOLEAN /\ timed' \in BOOLEAN /\ vs' = "check"
    BY <1>1 DEF Timeout
  <2>2. /\ UNCHANGED <<appVars, msgs, genVars, genNotify, requests, last, ring, clean>>
        /\ UNCHANGED <<cur, prev, victim, screen, dark>>
    BY <1>1 DEF Timeout
  <2> QED BY <2>1, <2>2 DEF TypeOK
<1>2. CASE ShowFrame
  <2>1. Slot(cur) \in 0 .. Buffers - 1
    BY SlotType DEF TypeOK
  <2>2. screen' \in Nat \cup {Empty, Clean, Mixed}
    BY <1>2, <2>1 DEF TypeOK, ShowFrame, pan
  <2> QED BY <1>2, <2>2 DEF TypeOK, ShowFrame
<1>3. CASE ShowEmpty
  BY <1>3 DEF TypeOK, ShowEmpty, pan
<1>4. CASE clearDirtyBuffer
  <2>1. ring' \in [0 .. Buffers - 1 -> Nat \cup {Clean, Mixed}]
    BY <1>4 DEF TypeOK, clearDirtyBuffer
  <2> QED BY <1>4, <2>1 DEF TypeOK, clearDirtyBuffer
<1>5. CASE CountCleared
  <2>1. clean' \in 0 .. Buffers
    <3>1. clean + 1 + (High - Low) = Buffers
      BY <1>5 DEF Phases, Uncounted, CountCleared
    <3>2. High - Low >= 0 /\ clean \in Nat
      BY Window, SwtconAssumption DEF Phases, TypeOK
    <3> QED BY <1>5, <3>1, <3>2, Window, SwtconAssumption DEF CountCleared
  <2> QED BY <1>5, <2>1 DEF TypeOK, CountCleared
<1>6. CASE TellGenerator
  BY <1>6 DEF TypeOK, TellGenerator
<1>7. CASE SetDelay
  <2>1. timed' \in BOOLEAN /\ blanked' \in BOOLEAN
    BY <1>7, SwtconAssumption DEF SetDelay
  <2> QED BY <1>7, <2>1 DEF TypeOK, SetDelay
<1>8. CASE CheckWork
  <2>1. vs' \in {"woken", "sleep"} /\ dark' \in BOOLEAN
    BY <1>8 DEF CheckWork
  <2>2. /\ UNCHANGED <<appVars, msgs, genVars, genNotify, requests, last, ring, clean>>
        /\ UNCHANGED <<cur, prev, victim, timed, blanked, screen>>
    BY <1>8 DEF CheckWork
  <2> QED BY <2>1, <2>2 DEF TypeOK
<1>9. CASE unblank
  <2>1. Slot(cur) \in 0 .. Buffers - 1
    BY SlotType DEF TypeOK
  <2>2. screen' \in Nat \cup {Empty, Clean, Mixed} /\ blanked' \in BOOLEAN /\ dark' \in BOOLEAN
    BY <1>9, <2>1 DEF TypeOK, unblank
  <2>3. prev' \in Nat \cup {-1} /\ cur' \in Nat
    BY <1>9 DEF TypeOK, unblank
  <2> QED BY <1>9, <2>2, <2>3 DEF TypeOK, unblank
<1>10. CASE Requests
  <2>1. screen' \in Nat \cup {Empty, Clean, Mixed} /\ blanked' \in BOOLEAN /\ dark' \in BOOLEAN
        /\ clearReq' \in BOOLEAN
    BY <1>10 DEF TypeOK, Requests, Initialise
  <2>2. ring' \in [0 .. Buffers - 1 -> Nat \cup {Clean, Mixed}]
    BY <1>10 DEF TypeOK, Requests, Initialise
  <2> QED BY <1>10, <2>1, <2>2 DEF TypeOK, Requests
<1> QED BY <1>1, <1>2, <1>3, <1>4, <1>5, <1>6, <1>7, <1>8, <1>9, <1>10 DEF Vsync

------------------------------------------------------------------------------
(* The window of the buffers in use                                           *)

AppStep == \E c \in Caller : actualUpdate(c) \/ notifyGeneratorThread(c) \/ ListEmpty(c)

(* The steps that touch neither a buffer nor a phase. *)
Quiet ==
  \/ Clear \/ Shutdown \/ AppStep \/ Timeout
  \/ GeneratorWakes \/ GeneratorSleeps \/ GeneratorTakes \/ GeneratorNotifies \/ GeneratorEnds
  \/ TellGenerator \/ SetDelay \/ CheckWork

LEMMA QuietKeeps ==
  ASSUME Quiet \/ UNCHANGED vars
  PROVE  /\ UNCHANGED <<cur, last, prev, victim, clean, ring>>
         /\ vs' = "wipe" <=> vs = "wipe"
         /\ vs' = "count" <=> vs = "count"
         /\ gen' = "publish" <=> gen = "publish"
<1> USE DEF appVars, genVars, requests, vsVars
<1>1. CASE Clear
  BY <1>1 DEF Clear, clear, notifyVsyncThread
<1>2. CASE Shutdown
  BY <1>2 DEF Shutdown, shutdown, notifyVsyncThread
<1>3. CASE AppStep
  BY <1>3 DEF AppStep, actualUpdate, notifyGeneratorThread, ListEmpty
<1>4. CASE Timeout
  BY <1>4 DEF Timeout
<1>5. CASE GeneratorWakes \/ GeneratorSleeps \/ GeneratorTakes \/ GeneratorEnds
  BY <1>5 DEF GeneratorWakes, GeneratorSleeps, GeneratorTakes, GeneratorEnds
<1>6. CASE GeneratorNotifies
  BY <1>6 DEF GeneratorNotifies, notifyVsyncThread
<1>7. CASE TellGenerator \/ SetDelay \/ CheckWork
  BY <1>7 DEF TellGenerator, SetDelay, CheckWork
<1>8. CASE UNCHANGED vars
  BY <1>8 DEF vars
<1> QED BY <1>1, <1>2, <1>3, <1>4, <1>5, <1>6, <1>7, <1>8 DEF Quiet

(* They leave the window where it is. *)
LEMMA QuietWindow ==
  ASSUME Quiet \/ UNCHANGED vars
  PROVE  Low' = Low /\ High' = High /\ Uncounted' = Uncounted
BY QuietKeeps DEF Low, High, Uncounted

(* Every other step moves an end of the window by at most one frame. *)
LEMMA PhasesStep ==
  ASSUME RingInv, [Next]_vars
  PROVE  Phases'
<1> USE DEF appVars, genVars, requests, vsVars
<1>0. /\ cur \in Nat /\ last \in Nat /\ prev \in Nat \cup {-1} /\ victim \in Nat \cup {-1}
      /\ clean \in Nat /\ Buffers \in Nat /\ Phases
  BY SwtconAssumption DEF RingInv, TypeOK
<1>1. CASE Quiet \/ UNCHANGED vars
  BY <1>0, <1>1, QuietKeeps, QuietWindow DEF Phases
<1>2. CASE GeneratorWrites
  BY <1>0, <1>2 DEF GeneratorWrites, Phases, Low, High, Uncounted
<1>3. CASE GeneratorPublishes
  BY <1>0, <1>3 DEF GeneratorPublishes, Phases, Low, High, Uncounted
<1>4. CASE ShowFrame
  BY <1>0, <1>4 DEF ShowFrame, Phases, Low, High, Uncounted
<1>5. CASE ShowEmpty
  BY <1>0, <1>5 DEF ShowEmpty, Phases, Low, High, Uncounted
<1>6. CASE clearDirtyBuffer
  BY <1>0, <1>6 DEF clearDirtyBuffer, Phases, Low, High, Uncounted
<1>7. CASE CountCleared
  BY <1>0, <1>7 DEF CountCleared, Phases, Low, High, Uncounted
<1>8. CASE unblank
  <2>1. prev = -1 /\ (~shutReq /\ ~clearReq => cur # last)
    BY <1>8 DEF RingInv, Stages, unblank
  <2> QED BY <1>0, <1>8, <2>1 DEF unblank, Phases, Low, High, Uncounted
<1>9. CASE Requests
  BY <1>0, <1>9 DEF Requests, Phases, Low, High, Uncounted
<1> QED
  BY <1>1, <1>2, <1>3, <1>4, <1>5, <1>6, <1>7, <1>8, <1>9
  DEF Next, Done, Generator, Vsync, Quiet, AppStep

(* The places of the threads follow one another. *)
LEMMA StagesStep ==
  ASSUME RingInv, [Next]_vars
  PROVE  Stages'
<1> USE DEF appVars, genVars, requests, vsVars, Stages
<1>0. /\ Stages /\ msgs \in Nat /\ posted \in Nat /\ cur \in Nat /\ last \in Nat
      /\ cur <= last /\ left \in Nat
  BY SwtconAssumption DEF RingInv, TypeOK, Phases
<1>1. CASE Clear
  BY <1>0, <1>1 DEF Clear, clear, notifyVsyncThread
<1>2. CASE Shutdown
  BY <1>0, <1>2 DEF Shutdown, shutdown, notifyVsyncThread
<1>3. ASSUME NEW c \in Caller, actualUpdate(c) PROVE Stages'
  BY <1>0, <1>3 DEF actualUpdate
<1>4. ASSUME NEW c \in Caller, notifyGeneratorThread(c) \/ ListEmpty(c) PROVE Stages'
  BY <1>0, <1>4 DEF notifyGeneratorThread, ListEmpty
<1>5. CASE Timeout
  BY <1>0, <1>5 DEF Timeout
<1>6. CASE GeneratorWakes \/ GeneratorSleeps \/ GeneratorEnds
  BY <1>0, <1>6 DEF GeneratorWakes, GeneratorSleeps, GeneratorEnds
<1>7. CASE GeneratorTakes
  BY <1>0, <1>7 DEF GeneratorTakes
<1>8. CASE GeneratorWrites
  BY <1>0, <1>8 DEF GeneratorWrites
<1>9. CASE GeneratorPublishes
  BY <1>0, <1>9 DEF GeneratorPublishes
<1>10. CASE GeneratorNotifies
  BY <1>0, <1>10 DEF GeneratorNotifies, notifyVsyncThread
<1>11. CASE ShowFrame \/ ShowEmpty
  BY <1>0, <1>11 DEF ShowFrame, ShowEmpty
<1>12. CASE clearDirtyBuffer \/ CountCleared \/ TellGenerator
  BY <1>0, <1>12 DEF clearDirtyBuffer, CountCleared, TellGenerator
<1>13. CASE SetDelay \/ CheckWork
  BY <1>0, <1>13 DEF SetDelay, CheckWork
<1>14. CASE unblank
  BY <1>0, <1>14 DEF unblank
<1>15. CASE Requests
  BY <1>0, <1>15 DEF Requests, Initialise
<1>16. CASE UNCHANGED vars
  BY <1>0, <1>16 DEF vars
<1> QED
  BY <1>1, <1>2, <1>3, <1>4, <1>5, <1>6, <1>7, <1>8, <1>9, <1>10, <1>11, <1>12, <1>13, <1>14,
     <1>15, <1>16
  DEF Next, Done, Generator, Vsync

(* What is in the buffers while the window moves. *)
LEMMA ContentsStep ==
  ASSUME RingInv, [Next]_vars
  PROVE  Contents'
<1> USE DEF appVars, genVars, requests, vsVars
<1>0. /\ Low \in Nat /\ High \in Nat /\ Buffers \in Nat \ {0} /\ High - Low <= Buffers
      /\ Low <= cur /\ last <= High /\ cur \in Nat /\ last \in Nat /\ cur <= last
      /\ prev \in Nat \cup {-1} /\ victim \in Nat \cup {-1} /\ clean \in Nat
      /\ Uncounted \in {0, 1} /\ clean + Uncounted + (High - Low) = Buffers
      /\ (prev # -1 => prev + 1 = cur)
      /\ (vs = "wipe" => victim # -1 /\ victim + 1 = (IF prev # -1 THEN prev ELSE cur))
      /\ ring \in [0 .. Buffers - 1 -> Nat \cup {Clean, Mixed}]
      /\ Contents /\ Stages
      /\ Clean \notin Int
  BY Window, SwtconAssumption DEF RingInv, TypeOK, Phases, Uncounted
<1>1. CASE ring' = ring /\ Low' = Low /\ High' = High
  BY <1>0, <1>1 DEF Contents, Slot
<1>2. CASE Quiet \/ UNCHANGED vars
  BY <1>1, <1>2, QuietKeeps, QuietWindow
<1>3. CASE GeneratorWrites
  <2>1. High = last /\ High' = last + 1 /\ Low' = Low /\ High - Low < Buffers
    BY <1>0, <1>3 DEF GeneratorWrites, High, Low
  <2>0. Low' .. High' - 1 = Low .. last
    BY <1>0, <2>1
  <2>2. Slot(last) \in 0 .. Buffers - 1 /\ \A i \in Low .. High - 1 : Slot(i) # Slot(last)
    <3>1. ASSUME NEW i \in Low .. High - 1 PROVE Slot(i) # Slot(last)
      <4>1. i \in Nat /\ i < last /\ last - i < Buffers
        BY <1>0, <2>1
      <4> QED BY <1>0, <4>1, SlotDistinct
    <3> QED BY <1>0, <3>1, SlotType
  <2>3. ring[Slot(last)] = Clean
    BY <1>0, <2>2 DEF Contents
  <2>4. ring' = [ring EXCEPT ![Slot(last)] = last]
    BY <1>3, <2>3 DEF GeneratorWrites
  <2>5. \A i \in Low' .. High' - 1 : ring'[Slot(i)] = i
    <3> SUFFICES ASSUME NEW i \in Low .. last PROVE ring'[Slot(i)] = i
      BY <2>0
    <3>1. CASE i = last
      BY <1>0, <2>2, <2>4, <3>1
    <3>2. CASE i # last
      <4>1. i \in Low .. High - 1 /\ i \in Nat
        BY <1>0, <2>1, <3>2
      <4> QED BY <1>0, <2>2, <2>4, <4>1, SlotType DEF Contents
    <3> QED BY <3>1, <3>2
  <2>6. \A s \in 0 .. Buffers - 1 : ring'[s] = Clean \/ \E i \in Low' .. High' - 1 : s = Slot(i)
    <3> SUFFICES ASSUME NEW s \in 0 .. Buffers - 1, ring'[s] # Clean, s # Slot(last)
                 PROVE  \E i \in Low .. last : s = Slot(i)
      <4>1. last \in Low .. last
        BY <1>0
      <4> QED BY <2>0, <4>1
    <3>1. ring[s] # Clean
      BY <1>0, <2>4
    <3> QED BY <1>0, <2>1, <3>1 DEF Contents
  <2> QED BY <2>5, <2>6 DEF Contents, Slot
<1>4. CASE GeneratorPublishes
  BY <1>1, <1>4 DEF GeneratorPublishes, High, Low
<1>5. CASE ShowFrame
  BY <1>0, <1>1, <1>5 DEF ShowFrame, High, Low
<1>6. CASE ShowEmpty
  BY <1>0, <1>1, <1>6 DEF ShowEmpty, High, Low
<1>7. CASE clearDirtyBuffer
  <2>1. Low = victim /\ Low' = Low + 1 /\ High' = High /\ Low < High
    BY <1>0, <1>7 DEF clearDirtyBuffer, Low, High
  <2>2. Slot(Low) \in 0 .. Buffers - 1 /\ \A i \in Low + 1 .. High - 1 : Slot(i) # Slot(Low)
    BY <1>0, <2>1, SlotType, SlotDistinct
  <2>3. ring' = [ring EXCEPT ![Slot(Low)] = Clean]
    BY <1>7, <2>1 DEF clearDirtyBuffer
  <2>4. \A i \in Low' .. High' - 1 : ring'[Slot(i)] = i
    <3> SUFFICES ASSUME NEW i \in Low + 1 .. High - 1 PROVE ring'[Slot(i)] = i
      BY <2>1, <1>0 DEF Slot
    <3>1. i \in Low .. High - 1 /\ i \in Nat /\ Slot(i) \in 0 .. Buffers - 1
      BY <1>0, SlotType
    <3> QED BY <1>0, <2>2, <2>3, <3>1 DEF Contents
  <2>5. \A s \in 0 .. Buffers - 1 : ring'[s] = Clean \/ \E i \in Low' .. High' - 1 : s = Slot(i)
    <3> SUFFICES ASSUME NEW s \in 0 .. Buffers - 1, ring'[s] # Clean
                 PROVE  \E i \in Low + 1 .. High - 1 : s = Slot(i)
      BY <1>0, <2>1 DEF Slot
    <3>1. ring[s] # Clean /\ s # Slot(Low)
      BY <1>0, <2>2, <2>3
    <3>2. PICK i \in Low .. High - 1 : s = Slot(i)
      BY <1>0, <3>1 DEF Contents
    <3> QED BY <1>0, <3>1, <3>2
  <2> QED BY <2>4, <2>5 DEF Contents, Slot
<1>8. CASE CountCleared
  BY <1>0, <1>1, <1>8 DEF CountCleared, High, Low
<1>9. CASE unblank
  <2>1. prev = -1
    BY <1>0, <1>9 DEF Stages, unblank
  <2> QED BY <1>0, <1>1, <1>9, <2>1 DEF unblank, High, Low
<1>10. CASE Requests
  <2>1. CASE ~clearReq
    BY <1>0, <1>1, <1>10, <2>1 DEF Requests, High, Low
  <2>2. CASE clearReq
    <3>1. last = 0 /\ gen # "publish"
      BY <1>0, <2>2 DEF Stages
    <3>2. Low .. High - 1 = {}
      BY <1>0, <3>1 DEF High, Low
    <3>3. \A s \in 0 .. Buffers - 1 : ring[s] = Clean
      BY <1>0, <3>2 DEF Contents
    <3>4. ring' = ring
      BY <1>0, <1>10, <3>3 DEF Requests, Initialise
    <3> QED BY <1>0, <1>1, <1>10, <3>4 DEF Requests, High, Low
  <2> QED BY <2>1, <2>2
<1> QED
  BY <1>2, <1>3, <1>4, <1>5, <1>6, <1>7, <1>8, <1>9, <1>10
  DEF Next, Done, Generator, Vsync, Quiet, AppStep

LEMMA RingInit == Init => RingInv
<1> SUFFICES ASSUME Init PROVE RingInv
  OBVIOUS
<1>1. Low = 0 /\ High = 0 /\ Uncounted = 0
  BY DEF Init, Low, High, Uncounted
<1>2. Phases /\ Contents /\ Stages
  BY <1>1, SwtconAssumption DEF Init, Phases, Contents, Stages
<1> QED BY <1>2, TypeInit DEF RingInv

LEMMA RingStep == RingInv /\ [Next]_vars => RingInv'
<1> SUFFICES ASSUME RingInv, [Next]_vars PROVE RingInv'
  OBVIOUS
<1>1. TypeOK'
  <2>1. CASE UNCHANGED vars
    BY <2>1 DEF RingInv, TypeOK, vars, appVars, genVars, requests, vsVars
  <2> QED
    BY <2>1, TypeApp, TypeGenerator, TypeVsync DEF RingInv, Next, Done
<1> QED BY <1>1, PhasesStep, ContentsStep, StagesStep DEF RingInv

------------------------------------------------------------------------------
(* What the runs check                                                        *)

(* The clean buffers are as many as the count says. *)
LEMMA CleanCounted == ASSUME RingInv PROVE BuffersCounted
<1> DEFINE W == Low .. High - 1
           S == 0 .. Buffers - 1
           U == {Slot(i) : i \in W}
           f == [i \in W |-> Slot(i)]
<1>0. /\ Low \in Nat /\ High \in Nat /\ Buffers \in Nat \ {0} /\ High - Low <= Buffers
      /\ ring \in [S -> Nat \cup {Clean, Mixed}] /\ Contents /\ clean \in Nat
      /\ Uncounted \in {0, 1} /\ clean + Uncounted + (High - Low) = Buffers
      /\ Clean \notin Int /\ Low <= High
  BY Window, SwtconAssumption DEF RingInv, TypeOK, Phases, Uncounted
<1>1. /\ IsFiniteSet(W) /\ Cardinality(W) = High - Low
      /\ IsFiniteSet(S) /\ Cardinality(S) = Buffers
  <2>1. High - 1 \in Int /\ Low \in Int /\ 0 \in Int /\ Buffers - 1 \in Int
    BY <1>0
  <2>2. IsFiniteSet(W) /\ Cardinality(W) = IF Low > High - 1 THEN 0 ELSE High - 1 - Low + 1
    BY <2>1, FS_Interval
  <2>3. IsFiniteSet(S) /\ Cardinality(S) = IF 0 > Buffers - 1 THEN 0 ELSE Buffers - 1 - 0 + 1
    BY <2>1, FS_Interval
  <2> QED BY <1>0, <2>2, <2>3
<1>2. \A i \in W : i \in Nat /\ Slot(i) \in S
  BY <1>0, SlotType
<1>3. \A i, j \in W : Slot(i) = Slot(j) => i = j
  <2> SUFFICES ASSUME NEW i \in W, NEW j \in W, i < j PROVE Slot(i) # Slot(j)
    BY <1>0
  <2>1. i \in Nat /\ j \in Nat /\ j - i < Buffers
    BY <1>0
  <2> QED BY <2>1, SlotDistinct
<1>4. f \in Bijection(W, U)
  BY <1>3 DEF Bijection, Injection, Surjection, IsInjective
<1>5. IsFiniteSet(U) /\ Cardinality(U) = High - Low
  BY <1>1, <1>4, FS_Bijection DEF ExistsBijection
<1>6. {s \in DOMAIN ring : ring[s] = Clean} = S \ U
  <2>1. ASSUME NEW s \in S, ring[s] # Clean PROVE s \in U
    BY <1>0, <2>1 DEF Contents
  <2>2. ASSUME NEW s \in S, s \in U PROVE ring[s] # Clean
    BY <1>0, <1>2, <2>2 DEF Contents
  <2> QED BY <1>0, <2>1, <2>2
<1>7. S \cap U = U
  BY <1>2
<1>8. Cardinality(S \ U) = Buffers - (High - Low)
  <2> HIDE DEF S, U
  <2>1. Cardinality(S \ U) = Cardinality(S) - Cardinality(S \cap U)
    BY <1>1, FS_Difference
  <2> QED BY <1>1, <1>5, <1>7, <2>1
<1>9. Cardinality({s \in DOMAIN ring : ring[s] = Clean}) = Buffers - (High - Low)
  BY <1>6, <1>8
<1>10. clean + Uncounted = Buffers - (High - Low)
  BY <1>0
<1> QED BY <1>9, <1>10 DEF BuffersCounted, Uncounted

(* The frames that wait are in their buffers. *)
LEMMA RingFramesKept == ASSUME RingInv PROVE FramesKept
<1>1. /\ Low \in Nat /\ High \in Nat /\ Low <= cur /\ last <= High
      /\ cur \in Nat /\ last \in Nat /\ Contents
  BY Window DEF RingInv, TypeOK
<1>2. \A i \in cur .. last - 1 : i \in Low .. High - 1
  BY <1>1
<1> QED BY <1>1, <1>2 DEF Contents, FramesKept

(* For any number of buffers and of frames: no frame that waits is written over, mixed *)
(* or cleared, and dirtyClearCount is the number of clean buffers, less the one that   *)
(* is about to be counted. *)
THEOREM RingIsConsistent == Spec => []RingConsistent
<1>1. RingInv => RingConsistent
  BY RingFramesKept, CleanCounted DEF RingInv, RingConsistent
<1> QED BY <1>1, RingInit, RingStep, PTL DEF Spec

(* A thread that sleeps has nothing to do, or will be told. *)
LEMMA WakeupStep ==
  ASSUME RingInv, NoLostWakeup, [Next]_vars
  PROVE  NoLostWakeup'
<1> USE DEF appVars, genVars, requests, vsVars, NoLostWakeup
<1>1. CASE Clear
  BY <1>1 DEF Clear, clear, notifyVsyncThread
<1>2. CASE Shutdown
  BY <1>2 DEF Shutdown, shutdown, notifyVsyncThread
<1>3. ASSUME NEW c \in Caller, actualUpdate(c) \/ notifyGeneratorThread(c) \/ ListEmpty(c)
      PROVE  NoLostWakeup'
  BY <1>3 DEF actualUpdate, notifyGeneratorThread, ListEmpty
<1>4. CASE Timeout
  BY <1>4 DEF Timeout
<1>5. CASE GeneratorWakes \/ GeneratorSleeps \/ GeneratorTakes \/ GeneratorWrites \/ GeneratorEnds
  BY <1>5 DEF GeneratorWakes, GeneratorSleeps, GeneratorTakes, GeneratorWrites, GeneratorEnds
<1>6. CASE GeneratorPublishes
  BY <1>6 DEF GeneratorPublishes
<1>7. CASE GeneratorNotifies
  BY <1>7 DEF GeneratorNotifies, notifyVsyncThread
<1>8. CASE ShowFrame \/ ShowEmpty \/ clearDirtyBuffer \/ CountCleared \/ TellGenerator \/ SetDelay
  BY <1>8 DEF ShowFrame, ShowEmpty, clearDirtyBuffer, CountCleared, TellGenerator, SetDelay
<1>9. CASE CheckWork
  BY <1>9 DEF CheckWork
<1>10. CASE unblank \/ Requests
  BY <1>10 DEF unblank, Requests
<1>11. CASE UNCHANGED vars
  BY <1>11 DEF vars
<1> QED
  BY <1>1, <1>2, <1>3, <1>4, <1>5, <1>6, <1>7, <1>8, <1>9, <1>10, <1>11
  DEF Next, Done, Generator, Vsync

(* A panel that is off is dark for a reason on every way to the frames. *)
LEMMA LitStep ==
  ASSUME RingInv, Lit, [Next]_vars
  PROVE  Lit'
<1> USE DEF appVars, genVars, requests, vsVars, Lit
<1>1. CASE Clear
  BY <1>1 DEF Clear, clear, notifyVsyncThread
<1>2. CASE Shutdown
  BY <1>2 DEF Shutdown, shutdown, notifyVsyncThread
<1>3. ASSUME NEW c \in Caller, actualUpdate(c) \/ notifyGeneratorThread(c) \/ ListEmpty(c)
      PROVE  Lit'
  BY <1>3 DEF actualUpdate, notifyGeneratorThread, ListEmpty
<1>4. CASE Timeout
  BY <1>4 DEF Timeout
<1>5. CASE GeneratorWakes \/ GeneratorSleeps \/ GeneratorTakes \/ GeneratorWrites \/ GeneratorEnds
  BY <1>5 DEF GeneratorWakes, GeneratorSleeps, GeneratorTakes, GeneratorWrites, GeneratorEnds
<1>6. CASE GeneratorPublishes
  BY <1>6 DEF GeneratorPublishes
<1>7. CASE GeneratorNotifies
  BY <1>7 DEF GeneratorNotifies, notifyVsyncThread
<1>8. CASE ShowFrame \/ ShowEmpty
  BY <1>8 DEF ShowFrame, ShowEmpty
<1>9. CASE clearDirtyBuffer \/ CountCleared \/ TellGenerator
  BY <1>9 DEF clearDirtyBuffer, CountCleared, TellGenerator
<1>10. CASE SetDelay \/ CheckWork
  BY <1>10 DEF SetDelay, CheckWork
<1>11. CASE unblank
  BY <1>11 DEF unblank
<1>12. CASE Requests
  <2>1. CASE shutReq
    BY <1>12, <2>1 DEF Requests
  <2>2. CASE clearReq /\ Initialise
    BY <1>12, <2>2 DEF Requests, Initialise
  <2>3. CASE ~shutReq /\ blanked' = blanked /\ dark' = (dark \/ (clearReq /\ blanked))
    BY <1>12, <2>3 DEF Requests
  <2> QED BY <1>12, <2>1, <2>2, <2>3 DEF Requests
<1>13. CASE UNCHANGED vars
  BY <1>13 DEF vars
<1> QED
  BY <1>1, <1>2, <1>3, <1>4, <1>5, <1>6, <1>7, <1>8, <1>9, <1>10, <1>11, <1>12, <1>13
  DEF Next, Done, Generator, Vsync

(* The vsync thread never sleeps on a frame or a request with nobody about to notify   *)
(* it, and never drives frames to a panel it has blanked itself. *)
THEOREM FramesAreNotStranded == Spec => []FramesNotStranded
<1>1. Init => Lit /\ NoLostWakeup
  BY DEF Init, Lit, NoLostWakeup
<1>2. Lit /\ NoLostWakeup => FramesNotStranded
  BY DEF Lit, FramesNotStranded, LitFrames
<1> QED BY <1>1, <1>2, RingInit, RingStep, WakeupStep, LitStep, PTL DEF Spec

------------------------------------------------------------------------------
(* The order of the frames                                                    *)

(* The numbers from a up to, not including, b. *)
Frames(a, b) == [i \in 1 .. b - a |-> a + i - 1]

LEMMA FramesSeq ==
  ASSUME NEW a \in Nat, NEW b \in Nat, a <= b
  PROVE  /\ Frames(a, b) \in Seq(Nat) /\ Len(Frames(a, b)) = b - a
         /\ Append(Frames(a, b), b) = Frames(a, b + 1)
         /\ a # b => /\ Frames(a, b) # <<>> /\ Head(Frames(a, b)) = a
                     /\ Tail(Frames(a, b)) = Frames(a + 1, b)
<1>1. b - a \in Nat /\ \A i \in 1 .. b - a : a + i - 1 \in Nat
  OBVIOUS
<1>2. Frames(a, b) \in Seq(Nat) /\ Len(Frames(a, b)) = b - a
  BY <1>1 DEF Frames
<1>3. Append(Frames(a, b), b) = Frames(a, b + 1)
  BY <1>1, <1>2 DEF Frames
<1>4. ASSUME a # b
      PROVE  /\ Frames(a, b) # <<>> /\ Head(Frames(a, b)) = a
             /\ Tail(Frames(a, b)) = Frames(a + 1, b)
  <2>1. Frames(a, b) # <<>>
    BY <1>2, <1>4
  <2>2. Head(Frames(a, b)) = a
    BY <1>4 DEF Frames
  <2>3. Tail(Frames(a, b)) \in Seq(Nat) /\ Len(Tail(Frames(a, b))) = b - (a + 1)
    BY <1>2, <2>1
  <2>4. \A i \in 1 .. b - (a + 1) : Tail(Frames(a, b))[i] = Frames(a, b)[i + 1]
    BY <1>2, <2>1
  <2>5. \A i \in 1 .. b - (a + 1) : Frames(a, b)[i + 1] = a + 1 + i - 1
    BY DEF Frames
  <2>6. Tail(Frames(a, b)) = [i \in 1 .. b - (a + 1) |-> Tail(Frames(a, b))[i]]
    <3> DEFINE t == Tail(Frames(a, b))
    <3> HIDE DEF t
    <3>1. t \in Seq(Nat) /\ Len(t) = b - (a + 1)
      BY <2>3 DEF t
    <3>2. t = [i \in 1 .. b - (a + 1) |-> t[i]]
      BY <3>1
    <3> QED BY <3>2 DEF t
  <2>7. Tail(Frames(a, b)) = Frames(a + 1, b)
    BY <2>4, <2>5, <2>6 DEF Frames
  <2> QED BY <2>1, <2>2, <2>7
<1> QED BY <1>2, <1>3, <1>4

Waiting == [i \in 1 .. WaitingFrames |-> ring[Slot(cur + i - 1)]]

(* The frames that wait are the last ones made, in order. *)
LEMMA WaitingIsFrames == RingInv => Waiting = Frames(cur, last)
<1> SUFFICES ASSUME RingInv PROVE Waiting = Frames(cur, last)
  OBVIOUS
<1>1. /\ Low \in Nat /\ High \in Nat /\ Low <= cur /\ last <= High
      /\ cur \in Nat /\ last \in Nat /\ cur <= last /\ Contents
  BY Window DEF RingInv, TypeOK, Phases
<1>2. ASSUME NEW i \in 1 .. last - cur PROVE ring[Slot(cur + i - 1)] = cur + i - 1
  <2>1. cur + i - 1 \in Low .. High - 1
    BY <1>1
  <2> QED BY <1>1, <2>1 DEF Contents
<1> QED BY <1>2 DEF Waiting, WaitingFrames, Frames

(* A step of the threads is a step of the abstract ring, or none at all. *)
LEMMA RingRefines ==
  ASSUME RingInv, RingInv', [Next]_vars
  PROVE  [Ring!Next]_(Ring!vars)
<1> USE DEF appVars, genVars, requests, vsVars
<1>0. /\ Waiting = Frames(cur, last) /\ Waiting' = Frames(cur', last')
      /\ cur \in Nat /\ last \in Nat /\ cur <= last
  <2>1. (RingInv => Waiting = Frames(cur, last))'
    BY WaitingIsFrames, PTL
  <2>2. (Frames(cur, last))' = Frames(cur', last')
    BY DEF Frames
  <2> QED BY <2>1, <2>2, WaitingIsFrames DEF RingInv, TypeOK, Phases
<1>a. CASE UNCHANGED <<cur, last, screen>>
  <2>1. Waiting' = Waiting
    BY <1>0, <1>a
  <2> QED BY <1>a, <2>1 DEF Ring!vars, Waiting
<1>b. CASE screen' = Empty /\ UNCHANGED <<cur, last>>
  <2>1. Waiting' = Waiting
    BY <1>0, <1>b
  <2> QED BY <1>b, <2>1 DEF Ring!Next, Ring!Rest, Waiting
<1>c. CASE cur # last /\ cur' = cur + 1 /\ last' = last /\ screen' \in {screen, ring[Slot(cur)]}
  <2>1. Waiting # <<>> /\ Head(Waiting) = cur /\ Waiting' = Tail(Waiting)
    BY <1>0, <1>c, FramesSeq
  <2>2. ring[Slot(cur)] = cur
    BY <1>c, RingFramesKept, <1>0 DEF FramesKept
  <2> QED BY <1>c, <2>1, <2>2 DEF Ring!Next, Ring!Show, Ring!LeaveOut, Waiting
<1>1. CASE Quiet \/ UNCHANGED vars
  <2>1. last' = last /\ cur' = cur
    BY <1>1, QuietKeeps
  <2>2. screen' = screen
    BY <1>1
    DEF Quiet, vars, Clear, Shutdown, AppStep, actualUpdate, notifyGeneratorThread, ListEmpty, Timeout,
        GeneratorWakes, GeneratorSleeps, GeneratorTakes, GeneratorNotifies, GeneratorEnds,
        TellGenerator, SetDelay, CheckWork
  <2> QED BY <1>a, <2>1, <2>2
<1>2. CASE GeneratorWrites \/ clearDirtyBuffer \/ CountCleared
  BY <1>a, <1>2 DEF GeneratorWrites, clearDirtyBuffer, CountCleared
<1>3. CASE GeneratorPublishes
  <2>1. cur' = cur /\ last' = last + 1 /\ screen' = screen
    BY <1>3 DEF GeneratorPublishes
  <2>2. Waiting' = Append(Waiting, last) /\ Len(Waiting) = last - cur
    BY <1>0, <2>1, FramesSeq
  <2>3. High = last + 1 /\ High - Low <= Buffers /\ Low <= cur /\ Low \in Nat /\ Buffers \in Nat
    BY <1>3, Window, SwtconAssumption DEF GeneratorPublishes, High, RingInv
  <2>4. last - cur < Buffers
    BY <1>0, <2>3
  <2> QED BY <2>1, <2>2, <2>4 DEF Ring!Next, Ring!Put, Waiting
<1>4. CASE ShowFrame
  BY <1>c, <1>4 DEF ShowFrame, pan
<1>5. CASE ShowEmpty
  BY <1>a, <1>b, <1>5 DEF ShowEmpty, pan
<1>6. CASE unblank
  <2>1. ~shutReq /\ ~clearReq => cur # last
    BY <1>6 DEF RingInv, Stages, unblank
  <2> QED BY <1>a, <1>c, <1>6, <2>1 DEF unblank
<1>7. CASE Requests
  BY <1>a, <1>b, <1>7 DEF Requests, Initialise
<1> QED
  BY <1>1, <1>2, <1>3, <1>4, <1>5, <1>6, <1>7 DEF Next, Done, Generator, Vsync, Quiet, AppStep

(* The panel is driven with the frames in the order they were made, each one once and *)
(* whole, and never more of them wait than there are buffers: the threads implement   *)
(* FrameRing. *)
THEOREM FramesInOrder == Spec => ShowsInOrder
<1>1. Init => Ring!Init
  <2> SUFFICES ASSUME Init PROVE Ring!Init
    OBVIOUS
  <2>1. Waiting = Frames(0, 0)
    BY RingInit, WaitingIsFrames DEF Init
  <2>2. Waiting = <<>>
    BY <2>1, FramesSeq
  <2> QED BY <2>2 DEF Init, Ring!Init, Waiting
<1> QED BY <1>1, RingInit, RingStep, RingRefines, PTL DEF Spec, ShowsInOrder, Ring!Spec

============================================================================
