------------------------------- MODULE Swtcon -------------------------------
(***************************************************************************)
(* The software display controller (libs/swtcon): the threads of an app    *)
(* that post updates, the vsync thread that drives the panel with the      *)
(* frames of a ring of pan buffers, and the thread between them that turns *)
(* an update into frames.  That thread is a function of xochitl's binary   *)
(* (Addresses.h: generatorFn) and modelled from how the rest uses it:      *)
(* dirtyClearCount counts the buffers it may still write, and it is woken  *)
(* by generatorNotifyVar.  Shared variables are read and written without   *)
(* locks where the code does so.                                           *)
(***************************************************************************)
EXTENDS Integers, Sequences, FiniteSetsExt

CONSTANTS
  Caller,        \* threads of the app that post updates
  Buffers,       \* pan_buffers_count
  MaxUpdates,    \* bound: updates posted in all
  MaxPhases,     \* bound: frames of one update
  BlankDelays,   \* whether *vsyncBlankDelay, which the binary sets, is not zero
  UnblankFails,  \* whether the panel may refuse to be switched on
  Clean, Mixed, Empty

ASSUME SwtconAssumption ==
  /\ Buffers \in Nat \ {0} /\ MaxUpdates \in Nat /\ MaxPhases \in Nat \ {0}
  /\ BlankDelays \subseteq BOOLEAN /\ UnblankFails \in BOOLEAN
  /\ {Clean, Mixed, Empty} \cap Int = {} /\ Clean # Mixed

VARIABLES
  state,     \* where the thread that makes and destroys the SwtconState is
  app,       \* where each caller of doUpdate is
  posted,    \* *globalMsgCounter
  msgs,      \* the number of messages in *globalMsgList2
  gen,       \* where the generator thread is
  left,      \* frames it still has to make of the message it took
  genNotify, \* *generatorNotifyVar = 0
  genShut, clearReq, shutReq,   \* the requests to the two threads
  vs,        \* where the vsync thread is
  cur, last, prev,              \* *currentPanPhase, *lastPanPhase, *previousPanPhase
  victim,    \* the argument of clearDirtyBuffer
  timed,     \* shouldBlank: the next wait has a timeout
  ring,      \* what is in each pan buffer
  clean,     \* *dirtyClearCount
  blanked,   \* *isBlanked
  screen,    \* the frame the panel is driven with
  dark       \* history: the panel is off and the thread has not waited since

appVars == <<state, app, posted>>
genVars == <<gen, left>>
requests == <<genShut, clearReq, shutReq>>
vsVars == <<cur, prev, victim, timed, blanked, screen, dark>>
vars == <<appVars, msgs, genVars, genNotify, requests, vs, last, ring, clean, vsVars>>

Slot(phase) == phase % Buffers

----------------------------------------------------------------------------
(* The app                                                                  *)

\* createThreads: the panel has been switched on, and off again, once.
Init ==
  /\ state = "made" /\ app = [c \in Caller |-> "idle"] /\ posted = 0 /\ msgs = 0
  /\ gen = "wait" /\ left = 0 /\ genNotify = FALSE
  /\ genShut = FALSE /\ clearReq = FALSE /\ shutReq = FALSE
  /\ vs = "frames" /\ cur = 0 /\ last = 0 /\ prev = -1 /\ victim = -1 /\ timed = FALSE
  /\ ring = [s \in 0 .. Buffers - 1 |-> Clean] /\ clean = Buffers
  /\ blanked = TRUE /\ screen = Empty /\ dark = TRUE

\* The broadcast, under vsyncMutex, which the thread holds while it checks.
notifyVsyncThread ==
  /\ vs # "check"
  /\ vs' = IF vs = "sleep" THEN "check" ELSE vs

clear ==
  \/ /\ state = "made"
     /\ clearReq' = TRUE /\ state' = "cleared"
     /\ UNCHANGED <<genShut, shutReq, vs>>
  \/ /\ state = "cleared"
     /\ notifyVsyncThread /\ state' = "clearing"
     /\ UNCHANGED requests
  \/ /\ state = "clearing" /\ ~clearReq
     /\ state' = "ready"
     /\ UNCHANGED <<requests, vs>>

Clear == clear /\ UNCHANGED <<app, posted, msgs, genVars, genNotify, last, ring, clean, vsVars>>

\* actualUpdate of a rectangle on the screen: the message is put in the list, ...
actualUpdate(c) ==
  /\ state = "ready" /\ app[c] = "idle" /\ posted < MaxUpdates
  /\ posted' = posted + 1
  /\ msgs' = msgs + 1
  /\ \E fullRefresh \in BOOLEAN :
       app' = [app EXCEPT ![c] = IF fullRefresh THEN "notify_wait" ELSE "notify"]
  /\ UNCHANGED <<state, genVars, genNotify, requests, vs, last, ring, clean, vsVars>>

\* ... the generator is notified, ...
notifyGeneratorThread(c) ==
  /\ app[c] \in {"notify", "notify_wait"}
  /\ genNotify' = TRUE
  /\ app' = [app EXCEPT ![c] = IF @ = "notify" THEN "idle" ELSE "wait"]
  /\ UNCHANGED <<state, posted, msgs, genVars, requests, vs, last, ring, clean, vsVars>>

\* ... and a full refresh waits for an empty list, with no lock.
ListEmpty(c) ==
  /\ app[c] = "wait" /\ msgs = 0
  /\ app' = [app EXCEPT ![c] = "idle"]
  /\ UNCHANGED <<state, posted, msgs, genVars, genNotify, requests, vs, last, ring, clean, vsVars>>

\* A notification that is sent before the request it is about.
shutdownNotifiedFirst ==
  \/ /\ state = "ready" /\ \A c \in Caller : app[c] = "idle"
     /\ genShut' = TRUE /\ state' = "tell_generator"
     /\ UNCHANGED <<clearReq, shutReq, vs, genNotify>>
  \/ /\ state = "tell_generator"
     /\ genNotify' = TRUE /\ state' = "join_generator"
     /\ UNCHANGED <<requests, vs>>
  \/ /\ state = "join_generator" /\ gen = "ended"
     /\ notifyVsyncThread /\ state' = "tell_vsync"
     /\ UNCHANGED <<requests, genNotify>>
  \/ /\ state = "tell_vsync"
     /\ shutReq' = TRUE /\ state' = "join_vsync"
     /\ UNCHANGED <<genShut, clearReq, vs, genNotify>>

shutdown ==
  \/ /\ state = "ready" /\ \A c \in Caller : app[c] = "idle"
     /\ genShut' = TRUE /\ state' = "tell_generator"
     /\ UNCHANGED <<clearReq, shutReq, vs, genNotify>>
  \/ /\ state = "tell_generator"
     /\ genNotify' = TRUE /\ state' = "join_generator"
     /\ UNCHANGED <<requests, vs>>
  \/ /\ state = "join_generator" /\ gen = "ended"
     /\ shutReq' = TRUE /\ state' = "tell_vsync"
     /\ UNCHANGED <<genShut, clearReq, vs, genNotify>>
  \/ /\ state = "tell_vsync"
     /\ notifyVsyncThread /\ state' = "join_vsync"
     /\ UNCHANGED <<requests, genNotify>>
  \/ /\ state = "join_vsync" /\ vs = "ended"
     /\ state' = "gone"
     /\ UNCHANGED <<requests, vs, genNotify>>

Shutdown == shutdown /\ UNCHANGED <<app, posted, msgs, genVars, last, ring, clean, vsVars>>

----------------------------------------------------------------------------
(* The generator thread, external                                           *)

WaitingFrames == last - cur

GeneratorWakes ==
  /\ gen = "wait" /\ genNotify
  /\ gen' = "work" /\ genNotify' = FALSE
  /\ UNCHANGED <<appVars, msgs, left, requests, vs, last, ring, clean, vsVars>>

GeneratorSleeps ==
  /\ gen = "work" /\ ~genShut
  /\ IF left = 0 THEN msgs = 0 ELSE clean = 0
  /\ gen' = "wait"
  /\ UNCHANGED <<appVars, msgs, left, genNotify, requests, vs, last, ring, clean, vsVars>>

GeneratorTakes ==
  /\ gen = "work" /\ left = 0 /\ msgs > 0
  /\ msgs' = msgs - 1
  /\ left' \in 1 .. MaxPhases
  /\ UNCHANGED <<appVars, gen, genNotify, requests, vs, last, ring, clean, vsVars>>

\* It adds its bits to what is in the buffer.
GeneratorWrites ==
  /\ gen = "work" /\ left > 0 /\ clean > 0
  /\ clean' = clean - 1 /\ left' = left - 1
  /\ ring' = [ring EXCEPT ![Slot(last)] = IF @ = Clean THEN last ELSE Mixed]
  /\ gen' = "publish"
  /\ UNCHANGED <<appVars, msgs, genNotify, requests, vs, last, vsVars>>

GeneratorPublishes ==
  /\ gen = "publish"
  /\ last' = last + 1 /\ gen' = "notify"
  /\ UNCHANGED <<appVars, msgs, left, genNotify, requests, vs, ring, clean, vsVars>>

GeneratorNotifies ==
  /\ gen = "notify"
  /\ notifyVsyncThread /\ gen' = "work"
  /\ UNCHANGED <<appVars, msgs, left, genNotify, requests, last, ring, clean, vsVars>>

GeneratorEnds ==
  /\ gen = "work" /\ genShut
  /\ gen' = "ended"
  /\ UNCHANGED <<appVars, msgs, left, genNotify, requests, vs, last, ring, clean, vsVars>>

Generator ==
  \/ GeneratorWakes \/ GeneratorSleeps \/ GeneratorTakes \/ GeneratorWrites
  \/ GeneratorPublishes \/ GeneratorNotifies \/ GeneratorEnds

----------------------------------------------------------------------------
(* The vsync thread                                                         *)

pan(frame) == screen' = frame

\* The buffer cleared is the one just shown, not the one before.
ShowFrameClearsCurrent ==
  /\ vs = "frames" /\ cur # last
  /\ pan(ring[Slot(cur)])
  /\ prev' = cur /\ cur' = cur + 1
  /\ victim' = cur
  /\ vs' = IF prev >= 0 THEN "wipe" ELSE "tell"
  /\ UNCHANGED <<appVars, msgs, genVars, genNotify, requests, last, ring, clean, timed, blanked, dark>>

\* Only the newest frame is shown.
ShowNewestFrame ==
  /\ vs = "frames" /\ cur # last
  /\ pan(ring[Slot(last - 1)])
  /\ prev' = cur /\ cur' = last
  /\ victim' = prev
  /\ vs' = IF prev >= 0 THEN "wipe" ELSE "tell"
  /\ UNCHANGED <<appVars, msgs, genVars, genNotify, requests, last, ring, clean, timed, blanked, dark>>

\* The frame of the current phase; prev keeps the buffer to be cleared after the next.
ShowFrame ==
  /\ vs = "frames" /\ cur # last
  /\ pan(ring[Slot(cur)])
  /\ prev' = cur /\ cur' = cur + 1
  /\ victim' = prev
  /\ vs' = IF prev >= 0 THEN "wipe" ELSE "tell"
  /\ UNCHANGED <<appVars, msgs, genVars, genNotify, requests, last, ring, clean, timed, blanked, dark>>

\* The buffer to be cleared is not forgotten when it has been.
ShowEmptyKeepsPrev ==
  /\ vs = "frames" /\ cur = last
  /\ pan(IF blanked THEN screen ELSE Empty)
  /\ victim' = prev /\ prev' = prev
  /\ vs' = IF prev >= 0 THEN "wipe" ELSE "delay"
  /\ UNCHANGED <<appVars, msgs, genVars, genNotify, requests, cur, last, ring, clean, timed, blanked, dark>>

\* The last buffer is cleared and not counted.
ShowEmptyUncounted ==
  /\ vs = "frames" /\ cur = last
  /\ pan(IF blanked THEN screen ELSE Empty)
  /\ victim' = prev /\ prev' = -1
  /\ ring' = IF prev >= 0 THEN [ring EXCEPT ![Slot(prev)] = Clean] ELSE ring
  /\ vs' = IF prev >= 0 THEN "tell" ELSE "delay"
  /\ UNCHANGED <<appVars, msgs, genVars, genNotify, requests, cur, last, clean, timed, blanked, dark>>

\* No frame left: the empty one, and the last buffer is cleared.
ShowEmpty ==
  /\ vs = "frames" /\ cur = last
  /\ pan(IF blanked THEN screen ELSE Empty)
  /\ victim' = prev /\ prev' = -1
  /\ vs' = IF prev >= 0 THEN "wipe" ELSE "delay"
  /\ UNCHANGED <<appVars, msgs, genVars, genNotify, requests, cur, last, ring, clean, timed, blanked, dark>>

clearDirtyBuffer ==
  /\ vs = "wipe"
  /\ ring' = [ring EXCEPT ![Slot(victim)] = Clean]
  /\ vs' = "count"
  /\ UNCHANGED <<appVars, msgs, genVars, genNotify, requests, last, clean, vsVars>>

CountCleared ==
  /\ vs = "count"
  /\ clean' = clean + 1
  /\ vs' = "tell"
  /\ UNCHANGED <<appVars, msgs, genVars, genNotify, requests, last, ring, vsVars>>

TellGenerator ==
  /\ vs = "tell"
  /\ genNotify' = TRUE
  /\ vs' = IF prev = -1 THEN "delay" ELSE "frames"
  /\ UNCHANGED <<appVars, msgs, genVars, requests, last, ring, clean, vsVars>>

\* vsyncMutex is taken; without a delay the panel is switched off at once.
SetDelay ==
  /\ vs = "delay"
  /\ timed' \in BlankDelays
  /\ blanked' = (blanked \/ ~timed')
  /\ vs' = "check"
  /\ UNCHANGED <<appVars, msgs, genVars, genNotify, requests, cur, last, prev, victim, ring, clean, screen, dark>>

\* The thread waits for requests only.
CheckRequests ==
  /\ vs = "check"
  /\ vs' = IF clearReq \/ shutReq THEN "woken" ELSE "sleep"
  /\ dark' = FALSE
  /\ UNCHANGED <<appVars, msgs, genVars, genNotify, requests, cur, last, prev, victim, ring, clean, timed,
                 blanked, screen>>

CheckWork ==
  /\ vs = "check"
  /\ vs' = IF cur # last \/ clearReq \/ shutReq THEN "woken" ELSE "sleep"
  /\ dark' = FALSE
  /\ UNCHANGED <<appVars, msgs, genVars, genNotify, requests, cur, last, prev, victim, ring, clean, timed,
                 blanked, screen>>

\* The thread leaves the wait when it has blanked the panel.
TimeoutLeaves ==
  /\ vs = "sleep" /\ timed
  /\ blanked' = TRUE /\ timed' = FALSE
  /\ vs' = "frames"
  /\ UNCHANGED <<appVars, msgs, genVars, genNotify, requests, cur, last, prev, victim, ring, clean, screen, dark>>

\* The wait timed out: the panel is switched off, and the next wait is for a notification.
Timeout ==
  /\ vs = "sleep" /\ timed
  /\ blanked' = TRUE /\ timed' = FALSE
  /\ vs' = "check"
  /\ UNCHANGED <<appVars, msgs, genVars, genNotify, requests, cur, last, prev, victim, ring, clean, screen, dark>>

\* Switched on again with the next frame, which is counted as shown even when that fails.
unblank ==
  /\ vs = "woken"
  /\ IF blanked /\ ~shutReq /\ ~clearReq
     THEN /\ prev' = cur /\ cur' = cur + 1
          /\ \/ blanked' = FALSE /\ screen' = ring[Slot(cur)] /\ UNCHANGED dark
             \/ UnblankFails /\ dark' = TRUE /\ UNCHANGED <<blanked, screen>>
     ELSE UNCHANGED <<prev, cur, blanked, screen, dark>>
  /\ vs' = "leave"
  /\ UNCHANGED <<appVars, msgs, genVars, genNotify, requests, last, victim, ring, clean, timed>>

\* The request stays set.
InitialiseKeepsRequest ==
  /\ blanked' = TRUE /\ clearReq' = clearReq /\ dark' = TRUE
  /\ screen' = Empty
  /\ ring' = [s \in DOMAIN ring |-> IF s <= 2 THEN Clean ELSE ring[s]]

\* The empty frame, the clear that was asked for, and the end.
Initialise ==
  /\ blanked' = TRUE /\ clearReq' = FALSE /\ dark' = TRUE
  /\ screen' = Empty
  /\ ring' = [s \in DOMAIN ring |-> IF s <= 2 THEN Clean ELSE ring[s]]

\* Without a waveform for it the clear does nothing.
Requests ==
  /\ vs = "leave"
  /\ \/ clearReq /\ Initialise
     \/ /\ clearReq' = FALSE
        /\ screen' = IF blanked THEN screen ELSE Empty
        /\ dark' = (dark \/ (clearReq /\ blanked))
        /\ UNCHANGED <<blanked, ring>>
  /\ vs' = IF shutReq THEN "ended" ELSE "frames"
  /\ UNCHANGED <<appVars, msgs, genVars, genNotify, genShut, shutReq, last, clean, cur, prev, victim, timed>>

Vsync ==
  \/ ShowFrame \/ ShowEmpty \/ clearDirtyBuffer \/ CountCleared \/ TellGenerator
  \/ SetDelay \/ CheckWork \/ unblank \/ Requests

----------------------------------------------------------------------------

Done == state = "gone" /\ UNCHANGED vars

Next ==
  \/ Clear \/ Shutdown \/ Timeout \/ Generator \/ Vsync \/ Done
  \/ \E c \in Caller : actualUpdate(c) \/ notifyGeneratorThread(c) \/ ListEmpty(c)

\* Every thread goes on; posting an update and destroying the state are the app's choice,
\* and what was begun is finished.
Fairness ==
  /\ WF_vars(Clear) /\ WF_vars(Generator) /\ WF_vars(Vsync)
  /\ WF_vars(Shutdown /\ state # "ready")
  /\ \A c \in Caller : WF_vars(notifyGeneratorThread(c)) /\ WF_vars(ListEmpty(c))

Spec == Init /\ [][Next]_vars /\ Fairness

----------------------------------------------------------------------------
(* Properties                                                               *)

\* The threads are at places of their loops, the counts and flags in their ranges, and every buffer and
\* the screen hold a frame, nothing or a mixture of two.
TypeOK ==
  /\ state \in {"made", "cleared", "clearing", "ready", "tell_generator", "join_generator",
                "tell_vsync", "join_vsync", "gone"}
  /\ app \in [Caller -> {"idle", "notify", "notify_wait", "wait"}]
  /\ posted \in 0 .. MaxUpdates /\ msgs \in 0 .. MaxUpdates
  /\ gen \in {"wait", "work", "publish", "notify", "ended"} /\ left \in 0 .. MaxPhases
  /\ genNotify \in BOOLEAN /\ genShut \in BOOLEAN /\ clearReq \in BOOLEAN /\ shutReq \in BOOLEAN
  /\ timed \in BOOLEAN /\ blanked \in BOOLEAN /\ dark \in BOOLEAN
  /\ vs \in {"frames", "wipe", "count", "tell", "delay", "check", "sleep", "woken", "leave", "ended"}
  /\ cur \in Nat /\ last \in Nat /\ prev \in Nat \cup {-1} /\ victim \in Nat \cup {-1}
  /\ ring \in [0 .. Buffers - 1 -> Nat \cup {Clean, Mixed}] /\ clean \in 0 .. Buffers
  /\ screen \in Nat \cup {Empty, Clean, Mixed}

\* The frames between the two phases are in their buffers as they were made: none was
\* written over, mixed with an older one, or cleared before it was shown (the ring of
\* generator and clearDirtyBuffer).
FramesKept == \A i \in cur .. last - 1 : ring[Slot(i)] = i

\* dirtyClearCount never promises the generator a buffer that is not clean yet, and
\* none is forgotten: the buffers that hold something are those of frames waiting,
\* shown, or being cleared.
BuffersCounted ==
  clean + (IF vs = "count" THEN 1 ELSE 0)
    = Cardinality({s \in DOMAIN ring : ring[s] = Clean})

\* The ring is what its counters say, and the variables keep their types.
RingConsistent == TypeOK /\ FramesKept /\ BuffersCounted

\* The panel is off while frames are shown only when the thread has not waited since the
\* panel was cleared, was left off for a clear or could not be switched on: never because
\* it was blanked with frames on their way.
LitFrames == vs = "frames" /\ cur # last /\ blanked => dark

\* A thread that is asleep with something to do is about to be notified.
NoLostWakeup ==
  vs = "sleep" /\ (cur # last \/ clearReq \/ shutReq)
    => gen = "notify" \/ state \in {"cleared", "tell_vsync"}

\* The vsync thread leaves no frame for a sleep nobody ends, and none for a panel it has
\* switched off itself.
FramesNotStranded == LitFrames /\ NoLostWakeup

\* The frames are shown in the order they were made, each at most once and whole.
Ring == INSTANCE FrameRing WITH
  Capacity <- Buffers, made <- last, panel <- screen,
  waiting <- [i \in 1 .. WaitingFrames |-> ring[Slot(cur + i - 1)]]
ShowsInOrder == Ring!Spec

\* What is begun ends: the constructor's clear, a full refresh (once no more updates
\* are posted) and the destructor return.
Returns ==
  /\ <>(state \notin {"made", "cleared", "clearing"})
  /\ \A c \in Caller : app[c] = "wait" ~> app[c] = "idle"
  /\ state = "tell_generator" ~> state = "gone"

\* Every update that was posted is taken, and its frames are shown, unless the
\* threads are shut down.
AllShown == []<>((msgs = 0 /\ left = 0 /\ cur = last) \/ genShut)

\* Nothing that was begun waits for ever.
EverythingEnds == Returns /\ AllShown
==============================================================================
