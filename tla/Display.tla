------------------------------- MODULE Display -------------------------------
(***************************************************************************)
(* What the framebuffer server promises the threads that call sendUpdate,  *)
(* whatever goes on between them: drawings are numbered, the panel shows   *)
(* one of them, and a call that returns has been performed after it was    *)
(* made, so that the panel shows at least what was drawn before the call.  *)
(***************************************************************************)
EXTENDS Naturals

CONSTANT Thread

VARIABLES
  last,    \* the number of the last drawing in the shared buffer
  shown,   \* the number of the drawing on the panel
  call,    \* "idle", "pending", "done" or, for a thread that is gone, "ended"
  want     \* the drawing a thread's last call is to show

vars == <<last, shown, call, want>>

Init ==
  /\ last = 0
  /\ shown = 0
  /\ call = [t \in Thread |-> "idle"]
  /\ want = [t \in Thread |-> 0]

Draw ==
  /\ last' = last + 1
  /\ UNCHANGED <<shown, call, want>>

\* An update is to show what has been drawn; an init check shows nothing.
Call(t) ==
  /\ call[t] = "idle"
  /\ call' = [call EXCEPT ![t] = "pending"]
  /\ \E n \in {0, last} : want' = [want EXCEPT ![t] = n]
  /\ UNCHANGED <<last, shown>>

Perform(t) ==
  /\ call[t] = "pending"
  /\ call' = [call EXCEPT ![t] = "done"]
  /\ shown' \in shown .. last
  /\ shown' >= want[t]
  /\ UNCHANGED <<last, want>>

\* The update of a thread that has ended in the meantime.
PerformForNobody ==
  /\ shown' \in shown .. last
  /\ UNCHANGED <<last, call, want>>

Return(t) ==
  /\ call[t] = "done"
  /\ call' = [call EXCEPT ![t] = "idle"]
  /\ UNCHANGED <<last, shown, want>>

\* The threads of a process end together.
Exit ==
  /\ \E T \in SUBSET Thread :
       call' = [t \in Thread |-> IF t \in T THEN "ended" ELSE call[t]]
  /\ UNCHANGED <<last, shown, want>>

Next ==
  \/ Draw
  \/ PerformForNobody
  \/ Exit
  \/ \E t \in Thread : Call(t) \/ Perform(t) \/ Return(t)

Spec == Init /\ [][Next]_vars
==============================================================================
