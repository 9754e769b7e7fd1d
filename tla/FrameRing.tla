------------------------------ MODULE FrameRing ------------------------------
(***************************************************************************)
(* What the ring of pan buffers of swtcon promises: the generator puts     *)
(* frames, at most Capacity of them wait, and the panel is driven with     *)
(* them in the order in which they were put, each one whole.  Between      *)
(* frames it is driven with the empty one.  A frame is left out only when  *)
(* the panel cannot be switched on.                                        *)
(***************************************************************************)
EXTENDS Integers, Sequences

CONSTANTS Capacity, Empty

VARIABLES
  made,     \* frames put so far
  waiting,  \* frames put and not yet shown
  panel     \* the frame the panel is driven with

vars == <<made, waiting, panel>>

Init == made = 0 /\ waiting = <<>> /\ panel = Empty

Put ==
  /\ Len(waiting) < Capacity
  /\ waiting' = Append(waiting, made)
  /\ made' = made + 1
  /\ UNCHANGED panel

Show ==
  /\ waiting # <<>>
  /\ panel' = Head(waiting)
  /\ waiting' = Tail(waiting)
  /\ UNCHANGED made

LeaveOut ==
  /\ waiting # <<>>
  /\ waiting' = Tail(waiting)
  /\ UNCHANGED <<made, panel>>

Rest == panel' = Empty /\ UNCHANGED <<made, waiting>>

Next == Put \/ Show \/ LeaveOut \/ Rest

Spec == Init /\ [][Next]_vars
==============================================================================
