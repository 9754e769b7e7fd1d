------------------------------ MODULE MCScreens ------------------------------
(* Model values and bounds for Screens. *)
EXTENDS Screens

MCCodes == {<<>>, <<1, 2>>, <<2>>}
MCPositions == {[x |-> 0, y |-> 0], [x |-> 1, y |-> 0], [x |-> 1, y |-> 1]}
MCControls == {[x |-> 1, y |-> 0]}
MCTop == [spin \in Spins |-> 1]
=============================================================================
