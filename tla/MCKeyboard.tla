------------------------------ MODULE MCKeyboard -----------------------------
(* Values for PhysCode: no key of the attached keyboard is a modifier, or one. *)
EXTENDS Keyboard

PlainKeys == [p \in PhysKey |-> NoKey]
OneShift == LET p == CHOOSE q \in PhysKey : TRUE
            IN [q \in PhysKey |-> IF q = p THEN CHOOSE m \in Modifier : TRUE ELSE NoKey]
==============================================================================
