------------------------------- MODULE MCTouch -------------------------------
(* Which devices and which receiver are looked at together, for TLC: two fingers on *)
(* the panel, what viewers send, and the real pen.                                  *)
EXTENDS Touch
CONSTANTS panel, remote, wacom, stylus, button

MCSetups ==
  ({{panel}} \X {"gesture", "keypad"}) \union ({{remote}} \X Receiver)
  \union ({{wacom}} \X {"keypad", "mouse"}) \union ({{stylus, button}} \X {"gesture"})
==============================================================================
