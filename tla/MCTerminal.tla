------------------------------ MODULE MCTerminal ------------------------------
(* Model values and bounds for Terminal. *)
EXTENDS Terminal

\* The keyboard takes a line, a hidden one less; in landscape the terminal has fewer lines.
MCLinesOf == [kind \in Layouts |-> CASE kind = "full" -> 1 [] kind = "hidden" -> 2 [] kind = "empty" -> 1]
=============================================================================
