----------------------------- MODULE MCWaveforms -----------------------------
(* Model values and bounds for Waveforms: tables of up to two chunks, the      *)
(* longer of which fill more than one word.                                    *)
EXTENDS Waveforms

MCChunks ==
  [run : {TRUE}, bytes : {<<228>>}, repeated : {1, 9}] \cup [run : {TRUE}, bytes : {<<0>>}, repeated : {9}]
    \cup [run : {FALSE}, bytes : {<<27>>, <<0, 114>>}, repeated : {0}]
MCSerials ==
  {[length |-> 24, master |-> 65, second |-> 48]}
    \cup [length : {25}, master : (65 .. 90) \cup {48, 97}, second : {48, 57, 65}]
MCBounds == <<0, 10, 20>>
MCTemps == {1, 12, 21, 102}
MCRegions ==
  {[x1 |-> 0, y1 |-> 0, x2 |-> 15, y2 |-> 3], [x1 |-> -3, y1 |-> -1, x2 |-> 16, y2 |-> 4],
   [x1 |-> 3, y1 |-> 1, x2 |-> 9, y2 |-> 1], [x1 |-> 8, y1 |-> 3, x2 |-> 8, y2 |-> 3],
   [x1 |-> -3, y1 |-> 0, x2 |-> -1, y2 |-> 1], [x1 |-> 17, y1 |-> 0, x2 |-> 18, y2 |-> 1]}
=============================================================================
