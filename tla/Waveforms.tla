------------------------------ MODULE Waveforms ------------------------------
(***************************************************************************)
(* swtcon's waveforms (swtcon/Waveforms.cpp) and the updates that use them *)
(* (swtcon/SwtconState.cpp): the file of the panel is found by its serial  *)
(* number, its tables are expanded and packed for the generator, one is    *)
(* chosen by the temperature, and an update takes its size and one of its  *)
(* two forms, with the region mirrored for the panel.                      *)
(*                                                                         *)
(* Levels of gray and the panel are scaled down; words keep their eight    *)
(* phases of two bits.  Indices start at 1.                                *)
(***************************************************************************)
EXTENDS Integers, SequencesExt

CONSTANTS
  Levels,        \* of gray a word is chosen by, 16 in the code
  Chunks,        \* runs and rows of a table in a file
  MaxChunks,     \* bound on them
  Serials,       \* of the panel: length, master and second character
  Bounds,        \* the lower bounds of the temperature ranges of a file, ascending
  Temps,         \* degrees that are measured
  Width, Height, \* of the panel, 1872 and 1404 in the code
  Regions        \* of updates

MaxTemps == 14
Hot == 100

ASSUME WaveformsAssumption ==
  /\ Levels \in Nat \ {0} /\ MaxChunks \in Nat
  /\ Bounds \in Seq(Int)
  /\ Len(Bounds) \in 1 .. MaxTemps /\ \A i \in 1 .. Len(Bounds) - 1 : Bounds[i] < Bounds[i + 1]
  /\ Temps \subseteq Int /\ Regions \subseteq [x1 : Int, y1 : Int, x2 : Int, y2 : Int]
  /\ Width \in Nat /\ Width % 8 = 0 /\ Height \in Nat \ {0}
  /\ Serials \subseteq [length : Nat, master : 0 .. 255, second : 0 .. 255]
  /\ \A chunk \in Chunks :
       /\ chunk \in [run : BOOLEAN, bytes : Seq(0 .. 255), repeated : 0 .. 255]
       /\ chunk.run => chunk.bytes # <<>>

\* The last two are read with skipInit; GC16 has a table for partial updates.
Tables == {"DU", "GC16", "DUfast", "GC16fast"}
skipInit(table) == table \in {"DUfast", "GC16fast"}
separatePartialTable(table) == table \in {"GC16", "GC16fast"}

VARIABLES
  phase,           \* "start", "found", "ready", "failed", "freed"
  serial, path,    \* path: the lot of the file that was found
  loaded,          \* the file: its chunks, its size of levels, the temperatures it has no table for
  globalTempTable, \* of each temperature and table: how many phases, and their two forms
  globalInitTable,
  currentTempWaveform, currentTemperature,
  message          \* the update that was sent last

vars == <<phase, serial, path, loaded, globalTempTable, globalInitTable, currentTempWaveform, currentTemperature, message>>

NoSerial == [length |-> 0, master |-> 0, second |-> 0]
NoFile == [chunks |-> <<>>, large |-> FALSE, missing |-> {}]
NoTable == [size |-> 0, full |-> <<>>, partial |-> <<>>]
NoMessage == [rect |-> <<>>, table |-> "none", fullRefresh |-> FALSE, size |-> 0, words |-> <<>>]

Init ==
  /\ phase = "start" /\ serial = NoSerial /\ path = -1 /\ loaded = NoFile
  /\ globalTempTable = [temp \in 1 .. MaxTemps |-> [table \in Tables |-> NoTable]]
  /\ globalInitTable = [temp \in 1 .. MaxTemps |-> <<>>]
  /\ currentTempWaveform = 1 /\ currentTemperature = 0 /\ message = NoMessage

----------------------------------------------------------------------------
(* The file of the panel                                                    *)

\* A to H, J to N and Q to Z stand for tens; characters are their codes, and wrap around.
FirstLettersAll == 10
FirstLetters == 8

decodeBarcode(epdSerial) ==
  LET From(letter) == (epdSerial.master - letter) % 256
      tens == IF From(65) < FirstLetters THEN From(65) * 10 + 100
              ELSE IF From(74) < 5 THEN From(74) * 10 + 180
              ELSE IF From(81) < 10 THEN From(81) * 10 + 230
              ELSE IF epdSerial.master = 48 THEN 0 ELSE -1
      ones == (epdSerial.second - 48) % 256
  IN IF epdSerial.length # 25 \/ tens = -1 \/ ones >= 10 THEN -1 ELSE tens + ones

\* The first file with the lot, or the last one that can be read.  Files in /var/lib/uboot are
\* looked for without the slash, so only those in /usr/share/remarkable can be.
findWaveformFile(signature, readable) ==
  LET fits == SelectSeq(readable, LAMBDA lot : lot = signature)
  IN IF fits # <<>> THEN signature ELSE IF readable # <<>> THEN Last(readable) ELSE -1

\* initWaveforms until the file is found; it fails when there is none, or no serial number.
Find(epdSerial, readable) ==
  /\ phase = "start"
  /\ serial' = epdSerial
  /\ path' = findWaveformFile(decodeBarcode(epdSerial), readable)
  /\ phase' = IF path' = -1 THEN "failed" ELSE "found"
  /\ UNCHANGED <<loaded, globalTempTable, globalInitTable, currentTempWaveform, currentTemperature, message>>

----------------------------------------------------------------------------
(* Its tables                                                               *)

EndMark == 256
RowMark == 257

\* A run is a byte and how often it is repeated; between two marks bytes stand for themselves.
StoredChunk(chunk) ==
  IF chunk.run THEN <<chunk.bytes[1], chunk.repeated>> ELSE <<RowMark>> \o chunk.bytes \o <<RowMark>>
Stored(chunks) == FlattenSeq([i \in DOMAIN chunks |-> StoredChunk(chunks[i])]) \o <<EndMark>>

Values(byte) == <<byte % 4, (byte \div 4) % 4, (byte \div 16) % 4, byte \div 64>>
Repeat(byte, length) == FlattenSeq([i \in 1 .. length |-> Values(byte)])

RunLength(byte) == byte + 1

\* Without a table to fill, the loop of a run takes two bytes at a time, and leaves at the last.
SizeOfRun(length) == 8 * (length \div 2) + 4 * (length % 2)

\* One byte of the file: the size that is counted, and the values that are written.
Decoding == [notAtRowEnd |-> TRUE, run |-> -1, ended |-> FALSE, size |-> 0, out |-> <<>>]
ReadByte(state, byte) ==
  IF state.ended THEN state
  ELSE IF state.run # -1
  THEN [state EXCEPT !.run = -1, !.size = @ + SizeOfRun(RunLength(byte)), !.out = @ \o Repeat(state.run, RunLength(byte))]
  ELSE IF byte = EndMark THEN [state EXCEPT !.ended = TRUE]
  ELSE IF byte = RowMark THEN [state EXCEPT !.notAtRowEnd = ~@]
  ELSE IF state.notAtRowEnd THEN [state EXCEPT !.run = byte]
  ELSE [state EXCEPT !.size = @ + 4, !.out = @ \o Values(byte)]

ReadUpTo(bytes) ==
  LET state[i \in 0 .. Len(bytes)] == IF i = 0 THEN Decoding ELSE ReadByte(state[i - 1], bytes[i])
  IN state

getTableAt(bytes) == ReadUpTo(bytes)[Len(bytes)]

\* A large file has twice the levels, of which every second is used.
elementSize(large) == IF large THEN 4 * Levels * Levels ELSE Levels * Levels
Offset(large, to, from) == IF large THEN to * 2 + from * 4 * Levels ELSE to + from * Levels

Transitions == (0 .. Levels - 1) \X (0 .. Levels - 1)

FlushesFull(count, last) == count % 8 = 0
Flushes(count, last) == count % 8 = 0 \/ last

\* Eight phases of a transition in a word; with skipInit from the first that drives it.
Packing == [count |-> 0, word |-> 0, words |-> <<>>]
PackPhase(state, phases, i, skips) ==
  LET word == state.word + phases[i] * 4 ^ (state.count % 8)
      flushes == Flushes(state.count + 1, i = Len(phases))
  IN IF skips /\ state.count = 0 /\ phases[i] = 0 THEN state
     ELSE [count |-> state.count + 1, word |-> IF flushes THEN 0 ELSE word,
           words |-> IF flushes THEN Append(state.words, word) ELSE state.words]

PackUpTo(phases, skips) ==
  LET state[i \in 0 .. Len(phases)] == IF i = 0 THEN Packing ELSE PackPhase(state[i - 1], phases, i, skips)
  IN state

Pack(phases, skips) == PackUpTo(phases, skips)[Len(phases)].words

\* A partial update leaves what does not change its level.
StillNever(transition) == FALSE
Still(transition) == transition[1] = transition[2]

\* A table whose sizes differ or that is empty is skipped.
readWaveformTable(table, bytes, large) ==
  LET decoded == getTableAt(bytes)
      elementCount == decoded.size \div elementSize(large)
      full == [t \in Transitions |->
                 Pack([i \in 1 .. elementCount |-> decoded.out[(i - 1) * elementSize(large) + Offset(large, t[1], t[2]) + 1]],
                      skipInit(table))]
      partial == [t \in Transitions |-> IF Still(t) THEN [w \in DOMAIN full[t] |-> 0] ELSE full[t]]
  IN IF decoded.size < 1 \/ decoded.size # Len(decoded.out) THEN NoTable
     ELSE [size |-> elementCount, full |-> full, partial |-> IF separatePartialTable(table) THEN partial ELSE full]

\* The first value of every phase.
readInitTable(bytes, large) ==
  LET decoded == getTableAt(bytes)
  IN [i \in 1 .. decoded.size \div elementSize(large) |-> decoded.out[(i - 1) * elementSize(large) + 1]]

Ranges == 1 .. Len(Bounds)

Load(file) ==
  /\ phase = "found"
  /\ loaded' = file
  /\ LET BytesAt(temp) == Stored(IF temp \in file.missing THEN <<>> ELSE file.chunks)
     IN /\ globalTempTable' = [temp \in 1 .. MaxTemps |->
             IF temp \in Ranges THEN [table \in Tables |-> readWaveformTable(table, BytesAt(temp), file.large)]
             ELSE globalTempTable[temp]]
        /\ globalInitTable' = [temp \in 1 .. MaxTemps |->
             IF temp \in Ranges THEN readInitTable(BytesAt(temp), file.large) ELSE globalInitTable[temp]]
  /\ phase' = "ready" /\ serial' = NoSerial /\ path' = 0
  /\ UNCHANGED <<currentTempWaveform, currentTemperature, message>>

----------------------------------------------------------------------------
(* The temperature                                                          *)

\* The list after the ranges of the file is filled with zeros.
Upper(temp) == IF temp < Len(Bounds) THEN Bounds[temp + 1] ELSE IF temp = Len(Bounds) THEN Hot ELSE 0

BelowOrAt(degrees, bound) == degrees <= bound
Below(degrees, bound) == degrees < bound

OutOfRangePast == MaxTemps + 1
OutOfRange == MaxTemps

getTemperatureIdx(degrees) ==
  LET fits == {temp \in 1 .. MaxTemps : Below(degrees, Upper(temp))}
  IN IF fits = {} THEN OutOfRange ELSE CHOOSE temp \in fits : \A other \in fits : temp <= other

\* One that cannot be read leaves the index.
updateTemperature(degrees) ==
  /\ phase = "ready" /\ message = NoMessage
  /\ currentTemperature' = degrees
  /\ currentTempWaveform' = getTemperatureIdx(degrees - 2)
  /\ UNCHANGED <<phase, serial, path, loaded, globalTempTable, globalInitTable, message>>

----------------------------------------------------------------------------
(* Updates                                                                  *)

Least(a, b) == IF a < b THEN a ELSE b
Most(a, b) == IF a < b THEN b ELSE a

LeftEdge(x) == 8 * (x \div 8)
RightEdgeInner(x) == LeftEdge(x)
RightEdge(x) == LeftEdge(x) + 7

\* Both axes are mirrored, and the panel's columns are taken by eight.
Mirrored(region) ==
  [left |-> LeftEdge(Most(Width - 1 - region.x2, 0)), top |-> Most(Height - 1 - region.y2, 0),
   right |-> RightEdge(Least(Width - 1 - region.x1, Width - 1)), bottom |-> Least(Height - 1 - region.y1, Height - 1)]

Beside(region) ==
  Width - 1 - region.x2 > Width \/ Width - 1 - region.x1 < 0 \/ Height - 1 - region.y2 > Height \/ Height - 1 - region.y1 < 0

\* setWaveforms
Form(entry, fullRefresh) == IF fullRefresh THEN entry.full ELSE entry.partial

actualUpdate(region, table, fullRefresh) ==
  /\ phase = "ready" /\ message = NoMessage
  /\ ~Beside(region)
  /\ LET entry == globalTempTable[currentTempWaveform][table]
     IN message' = [rect |-> <<region, Mirrored(region)>>, table |-> table, fullRefresh |-> fullRefresh,
                    size |-> entry.size, words |-> Form(entry, fullRefresh)]
  /\ UNCHANGED <<phase, serial, path, loaded, globalTempTable, globalInitTable, currentTempWaveform, currentTemperature>>

\* The generator took it.
Taken ==
  /\ message # NoMessage
  /\ message' = NoMessage
  /\ UNCHANGED <<phase, serial, path, loaded, globalTempTable, globalInitTable, currentTempWaveform, currentTemperature>>

Files ==
  [chunks : BoundedSeq(Chunks, MaxChunks), large : BOOLEAN, missing : {{}, {1}}]

Next ==
  \/ \E epdSerial \in Serials : \E lots \in BoundedSeq({decodeBarcode(epdSerial), 0}, 2) : Find(epdSerial, lots)
  \/ \E file \in Files : Load(file)
  \/ \E degrees \in Temps : updateTemperature(degrees)
  \/ \E region \in Regions, table \in Tables, fullRefresh \in BOOLEAN : actualUpdate(region, table, fullRefresh)
  \/ Taken

Spec == Init /\ [][Next]_vars

----------------------------------------------------------------------------
(* Properties                                                               *)

\* What the chunks of a file mean.
ExpandChunk(chunk) ==
  IF chunk.run THEN Repeat(chunk.bytes[1], chunk.repeated + 1)
  ELSE FlattenSeq([j \in DOMAIN chunk.bytes |-> Values(chunk.bytes[j])])
Expand(chunks) == FlattenSeq([i \in DOMAIN chunks |-> ExpandChunk(chunks[i])])

Side(file) == IF file.large THEN 2 * Levels ELSE Levels
PhaseCount(file) == Len(Expand(file.chunks)) \div (Side(file) * Side(file))

\* The matrix of a phase has a row for each level a pixel has and a column for each it shall have.
MatrixAt(file, i, row, column) ==
  LET scale == IF file.large THEN 2 ELSE 1
  IN Expand(file.chunks)[(i - 1) * Side(file) * Side(file) + row * scale * Side(file) + column * scale + 1]

Unpack(words, i) == IF (i - 1) \div 8 >= Len(words) THEN 0 ELSE (words[(i - 1) \div 8 + 1] \div 4 ^ ((i - 1) % 8)) % 4

\* The phases of a transition, without those before the first that drives it when they are skipped.
Drive(file, table, t) ==
  LET all == [i \in 1 .. PhaseCount(file) |-> MatrixAt(file, i, t[2], t[1])]
      driving == {i \in DOMAIN all : all[i] # 0}
      first == IF driving = {} THEN Len(all) + 1 ELSE CHOOSE i \in driving : \A other \in driving : i <= other
  IN IF skipInit(table) THEN SubSeq(all, first, Len(all)) ELSE all

\* The waveform that is used is one of those read, and the table in use was made of a file.
TypeOK ==
  /\ phase \in {"start", "found", "ready", "failed"} /\ path \in -1 .. 329
  /\ currentTempWaveform \in 1 .. MaxTemps /\ currentTemperature \in Temps \cup {0}
  /\ loaded = NoFile \/ loaded \in Files

\* Panels of different lots never get the same signature.
SignaturesDiffer ==
  decodeBarcode(serial) # -1 =>
    \A other \in Serials : decodeBarcode(other) = decodeBarcode(serial) => other = serial

\* The waveforms are those between whose bounds the temperature lies, unless it is beyond them.
WaveformsFitTemperature ==
  currentTemperature - 2 \in Bounds[1] .. Hot - 1 /\ currentTemperature # 0 =>
    /\ currentTempWaveform \in Ranges
    /\ Bounds[currentTempWaveform] <= currentTemperature - 2
    /\ currentTemperature - 2 < Upper(currentTempWaveform)

\* The file is that of this panel, its tables are those of the temperature that was measured, and
\* the variables keep their types.
RightTables == TypeOK /\ SignaturesDiffer /\ WaveformsFitTemperature

\* An update drives every pixel as the file's matrices say for its old and its new level, phase by
\* phase: the table was counted, expanded, sampled, packed and chosen without losing one.  Where a
\* partial update has a table of its own, pixels that keep their level are left alone.
UpdateDrivesAsFile ==
  message # NoMessage /\ currentTempWaveform \in Ranges \ loaded.missing /\ PhaseCount(loaded) > 0 =>
    /\ message.size = PhaseCount(loaded)
    /\ \A t \in Transitions :
         LET drive == Drive(loaded, message.table, t)
             still == separatePartialTable(message.table) /\ ~message.fullRefresh /\ t[1] = t[2]
         IN \A i \in 1 .. message.size :
              Unpack(message.words[t], i) = IF still \/ i > Len(drive) THEN 0 ELSE drive[i]

\* The mirrored region is on the panel and has every pixel of the update that is.
RegionIsCovered ==
  message # NoMessage =>
    LET region == message.rect[1]
        rect == message.rect[2]
    IN /\ rect.left >= 0 /\ rect.top >= 0 /\ rect.right < Width /\ rect.bottom < Height
       /\ \A x \in region.x1 .. region.x2, y \in region.y1 .. region.y2 :
            x \in 0 .. Width - 1 /\ y \in 0 .. Height - 1 =>
              Width - 1 - x \in rect.left .. rect.right /\ Height - 1 - y \in rect.top .. rect.bottom
=============================================================================
