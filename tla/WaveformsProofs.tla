--------------------------- MODULE WaveformsProofs ---------------------------
(***************************************************************************)
(* Theorems about swtcon's waveforms, for any panel, any file and any      *)
(* update: which file and which table are taken, and what the words that   *)
(* are packed from a file make the panel do.                               *)
(***************************************************************************)
EXTENDS Waveforms, SequenceTheorems, WellFoundedInduction, TLAPS

------------------------------------------------------------------------------
(* The file and the temperature                                               *)

Lots == -1 .. 329

LEMMA LotsOfSerials ==
  ASSUME NEW s \in [length : Nat, master : 0 .. 255, second : 0 .. 255]
  PROVE  decodeBarcode(s) \in Lots
<1> DEFINE From(letter) == (s.master - letter) % 256
           tens == IF From(65) < FirstLetters THEN From(65) * 10 + 100
                   ELSE IF From(74) < 5 THEN From(74) * 10 + 180
                   ELSE IF From(81) < 10 THEN From(81) * 10 + 230
                   ELSE IF s.master = 48 THEN 0 ELSE -1
           ones == (s.second - 48) % 256
<1>1. From(65) \in 0 .. 255 /\ From(74) \in 0 .. 255 /\ From(81) \in 0 .. 255 /\ ones \in 0 .. 255
  OBVIOUS
<1>2. decodeBarcode(s) = IF s.length # 25 \/ tens = -1 \/ ones >= 10 THEN -1 ELSE tens + ones
  BY DEF decodeBarcode
<1> HIDE DEF From, ones
<1>3. tens \in -1 .. 320
  BY <1>1 DEF FirstLetters
<1> HIDE DEF tens
<1> QED
  BY <1>1, <1>2, <1>3 DEF Lots

\* The tens and the ones of a lot are those of one serial number only.
LEMMA SerialOfLot ==
  ASSUME NEW s \in [length : Nat, master : 0 .. 255, second : 0 .. 255],
         NEW o \in [length : Nat, master : 0 .. 255, second : 0 .. 255],
         decodeBarcode(s) # -1, decodeBarcode(o) = decodeBarcode(s)
  PROVE  o = s
<1> DEFINE From(m, letter) == (m - letter) % 256
           tens(m) == IF From(m, 65) < FirstLetters THEN From(m, 65) * 10 + 100
                      ELSE IF From(m, 74) < 5 THEN From(m, 74) * 10 + 180
                      ELSE IF From(m, 81) < 10 THEN From(m, 81) * 10 + 230
                      ELSE IF m = 48 THEN 0 ELSE -1
           ones(n) == (n - 48) % 256
<1>1. \A r \in {s, o} :
        decodeBarcode(r) = IF r.length # 25 \/ tens(r.master) = -1 \/ ones(r.second) >= 10 THEN -1
                           ELSE tens(r.master) + ones(r.second)
  BY DEF decodeBarcode
<1>2. \A m \in 0 .. 255 :
        /\ From(m, 65) = IF m >= 65 THEN m - 65 ELSE m + 191
        /\ From(m, 74) = IF m >= 74 THEN m - 74 ELSE m + 182
        /\ From(m, 81) = IF m >= 81 THEN m - 81 ELSE m + 175
        /\ ones(m) = IF m >= 48 THEN m - 48 ELSE m + 208
  OBVIOUS
<1> HIDE DEF From, ones
<1>3. \A m \in 0 .. 255 :
        tens(m) = IF m \in 65 .. 72 THEN (m - 65) * 10 + 100
                  ELSE IF m \in 74 .. 78 THEN (m - 74) * 10 + 180
                  ELSE IF m \in 81 .. 90 THEN (m - 81) * 10 + 230
                  ELSE IF m = 48 THEN 0 ELSE -1
  BY <1>2 DEF FirstLetters
<1> HIDE DEF tens
<1>4. \A r \in {s, o} : r.length \in Nat /\ r.master \in 0 .. 255 /\ r.second \in 0 .. 255
  OBVIOUS
<1>5. \A r \in {s, o} : r.length = 25 /\ tens(r.master) # -1 /\ ones(r.second) \in 0 .. 9
                        /\ decodeBarcode(r) = tens(r.master) + ones(r.second)
  BY <1>1, <1>2, <1>4
<1>6. tens(s.master) + ones(s.second) = tens(o.master) + ones(o.second)
  BY <1>5
<1>7. \A m \in 0 .. 255 : tens(m) # -1 => \E k \in 0 .. 32 : tens(m) = 10 * k
  <2> SUFFICES ASSUME NEW m \in 0 .. 255, tens(m) # -1 PROVE \E k \in 0 .. 32 : tens(m) = 10 * k
    OBVIOUS
  <2>1. CASE m \in 65 .. 72
    <3>1. tens(m) = 10 * (m - 65 + 10) /\ m - 65 + 10 \in 0 .. 32
      BY <1>3, <2>1
    <3> QED BY <3>1
  <2>2. CASE m \in 74 .. 78
    <3>1. tens(m) = 10 * (m - 74 + 18) /\ m - 74 + 18 \in 0 .. 32
      BY <1>3, <2>2
    <3> QED BY <3>1
  <2>3. CASE m \in 81 .. 90
    <3>1. tens(m) = 10 * (m - 81 + 23) /\ m - 81 + 23 \in 0 .. 32
      BY <1>3, <2>3
    <3> QED BY <3>1
  <2>4. CASE m = 48
    <3>1. tens(m) = 10 * 0
      BY <1>3, <2>4
    <3> QED BY <3>1
  <2> QED BY <1>3, <2>1, <2>2, <2>3, <2>4
<1>8. tens(s.master) = tens(o.master) /\ ones(s.second) = ones(o.second)
  <2>1. /\ s.master \in 0 .. 255 /\ o.master \in 0 .. 255
        /\ tens(s.master) # -1 /\ tens(o.master) # -1
        /\ ones(s.second) \in 0 .. 9 /\ ones(o.second) \in 0 .. 9
    BY <1>4, <1>5
  <2>2. PICK j \in 0 .. 32 : tens(s.master) = 10 * j
    BY <1>7, <2>1
  <2>3. PICK k \in 0 .. 32 : tens(o.master) = 10 * k
    BY <1>7, <2>1
  <2>4. PICK x \in 0 .. 9 : ones(s.second) = x
    BY <2>1
  <2>5. PICK y \in 0 .. 9 : ones(o.second) = y
    BY <2>1
  <2>6. 10 * j + x = 10 * k + y
    BY <1>6, <2>2, <2>3, <2>4, <2>5
  <2>7. j = k /\ x = y
    BY <2>6
  <2> QED BY <2>2, <2>3, <2>4, <2>5, <2>7
<1>9. s.second = o.second
  <2>1. s.second \in 0 .. 255 /\ o.second \in 0 .. 255
    BY <1>4
  <2>2. /\ ones(s.second) = IF s.second >= 48 THEN s.second - 48 ELSE s.second + 208
        /\ ones(o.second) = IF o.second >= 48 THEN o.second - 48 ELSE o.second + 208
    BY <1>2, <2>1
  <2> DEFINE Ones(m) == IF m >= 48 THEN m - 48 ELSE m + 208
  <2>3. PICK m \in 0 .. 255 : m = s.second
    BY <2>1
  <2>4. PICK n \in 0 .. 255 : n = o.second
    BY <2>1
  <2>5. Ones(m) = Ones(n)
    BY <1>8, <2>2, <2>3, <2>4
  <2>6. m = n
    BY <2>5
  <2> QED BY <2>3, <2>4, <2>6
<1>10. s.master = o.master
  BY <1>3, <1>4, <1>5, <1>8
<1> QED
  BY <1>4, <1>5, <1>9, <1>10

LEMMA FoundLot ==
  ASSUME NEW epdSerial \in Serials, NEW lots \in BoundedSeq({decodeBarcode(epdSerial), 0}, 2)
  PROVE  findWaveformFile(decodeBarcode(epdSerial), lots) \in Lots
<1>1. decodeBarcode(epdSerial) \in Lots /\ 0 \in Lots
  BY WaveformsAssumption, LotsOfSerials DEF Lots
<1>2. lots # <<>> => Last(lots) \in {decodeBarcode(epdSerial), 0}
  <2>1. PICK n \in 0 .. 2 : lots \in [1 .. n -> {decodeBarcode(epdSerial), 0}]
    BY DEF BoundedSeq, SeqOf
  <2>2. lots \in Seq({decodeBarcode(epdSerial), 0}) /\ Len(lots) = n
    BY <2>1
  <2>3. lots # <<>> => Len(lots) \in 1 .. Len(lots)
    BY <2>2
  <2> QED BY <2>2, <2>3 DEF Last
<1> QED
  BY <1>1, <1>2 DEF findWaveformFile, Lots

\* The bounds of the ranges leave no gap, and the one that is chosen holds the degrees.
LEMMA RangeFits ==
  ASSUME NEW degrees \in Int
  PROVE  /\ getTemperatureIdx(degrees) \in 1 .. MaxTemps
         /\ degrees \in Bounds[1] .. Hot - 1 =>
              /\ getTemperatureIdx(degrees) \in Ranges
              /\ Bounds[getTemperatureIdx(degrees)] <= degrees
              /\ degrees < Upper(getTemperatureIdx(degrees))
<1> DEFINE fits == {temp \in 1 .. MaxTemps : Below(degrees, Upper(temp))}
           least == CHOOSE temp \in fits : \A other \in fits : temp <= other
<1>1. getTemperatureIdx(degrees) = IF fits = {} THEN OutOfRange ELSE least
  BY DEF getTemperatureIdx
<1>2. fits # {} => least \in fits /\ \A other \in fits : least <= other
  <2> SUFFICES ASSUME fits # {} PROVE \E temp \in fits : \A other \in fits : temp <= other
    OBVIOUS
  <2>1. \A x, y \in Nat : x < y => <<x, y>> \in OpToRel(<, Nat)
    BY DEF OpToRel
  <2>2. PICK temp \in fits : \A other \in fits : ~ (<<other, temp>> \in OpToRel(<, Nat))
    <3>1. fits \subseteq Nat
      OBVIOUS
    <3> HIDE DEF fits
    <3> QED BY <3>1, NatLessThanWellFounded, WFMin
  <2>3. \A other \in fits : other \in Nat /\ temp \in Nat
    OBVIOUS
  <2>4. \A other \in fits : ~ (other < temp)
    BY <2>1, <2>2, <2>3
  <2> QED BY <2>3, <2>4
<1> HIDE DEF least
<1>3. getTemperatureIdx(degrees) \in 1 .. MaxTemps
  BY <1>1, <1>2 DEF OutOfRange, MaxTemps
<1>4. ASSUME degrees \in Bounds[1] .. Hot - 1
      PROVE  /\ getTemperatureIdx(degrees) \in Ranges
             /\ Bounds[getTemperatureIdx(degrees)] <= degrees
             /\ degrees < Upper(getTemperatureIdx(degrees))
  <2>0. Len(Bounds) \in 1 .. MaxTemps /\ \A i \in 1 .. Len(Bounds) : Bounds[i] \in Int
    BY WaveformsAssumption
  <2>1. Upper(Len(Bounds)) = Hot
    BY <2>0 DEF Upper
  <2>2. Len(Bounds) \in fits
    BY <1>4, <2>0, <2>1 DEF Below, Hot
  <2>3. least \in fits /\ least <= Len(Bounds) /\ least \in Ranges
    BY <1>2, <2>0, <2>2 DEF Ranges
  <2>4. degrees < Upper(least)
    BY <2>3 DEF Below
  <2>5. Bounds[least] <= degrees
    <3>1. CASE least = 1
      BY <1>4, <2>0, <3>1
    <3>2. CASE least # 1
      <4>1. least - 1 \in 1 .. MaxTemps /\ least - 1 \notin fits
        BY <1>2, <2>0, <2>3, <3>2 DEF MaxTemps
      <4>2. Upper(least - 1) = Bounds[least]
        <5>1. least \in 1 .. Len(Bounds) /\ least - 1 < Len(Bounds) /\ least - 1 + 1 = least
          BY <2>0, <2>3 DEF Ranges
        <5> QED BY <5>1 DEF Upper
      <4> QED BY <2>0, <2>3, <4>1, <4>2 DEF Below, Ranges
    <3> QED BY <3>1, <3>2
  <2> QED BY <1>1, <2>2, <2>3, <2>4, <2>5
<1> QED
  BY <1>3, <1>4

\* Whatever is found, loaded, measured and updated, the file that is taken is that of this
\* panel and the table that of the temperature.
THEOREM TablesAreRight == Spec => []RightTables
<1> DEFINE Inv == RightTables /\ (serial \in Serials \/ serial = NoSerial)
<1>0. decodeBarcode(NoSerial) = -1
  BY DEF decodeBarcode, NoSerial
<1>1. Init => Inv
  <2> SUFFICES ASSUME Init PROVE Inv
    OBVIOUS
  <2>1. TypeOK
    BY DEF Init, TypeOK, MaxTemps
  <2>2. SignaturesDiffer
    BY <1>0 DEF Init, SignaturesDiffer
  <2>3. WaveformsFitTemperature
    BY DEF Init, WaveformsFitTemperature
  <2> QED BY <2>1, <2>2, <2>3 DEF Init, RightTables
<1>2. Inv /\ [Next]_vars => Inv'
  <2> SUFFICES ASSUME Inv, [Next]_vars PROVE Inv'
    OBVIOUS
  <2> USE DEF RightTables
  <2>1. ASSUME NEW epdSerial \in Serials, NEW lots \in BoundedSeq({decodeBarcode(epdSerial), 0}, 2),
               Find(epdSerial, lots)
        PROVE  Inv'
    <3>1. TypeOK'
      BY <2>1, FoundLot DEF Find, TypeOK, Lots
    <3>2. SignaturesDiffer'
      BY <2>1, SerialOfLot, WaveformsAssumption DEF Find, SignaturesDiffer
    <3>3. WaveformsFitTemperature'
      BY <2>1 DEF Find, WaveformsFitTemperature
    <3> QED BY <2>1, <3>1, <3>2, <3>3 DEF Find
  <2>2. ASSUME NEW file \in Files, Load(file)
        PROVE  Inv'
    <3>1. TypeOK'
      BY <2>2 DEF Load, TypeOK
    <3>2. SignaturesDiffer'
      BY <1>0, <2>2 DEF Load, SignaturesDiffer
    <3>3. WaveformsFitTemperature'
      BY <2>2 DEF Load, WaveformsFitTemperature
    <3> QED BY <2>2, <3>1, <3>2, <3>3 DEF Load
  <2>3. ASSUME NEW degrees \in Temps, updateTemperature(degrees)
        PROVE  Inv'
    <3>0. degrees \in Int /\ degrees - 2 \in Int
      BY WaveformsAssumption
    <3>1. TypeOK'
      BY <2>3, <3>0, RangeFits DEF updateTemperature, TypeOK
    <3>2. SignaturesDiffer'
      BY <2>3 DEF updateTemperature, SignaturesDiffer
    <3>3. WaveformsFitTemperature'
      BY <2>3, <3>0, RangeFits DEF updateTemperature, WaveformsFitTemperature
    <3> QED BY <2>3, <3>1, <3>2, <3>3 DEF updateTemperature
  <2>4. ASSUME UNCHANGED <<phase, serial, path, loaded, currentTempWaveform, currentTemperature>>
        PROVE  Inv'
    BY <2>4 DEF TypeOK, SignaturesDiffer, WaveformsFitTemperature
  <2> QED
    BY <2>1, <2>2, <2>3, <2>4 DEF Next, actualUpdate, Taken, vars
<1>3. Inv => RightTables
  OBVIOUS
<1> QED
  BY <1>1, <1>2, <1>3, PTL DEF Spec

------------------------------------------------------------------------------
(* The region                                                                 *)

LEMMA MirroredCovers ==
  ASSUME NEW region \in [x1 : Int, y1 : Int, x2 : Int, y2 : Int], ~Beside(region)
  PROVE  LET rect == Mirrored(region)
         IN /\ rect.left >= 0 /\ rect.top >= 0 /\ rect.right < Width /\ rect.bottom < Height
            /\ \A x \in region.x1 .. region.x2, y \in region.y1 .. region.y2 :
                 x \in 0 .. Width - 1 /\ y \in 0 .. Height - 1 =>
                   Width - 1 - x \in rect.left .. rect.right /\ Height - 1 - y \in rect.top .. rect.bottom
<1>1. /\ Width \in Nat /\ Width % 8 = 0 /\ Height \in Nat
      /\ region.x1 \in Int /\ region.x2 \in Int /\ region.y1 \in Int /\ region.y2 \in Int
      /\ Width - 1 - region.x1 >= 0 /\ Height - 1 - region.y1 >= 0
  BY WaveformsAssumption DEF Beside
<1>2. \A x \in Int : LeftEdge(x) \in Int /\ LeftEdge(x) <= x /\ x <= LeftEdge(x) + 7 /\ LeftEdge(x) % 8 = 0
  BY DEF LeftEdge
<1>3. \A x \in Int : x < Width => RightEdge(x) \in Int /\ x <= RightEdge(x) /\ RightEdge(x) < Width
  <2> SUFFICES ASSUME NEW x \in Int, x < Width
               PROVE  RightEdge(x) \in Int /\ x <= RightEdge(x) /\ RightEdge(x) < Width
    OBVIOUS
  <2>1. LeftEdge(x) \in Int /\ LeftEdge(x) <= x /\ x <= LeftEdge(x) + 7 /\ LeftEdge(x) % 8 = 0
    BY <1>2
  <2> QED BY <1>1, <2>1 DEF RightEdge
<1>4. \A x \in Nat : LeftEdge(x) >= 0
  BY DEF LeftEdge
<1> DEFINE a == Most(Width - 1 - region.x2, 0)
           b == Least(Width - 1 - region.x1, Width - 1)
           c == Most(Height - 1 - region.y2, 0)
           d == Least(Height - 1 - region.y1, Height - 1)
<1>5. /\ a \in Nat /\ c \in Nat /\ b \in Int /\ b < Width /\ d \in Int /\ d < Height
      /\ \A x \in region.x1 .. region.x2 : x \in 0 .. Width - 1 => a <= Width - 1 - x /\ Width - 1 - x <= b
      /\ \A y \in region.y1 .. region.y2 : y \in 0 .. Height - 1 => c <= Height - 1 - y /\ Height - 1 - y <= d
  BY <1>1 DEF Most, Least
<1>6. /\ Mirrored(region).left = LeftEdge(a) /\ Mirrored(region).right = RightEdge(b)
      /\ Mirrored(region).top = c /\ Mirrored(region).bottom = d
  BY DEF Mirrored
<1> HIDE DEF a, b, c, d
<1>7. /\ LeftEdge(a) \in Int /\ LeftEdge(a) >= 0 /\ LeftEdge(a) <= a
      /\ RightEdge(b) \in Int /\ RightEdge(b) < Width /\ b <= RightEdge(b)
  <2>1. a \in Nat /\ a \in Int /\ b \in Int /\ b < Width
    BY <1>5
  <2>2. LeftEdge(a) \in Int /\ LeftEdge(a) >= 0 /\ LeftEdge(a) <= a
    BY <1>2, <1>4, <2>1
  <2>3. RightEdge(b) \in Int /\ RightEdge(b) < Width /\ b <= RightEdge(b)
    BY <1>3, <2>1
  <2> QED BY <2>2, <2>3
<1> QED
  BY <1>1, <1>5, <1>6, <1>7

\* For every region that is not beside a panel of any size: the mirrored region is on the
\* panel and has every pixel of the update.
THEOREM UpdatesCoverTheirRegion == Spec => []RegionIsCovered
<1> DEFINE Inv == message # NoMessage =>
                    \E region \in Regions : ~Beside(region) /\ message.rect = <<region, Mirrored(region)>>
<1>1. Init => Inv
  BY DEF Init
<1>2. Inv /\ [Next]_vars => Inv'
  <2> SUFFICES ASSUME Inv, [Next]_vars PROVE Inv'
    OBVIOUS
  <2>1. ASSUME NEW region \in Regions, NEW table \in Tables, NEW fullRefresh \in BOOLEAN,
               actualUpdate(region, table, fullRefresh)
        PROVE  Inv'
    BY <2>1 DEF actualUpdate
  <2>2. CASE message' \in {message, NoMessage}
    BY <2>2
  <2> QED
    BY <2>1, <2>2 DEF Next, Find, Load, updateTemperature, Taken, vars
<1>3. Inv => RegionIsCovered
  <2> SUFFICES ASSUME message # NoMessage, NEW region \in Regions, ~Beside(region),
                      message.rect = <<region, Mirrored(region)>>
               PROVE  RegionIsCovered
    BY DEF RegionIsCovered
  <2>1. region \in [x1 : Int, y1 : Int, x2 : Int, y2 : Int]
    BY WaveformsAssumption
  <2>2. message.rect[1] = region /\ message.rect[2] = Mirrored(region)
    OBVIOUS
  <2> QED
    BY <2>1, <2>2, MirroredCovers DEF RegionIsCovered
<1> QED
  BY <1>1, <1>2, <1>3, PTL DEF Spec

------------------------------------------------------------------------------
(* Induction over sequences                                                   *)

LEMMA InductionOverSet ==
  ASSUME NEW S, 0 \in S, \A n \in Nat : n \in S => n + 1 \in S
  PROVE  Nat \subseteq S
<1> DEFINE T == Nat \ S
<1> SUFFICES ASSUME T # {} PROVE FALSE
  OBVIOUS
<1>1. \A x \in Nat, y \in Nat : y < x => <<y, x>> \in OpToRel(<, Nat)
  BY DEF OpToRel
<1>2. PICK x \in T : \A y \in T : ~ (<<y, x>> \in OpToRel(<, Nat))
  <2>1. T \subseteq Nat
    OBVIOUS
  <2> HIDE DEF T
  <2> QED BY <2>1, NatLessThanWellFounded, WFMin
<1>3. x \in Nat /\ x # 0 /\ x \notin S
  OBVIOUS
<1>4. x - 1 \in Nat /\ x - 1 < x /\ x - 1 + 1 = x
  BY <1>3
<1>5. x - 1 \in S
  BY <1>1, <1>2, <1>3, <1>4
<1> QED BY <1>3, <1>4, <1>5

LEMMA Ascends ==
  ASSUME NEW m \in Nat, NEW S, 0 \in S, \A j \in 1 .. m : j - 1 \in S => j \in S
  PROVE  0 .. m \subseteq S
<1> DEFINE T == {k \in Nat : k <= m => k \in S}
<1>1. 0 \in T
  OBVIOUS
<1>2. ASSUME NEW k \in Nat, k \in T PROVE k + 1 \in T
  <2> SUFFICES ASSUME k + 1 <= m PROVE k + 1 \in S
    OBVIOUS
  <2>1. PICK j \in 1 .. m : j = k + 1
    OBVIOUS
  <2>2. j - 1 = k
    BY <2>1
  <2> QED BY <1>2, <2>1, <2>2
<1>3. Nat \subseteq T
  <2> HIDE DEF T
  <2> QED BY <1>1, <1>2, InductionOverSet
<1> QED BY <1>3

\* A function on an initial segment of the numbers is defined by its first value and a step.
Recurs(r, n, D, base, Step) ==
  /\ r \in [0 .. n -> D]
  /\ r[0] = base
  /\ \A i \in 1 .. n : r[i] = Step[<<r[i - 1], i>>]

LEMMA Recursion ==
  ASSUME NEW n \in Nat, NEW D, NEW base \in D, NEW Step \in [D \X (1 .. n) -> D]
  PROVE  \E r : Recurs(r, n, D, base, Step)
<1> USE DEF Recurs
<1> DEFINE Defines(r, m) == Recurs(r, m, D, base, Step)
           S == {m \in Nat : m <= n => \E r : Defines(r, m)}
<1>1. 0 \in S
  <2>1. Defines([i \in 0 .. 0 |-> base], 0)
    OBVIOUS
  <2> QED BY <2>1
<1>2. ASSUME NEW m \in Nat, m \in S PROVE m + 1 \in S
  <2> SUFFICES ASSUME m + 1 <= n PROVE \E r : Defines(r, m + 1)
    OBVIOUS
  <2>1. PICK r : Defines(r, m)
    BY <1>2
  <2> DEFINE s == [i \in 0 .. m + 1 |-> IF i = m + 1 THEN Step[<<r[m], m + 1>>] ELSE r[i]]
  <2>2. r \in [0 .. m -> D] /\ r[m] \in D /\ m + 1 \in 1 .. n
    BY <2>1
  <2>3. Step[<<r[m], m + 1>>] \in D
    BY <2>2
  <2>4. s \in [0 .. m + 1 -> D]
    <3>1. ASSUME NEW i \in 0 .. m + 1 PROVE (IF i = m + 1 THEN Step[<<r[m], m + 1>>] ELSE r[i]) \in D
      <4>1. i # m + 1 => i \in 0 .. m
        OBVIOUS
      <4> QED BY <2>2, <2>3, <4>1
    <3> QED BY <3>1
  <2>5. s[0] = base
    BY <2>1
  <2>6. ASSUME NEW i \in 1 .. m + 1 PROVE s[i] = Step[<<s[i - 1], i>>]
    <3>1. CASE i = m + 1
      <4>1. i - 1 = m /\ m # m + 1 /\ m \in 0 .. m + 1
        BY <3>1
      <4> QED BY <3>1, <4>1
    <3>2. CASE i # m + 1
      <4>1. i \in 1 .. m /\ i - 1 \in 0 .. m + 1 /\ i - 1 # m + 1
        BY <3>2
      <4> QED BY <2>1, <3>2, <4>1
    <3> QED BY <3>1, <3>2
  <2>7. Defines(s, m + 1)
    BY <2>4, <2>5, <2>6
  <2> HIDE DEF Defines, s
  <2> QED BY <2>7
<1>3. n \in S
  <2> HIDE DEF S
  <2> QED BY <1>1, <1>2, InductionOverSet
<1> QED BY <1>3

\* f has what FlattenSeq has made of the first sequences.
Flattens(f, seqs, n, A) ==
  /\ seqs \in [1 .. n -> Seq(A)]
  /\ f \in [0 .. n -> Seq(A)]
  /\ f[0] = <<>>
  /\ \A i \in 1 .. n : f[i] = f[i - 1] \o seqs[i]

LEMMA FlattensExists ==
  ASSUME NEW A, NEW n \in Nat, NEW seqs \in [1 .. n -> Seq(A)]
  PROVE  \E f : Flattens(f, seqs, n, A)
<1> DEFINE D == Seq(A)
           empty == <<>>
           Step == [x \in D \X (1 .. n) |-> x[1] \o seqs[x[2]]]
<1>1. empty \in D
  OBVIOUS
<1>2. Step \in [D \X (1 .. n) -> D]
  <2>1. ASSUME NEW x \in D \X (1 .. n) PROVE x[1] \o seqs[x[2]] \in D
    <3>1. x[1] \in Seq(A) /\ seqs[x[2]] \in Seq(A)
      OBVIOUS
    <3> QED BY <3>1, ConcatProperties
  <2> QED BY <2>1
<1>3. \A s \in D, i \in 1 .. n : Step[<<s, i>>] = s \o seqs[i]
  OBVIOUS
<1> HIDE DEF Step, empty
<1>4. PICK r : Recurs(r, n, D, empty, Step)
  <2> HIDE DEF D
  <2> QED BY <1>1, <1>2, Recursion
<1>5. \A i \in 1 .. n : r[i] = r[i - 1] \o seqs[i]
  <2>1. \A i \in 1 .. n : r[i - 1] \in D
    <3>1. \A i \in 1 .. n : i - 1 \in 0 .. n
      OBVIOUS
    <3> HIDE DEF D
    <3> QED BY <1>4, <3>1 DEF Recurs
  <2> QED BY <1>3, <1>4, <2>1 DEF Recurs
<1> QED BY <1>4, <1>5 DEF Flattens, Recurs, empty

\* w is u and then v, by lengths and indices.
Joins(w, u, v) ==
  /\ Len(w) = Len(u) + Len(v)
  /\ Len(u) \in Nat /\ Len(v) \in Nat /\ Len(w) \in Nat
  /\ \A k \in 1 .. Len(u) : w[k] = u[k]
  /\ \A k \in 1 .. Len(v) : w[Len(u) + k] = v[k]

LEMMA ConcatParts ==
  ASSUME NEW A, NEW u \in Seq(A), NEW v \in Seq(A)
  PROVE  u \o v \in Seq(A) /\ Joins(u \o v, u, v)
<1>0. PICK w : w = u \o v
  OBVIOUS
<1>1. Len(u) \in Nat /\ Len(v) \in Nat
  OBVIOUS
<1>2. /\ w \in Seq(A) /\ Len(w) = Len(u) + Len(v)
      /\ \A i \in 1 .. Len(u) + Len(v) : w[i] = IF i <= Len(u) THEN u[i] ELSE v[i - Len(u)]
  BY <1>0, ConcatProperties
<1>3. \A k \in 1 .. Len(u) : w[k] = u[k]
  BY <1>1, <1>2
<1>4. ASSUME NEW k \in 1 .. Len(v) PROVE w[Len(u) + k] = v[k]
  <2>1. Len(u) + k \in 1 .. Len(u) + Len(v) /\ ~ (Len(u) + k <= Len(u)) /\ Len(u) + k - Len(u) = k
    BY <1>1
  <2> QED BY <1>2, <2>1
<1>5. w \in Seq(A) /\ Joins(w, u, v)
  BY <1>1, <1>2, <1>3, <1>4 DEF Joins
<1> QED BY <1>0, <1>5

LEMMA Within ==
  ASSUME NEW a \in Nat, NEW b \in Nat, NEW c \in Nat
  PROVE  /\ a <= b => a <= b + c /\ \A k \in 1 .. a : k \in 1 .. b
         /\ \A k \in 1 .. c : b + k \in 1 .. b + c
  OBVIOUS

\* One step: what was there stays, and the next sequence comes behind it.
LEMMA FlattenStep ==
  ASSUME NEW A, NEW n \in Nat, NEW seqs, NEW f, Flattens(f, seqs, n, A), NEW i \in 1 .. n
  PROVE  Joins(f[i], f[i - 1], seqs[i])
<1>1. i - 1 \in 0 .. n
  OBVIOUS
<1>2. f[i - 1] \in Seq(A) /\ seqs[i] \in Seq(A) /\ f[i] = f[i - 1] \o seqs[i]
  BY <1>1 DEF Flattens
<1>3. Joins(f[i - 1] \o seqs[i], f[i - 1], seqs[i])
  BY <1>2, ConcatParts, Zenon
<1> QED BY <1>2, <1>3, Zenon

Begins(u, w) == Len(u) <= Len(w) /\ \A k \in 1 .. Len(u) : w[k] = u[k]

\* What was there stays to the end.
LEMMA FlattenPrefix ==
  ASSUME NEW A, NEW n \in Nat, NEW seqs, NEW f, Flattens(f, seqs, n, A), NEW i \in 0 .. n
  PROVE  Begins(f[i], f[n])
<1> DEFINE Kept(j) == Begins(f[i], f[j])
           T == {d \in Nat : i + d <= n => Kept(i + d)}
<1>0. Len(f[i]) \in Nat
  <2>1. f[i] \in Seq(A)
    BY DEF Flattens
  <2> QED BY <2>1
<1>1. 0 \in T
  <2>1. i + 0 = i /\ Len(f[i]) <= Len(f[i])
    BY <1>0
  <2> QED BY <2>1 DEF Begins
<1>2. ASSUME NEW d \in Nat, d \in T PROVE d + 1 \in T
  <2> SUFFICES ASSUME i + (d + 1) <= n PROVE Kept(i + (d + 1))
    OBVIOUS
  <2>1. Kept(i + d)
    BY <1>2
  <2>2. PICK j \in 1 .. n : j = i + (d + 1)
    OBVIOUS
  <2>3. j - 1 = i + d
    BY <2>2
  <2>4. Kept(j - 1)
    BY <2>1, <2>3
  <2>5. Joins(f[j], f[j - 1], seqs[j])
    BY FlattenStep, Zenon
  <2>6. Len(f[i]) <= Len(f[j]) /\ \A k \in 1 .. Len(f[i]) : k \in 1 .. Len(f[j - 1])
    <3>1. /\ Len(f[j - 1]) \in Nat /\ Len(seqs[j]) \in Nat /\ Len(f[j]) = Len(f[j - 1]) + Len(seqs[j])
          /\ Len(f[i]) <= Len(f[j - 1])
      BY <2>4, <2>5 DEF Joins, Begins
    <3> QED BY <1>0, <3>1, Within, Zenon
  <2>7. \A k \in 1 .. Len(f[i]) : f[j][k] = f[i][k]
    BY <2>4, <2>5, <2>6, Zenon DEF Joins, Begins
  <2>8. Begins(f[i], f[j])
    BY <2>6, <2>7 DEF Begins
  <2> QED BY <2>2, <2>8
<1>3. Nat \subseteq T
  <2> HIDE DEF T
  <2> QED BY <1>1, <1>2, InductionOverSet
<1>4. n - i \in T
  <2>1. n - i \in Nat
    OBVIOUS
  <2> HIDE DEF T
  <2> QED BY <1>3, <2>1
<1>5. i + (n - i) = n
  OBVIOUS
<1> QED BY <1>4, <1>5

\* The part that the i-th sequence became.
IsPart(f, seqs, n, i) ==
  /\ Len(f[i]) <= Len(f[n])
  /\ \A k \in 1 .. Len(seqs[i]) : f[n][Len(f[i - 1]) + k] = seqs[i][k]

LEMMA FlattenPart ==
  ASSUME NEW A, NEW n \in Nat, NEW seqs, NEW f, Flattens(f, seqs, n, A), NEW i \in 1 .. n
  PROVE  IsPart(f, seqs, n, i)
<1>1. Joins(f[i], f[i - 1], seqs[i])
  BY FlattenStep, Zenon
<1>2. i \in 0 .. n
  OBVIOUS
<1>3. Begins(f[i], f[n])
  BY <1>2, FlattenPrefix, Zenon
<1>4. /\ Len(f[i - 1]) \in Nat /\ Len(seqs[i]) \in Nat /\ Len(f[i]) = Len(f[i - 1]) + Len(seqs[i])
  BY <1>1 DEF Joins
<1>5. \A k \in 1 .. Len(seqs[i]) : Len(f[i - 1]) + k \in 1 .. Len(f[i])
  BY <1>4, Within, Zenon
<1> QED BY <1>1, <1>3, <1>5, Zenon DEF Joins, Begins, IsPart

EachOf(seqs, n, each) == \A i \in 1 .. n : Len(seqs[i]) = each
GrowsBy(f, n, each) == \A m \in 0 .. n : Len(f[m]) = each * m

LEMMA FlattensLength ==
  ASSUME NEW A, NEW n \in Nat, NEW seqs, NEW f, Flattens(f, seqs, n, A),
         NEW each \in Nat, EachOf(seqs, n, each)
  PROVE  GrowsBy(f, n, each)
<1> USE DEF EachOf, GrowsBy
<1> DEFINE T == {m \in Nat : m <= n => Len(f[m]) = each * m}
<1>1. 0 \in T
  <2>1. f[0] = <<>>
    BY DEF Flattens
  <2> QED BY <2>1
<1>2. ASSUME NEW m \in Nat, m \in T PROVE m + 1 \in T
  <2> SUFFICES ASSUME m + 1 <= n PROVE Len(f[m + 1]) = each * (m + 1)
    OBVIOUS
  <2>1. PICK j \in 1 .. n : j = m + 1
    OBVIOUS
  <2>2. Len(f[j]) = Len(f[j - 1]) + Len(seqs[j])
    <3>1. Joins(f[j], f[j - 1], seqs[j])
      BY FlattenStep, Zenon
    <3> QED BY <3>1, Zenon DEF Joins
  <2>3. j - 1 = m /\ Len(f[m]) = each * m
    BY <1>2, <2>1
  <2>4. each * m + each = each * (m + 1)
    OBVIOUS
  <2> QED BY <2>1, <2>2, <2>3, <2>4
<1>3. Nat \subseteq T
  <2> HIDE DEF T
  <2> QED BY <1>1, <1>2, InductionOverSet
<1> QED BY <1>3

\* FlattenSeq is the last of these steps, which are those of its recursive definition.
LEMMA FlattenSeqDef ==
  ASSUME NEW A, NEW n \in Nat, NEW seqs, NEW f, Flattens(f, seqs, n, A)
  PROVE  FlattenSeq(seqs) = f[n] /\ Len(seqs) = n
<1> DEFINE Defines(g) == g = [i \in 1 .. n |-> IF i = 1 THEN seqs[i] ELSE g[i - 1] \o seqs[i]]
<1>0. seqs \in [1 .. n -> Seq(A)] /\ Len(seqs) = n
  BY DEF Flattens
<1>1. CASE n = 0
  <2>1. seqs \in Seq(Seq(A))
    BY <1>0
  <2>2. seqs = <<>>
    BY <1>0, <1>1, <2>1, EmptySeq
  <2> QED BY <1>0, <1>1, <2>2 DEF FlattenSeq, Flattens
<1>2. CASE n # 0
  <2>0. \A i \in 1 .. n : f[i] = f[i - 1] \o seqs[i]
    BY DEF Flattens
  <2>1. f[1] = seqs[1]
    <3>1. 1 \in 1 .. n
      BY <1>2
    <3>2. f[1] = f[1 - 1] \o seqs[1]
      BY <2>0, <3>1
    <3>3. f[1] = <<>> \o seqs[1]
      <4>1. f[0] = <<>> /\ 1 - 1 = 0
        BY DEF Flattens
      <4> QED BY <3>2, <4>1
    <3>4. seqs[1] \in Seq(A)
      BY <1>0, <3>1
    <3> QED BY <3>3, <3>4, ConcatEmptySeq
  <2>2. Defines([i \in 1 .. n |-> f[i]])
    <3> DEFINE h == [i \in 1 .. n |-> f[i]]
    <3>1. ASSUME NEW i \in 1 .. n
          PROVE  f[i] = IF i = 1 THEN seqs[i] ELSE h[i - 1] \o seqs[i]
      <4>1. CASE i = 1
        BY <2>1, <4>1
      <4>2. CASE i # 1
        <5>1. i - 1 \in 1 .. n
          BY <4>2
        <5>2. h[i - 1] = f[i - 1]
          BY <5>1
        <5> HIDE DEF h
        <5> QED BY <2>0, <4>2, <5>2
      <4> QED BY <4>1, <4>2
    <3>2. h = [i \in 1 .. n |-> IF i = 1 THEN seqs[i] ELSE h[i - 1] \o seqs[i]]
      BY <3>1
    <3> QED BY <3>2
  <2>3. PICK g : Defines(g) /\ FlattenSeq(seqs) = g[n]
    <3>1. FlattenSeq(seqs) = (CHOOSE g : Defines(g))[n]
      BY <1>0, <1>2 DEF FlattenSeq
    <3>2. Defines(CHOOSE g : Defines(g))
      <4> HIDE DEF Defines
      <4> QED BY <2>2
    <3> HIDE DEF Defines
    <3> QED BY <3>1, <3>2
  <2>4. \A k \in 1 .. n : g[k] = IF k = 1 THEN seqs[k] ELSE g[k - 1] \o seqs[k]
    BY <2>3
  <2> HIDE DEF Defines
  <2> DEFINE T == {m \in Nat : m + 1 <= n => g[m + 1] = f[m + 1]}
  <2>5. 0 \in T
    <3>1. 1 \in 1 .. n /\ 0 + 1 = 1
      BY <1>2
    <3>2. g[1] = seqs[1]
      BY <2>4, <3>1
    <3> QED BY <2>1, <3>1, <3>2
  <2>6. ASSUME NEW m \in Nat, m \in T PROVE m + 1 \in T
    <3> SUFFICES ASSUME m + 1 + 1 <= n PROVE g[m + 1 + 1] = f[m + 1 + 1]
      OBVIOUS
    <3>1. PICK j \in 1 .. n : j = m + 1 + 1
      OBVIOUS
    <3>2. j # 1 /\ j - 1 = m + 1 /\ m + 1 <= n
      BY <3>1
    <3>3. g[j - 1] = f[j - 1]
      BY <2>6, <3>2
    <3>4. g[j] = g[j - 1] \o seqs[j]
      BY <2>4, <3>2
    <3>5. f[j] = f[j - 1] \o seqs[j]
      BY <2>0
    <3>6. g[j] = f[j]
      BY <3>3, <3>4, <3>5, Zenon
    <3> QED BY <3>1, <3>6
  <2>7. Nat \subseteq T
    <3> HIDE DEF T
    <3> QED BY <2>5, <2>6, InductionOverSet
  <2>8. PICK m \in Nat : m + 1 = n
    <3>1. n - 1 \in Nat /\ n - 1 + 1 = n
      BY <1>2
    <3> QED BY <3>1
  <2>9. g[m + 1] = f[m + 1]
    BY <2>7, <2>8
  <2> QED BY <1>0, <2>3, <2>8, <2>9
<1> QED BY <1>1, <1>2

------------------------------------------------------------------------------
(* What is read of a file                                                     *)

Level == 0 .. 3
Outs == Seq(Level)

LEMMA ValuesTyped ==
  ASSUME NEW byte \in 0 .. 255
  PROVE  Values(byte) \in Seq(Level) /\ Len(Values(byte)) = 4
<1>1. byte % 4 \in Level /\ (byte \div 4) % 4 \in Level /\ (byte \div 16) % 4 \in Level /\ byte \div 64 \in Level
  BY DEF Level
<1> QED BY <1>1 DEF Values

LEMMA RepeatTyped ==
  ASSUME NEW byte \in 0 .. 255, NEW n \in Nat
  PROVE  Repeat(byte, n) \in Seq(Level) /\ Len(Repeat(byte, n)) = 4 * n
<1> DEFINE seqs == [i \in 1 .. n |-> Values(byte)]
<1>1. seqs \in [1 .. n -> Seq(Level)] /\ \A i \in 1 .. n : Len(seqs[i]) = 4
  BY ValuesTyped
<1>2. Repeat(byte, n) = FlattenSeq(seqs)
  BY DEF Repeat
<1> HIDE DEF seqs
<1>3. PICK f : Flattens(f, seqs, n, Level)
  BY <1>1, FlattensExists
<1>4. FlattenSeq(seqs) = f[n]
  BY <1>3, FlattenSeqDef
<1>5. f[n] \in Seq(Level)
  BY <1>3 DEF Flattens
<1>6. \A m \in 0 .. n : Len(f[m]) = 4 * m
  <2>1. EachOf(seqs, n, 4)
    BY <1>1 DEF EachOf
  <2>2. 4 \in Nat
    OBVIOUS
  <2>3. GrowsBy(f, n, 4)
    BY <1>3, <2>1, <2>2, FlattensLength, Zenon
  <2> QED BY <2>3 DEF GrowsBy
<1> QED BY <1>2, <1>4, <1>5, <1>6

LEMMA SizeOfRunIs == ASSUME NEW n \in Nat PROVE SizeOfRun(n) = 4 * n
  BY DEF SizeOfRun

States == [notAtRowEnd : BOOLEAN, run : -1 .. 255, ended : BOOLEAN, size : Int, out : Outs]
StoredByte == 0 .. 257

LEMMA StatesFields ==
  ASSUME NEW state \in States
  PROVE  /\ state.notAtRowEnd \in BOOLEAN /\ state.run \in -1 .. 255 /\ state.ended \in BOOLEAN
         /\ state.size \in Int /\ state.out \in Outs
         /\ state = [notAtRowEnd |-> state.notAtRowEnd, run |-> state.run, ended |-> state.ended,
                     size |-> state.size, out |-> state.out]
  BY DEF States

LEMMA ReadByteTyped ==
  ASSUME NEW state \in States, NEW byte \in StoredByte
  PROVE  ReadByte(state, byte) \in States
<1>1. CASE state.ended
  BY <1>1 DEF ReadByte
<1>2. CASE ~state.ended /\ state.run # -1
  <2>1. state.run \in 0 .. 255 /\ RunLength(byte) \in Nat
    BY <1>2, StatesFields DEF RunLength, StoredByte
  <2> DEFINE more == Repeat(state.run, RunLength(byte))
             size == state.size + SizeOfRun(RunLength(byte))
  <2>2. more \in Seq(Level)
    BY <2>1, RepeatTyped
  <2>3. state.out \o more \in Outs
    BY <2>2, StatesFields, ConcatParts, Zenon DEF Outs
  <2>4. size \in Int
    BY <2>1, StatesFields DEF SizeOfRun
  <2>5. ReadByte(state, byte) = [state EXCEPT !.run = -1, !.size = size, !.out = state.out \o more]
    BY <1>2 DEF ReadByte, States
  <2> HIDE DEF more, size
  <2>6. ReadByte(state, byte) = [notAtRowEnd |-> state.notAtRowEnd, run |-> -1, ended |-> state.ended,
                                 size |-> size, out |-> state.out \o more]
    BY <2>5, StatesFields
  <2>7. state.notAtRowEnd \in BOOLEAN /\ -1 \in -1 .. 255 /\ state.ended \in BOOLEAN
    BY StatesFields
  <2> QED BY <2>3, <2>4, <2>6, <2>7 DEF States
<1>3. CASE ~state.ended /\ state.run = -1 /\ byte = EndMark
  BY <1>3 DEF ReadByte, States
<1>4. CASE ~state.ended /\ state.run = -1 /\ byte = RowMark
  <2>1. byte # EndMark
    BY <1>4 DEF RowMark, EndMark
  <2>2. ReadByte(state, byte) = [state EXCEPT !.notAtRowEnd = ~state.notAtRowEnd]
    BY <1>4, <2>1 DEF ReadByte, States
  <2> QED BY <2>2 DEF States
<1>5. CASE ~state.ended /\ state.run = -1 /\ byte # EndMark /\ byte # RowMark
  <2>1. byte \in 0 .. 255
    BY <1>5 DEF EndMark, RowMark, StoredByte
  <2>2. CASE state.notAtRowEnd
    <3>1. ReadByte(state, byte) = [state EXCEPT !.run = byte]
      BY <1>5, <2>2 DEF ReadByte
    <3> QED BY <2>1, <3>1 DEF States
  <2>3. CASE ~state.notAtRowEnd
    <3>1. Values(byte) \in Seq(Level)
      BY <2>1, ValuesTyped
    <3>2. state.out \o Values(byte) \in Outs
      BY <3>1, StatesFields, ConcatParts, Zenon DEF Outs
    <3>3. ReadByte(state, byte) = [state EXCEPT !.size = state.size + 4, !.out = state.out \o Values(byte)]
      BY <1>5, <2>3 DEF ReadByte, States
    <3>4. ReadByte(state, byte) = [notAtRowEnd |-> state.notAtRowEnd, run |-> state.run, ended |-> state.ended,
                                   size |-> state.size + 4, out |-> state.out \o Values(byte)]
      BY <3>3, StatesFields
    <3>5. /\ state.notAtRowEnd \in BOOLEAN /\ state.run \in -1 .. 255 /\ state.ended \in BOOLEAN
          /\ state.size + 4 \in Int
      BY StatesFields
    <3> QED BY <3>2, <3>4, <3>5 DEF States
  <2> QED BY <2>2, <2>3
<1> QED BY <1>1, <1>2, <1>3, <1>4, <1>5

\* r has the states of the loop.
Reads(r, bytes, n) ==
  /\ r \in [0 .. n -> States]
  /\ r[0] = Decoding
  /\ \A i \in 1 .. n : r[i] = ReadByte(r[i - 1], bytes[i])

LEMMA ReadUpToDef ==
  ASSUME NEW bytes \in Seq(StoredByte), NEW n \in Nat, n = Len(bytes)
  PROVE  Reads(ReadUpTo(bytes), bytes, n)
<1> DEFINE Step == [x \in States \X (1 .. n) |-> ReadByte(x[1], bytes[x[2]])]
           Defines(g) == g = [i \in 0 .. n |-> IF i = 0 THEN Decoding ELSE ReadByte(g[i - 1], bytes[i])]
<1>0. \A i \in 1 .. n : bytes[i] \in StoredByte
  OBVIOUS
<1>1. Decoding \in States
  <2>1. <<>> \in Outs
    BY DEF Outs
  <2> QED BY <2>1 DEF Decoding, States
<1>2. Step \in [States \X (1 .. n) -> States]
  <2>1. ASSUME NEW x \in States \X (1 .. n) PROVE ReadByte(x[1], bytes[x[2]]) \in States
    <3>1. x[1] \in States /\ bytes[x[2]] \in StoredByte
      BY <1>0
    <3> QED BY <3>1, ReadByteTyped
  <2> QED BY <2>1
<1>3. \A s \in States, i \in 1 .. n : Step[<<s, i>>] = ReadByte(s, bytes[i])
  OBVIOUS
<1> HIDE DEF Step
<1>4. PICK r : Recurs(r, n, States, Decoding, Step)
  BY <1>1, <1>2, Recursion
<1>5. r \in [0 .. n -> States] /\ r[0] = Decoding /\ \A i \in 1 .. n : r[i] = Step[<<r[i - 1], i>>]
  BY <1>4 DEF Recurs
<1>6. \A i \in 1 .. n : i - 1 \in 0 .. n
  OBVIOUS
<1>7. \A i \in 1 .. n : r[i] = ReadByte(r[i - 1], bytes[i])
  BY <1>3, <1>5, <1>6
<1>8. Defines(r)
  <2>1. \A i \in 0 .. n : i = 0 \/ i \in 1 .. n
    OBVIOUS
  <2>2. \A i \in 0 .. n : r[i] = IF i = 0 THEN Decoding ELSE ReadByte(r[i - 1], bytes[i])
    BY <1>5, <1>7, <2>1
  <2> QED BY <1>5, <2>2
<1>9. ReadUpTo(bytes) = CHOOSE g : Defines(g)
  BY DEF ReadUpTo
<1> DEFINE g == ReadUpTo(bytes)
<1>10. Defines(g)
  <2> HIDE DEF Defines
  <2> QED BY <1>8, <1>9
<1>11. \A i \in 0 .. n : g[i] = IF i = 0 THEN Decoding ELSE ReadByte(g[i - 1], bytes[i])
  BY <1>10
<1>12. g = [i \in 0 .. n |-> g[i]]
  BY <1>10
<1> HIDE DEF g, Defines
<1> DEFINE T == {m \in Nat : m <= n => g[m] = r[m]}
<1>13. 0 \in T
  BY <1>5, <1>11
<1>14. ASSUME NEW m \in Nat, m \in T PROVE m + 1 \in T
  <2> SUFFICES ASSUME m + 1 <= n PROVE g[m + 1] = r[m + 1]
    OBVIOUS
  <2>1. PICK j \in 1 .. n : j = m + 1
    OBVIOUS
  <2>2. j - 1 = m /\ j # 0 /\ j \in 0 .. n
    BY <2>1
  <2>3. g[j] = ReadByte(g[j - 1], bytes[j]) /\ g[j - 1] = r[j - 1]
    BY <1>11, <1>14, <2>2
  <2>4. g[j] = r[j]
    BY <1>7, <2>3, Zenon
  <2> QED BY <2>1, <2>4
<1>15. Nat \subseteq T
  <2> HIDE DEF T
  <2> QED BY <1>13, <1>14, InductionOverSet
<1>16. \A i \in 0 .. n : g[i] = r[i]
  BY <1>15
<1>17. g = r
  BY <1>5, <1>12, <1>16
<1> QED BY <1>5, <1>7, <1>17 DEF Reads, g

------------------------------------------------------------------------------
(* The loop between two bytes: outside of a run, all that was written counted. *)

Between(out, row) ==
  [notAtRowEnd |-> row, run |-> -1, ended |-> FALSE, size |-> Len(out), out |-> out]

LEMMA BetweenFields ==
  ASSUME NEW out, NEW row
  PROVE  /\ Between(out, row).ended = FALSE /\ Between(out, row).run = -1
         /\ Between(out, row).notAtRowEnd = row /\ Between(out, row).size = Len(out)
         /\ Between(out, row).out = out
  BY DEF Between

LEMMA PlainByte ==
  ASSUME NEW byte \in 0 .. 255
  PROVE  byte # EndMark /\ byte # RowMark /\ byte # -1
  BY DEF EndMark, RowMark

LEMMA RunRead ==
  ASSUME NEW out \in Seq(Level), NEW byte \in 0 .. 255, NEW repeated \in 0 .. 255
  PROVE  ReadByte(ReadByte(Between(out, TRUE), byte), repeated) = Between(out \o Repeat(byte, repeated + 1), TRUE)
<1> DEFINE s == [notAtRowEnd |-> TRUE, run |-> byte, ended |-> FALSE, size |-> Len(out), out |-> out]
           more == Repeat(byte, repeated + 1)
<1>0. byte # EndMark /\ byte # RowMark /\ byte # -1
  BY PlainByte
<1>1. ReadByte(Between(out, TRUE), byte) = s
  <2>1. ReadByte(Between(out, TRUE), byte) = [Between(out, TRUE) EXCEPT !.run = byte]
    BY <1>0, BetweenFields DEF ReadByte
  <2> QED BY <2>1 DEF Between
<1>2. RunLength(repeated) = repeated + 1 /\ repeated + 1 \in Nat
  BY DEF RunLength
<1>3. ReadByte(s, repeated) = [notAtRowEnd |-> TRUE, run |-> -1, ended |-> FALSE,
                               size |-> Len(out) + SizeOfRun(repeated + 1), out |-> out \o more]
  <2>1. s.run # -1 /\ ~s.ended
    BY <1>0
  <2>2. ReadByte(s, repeated) = [s EXCEPT !.run = -1, !.size = @ + SizeOfRun(RunLength(repeated)),
                                          !.out = @ \o Repeat(s.run, RunLength(repeated))]
    BY <2>1 DEF ReadByte
  <2> QED BY <1>2, <2>2
<1>4. more \in Seq(Level) /\ Len(more) = SizeOfRun(repeated + 1)
  BY <1>2, RepeatTyped, SizeOfRunIs
<1> HIDE DEF more, s
<1>5. Joins(out \o more, out, more)
  BY <1>4, ConcatParts, Zenon
<1>6. Len(out \o more) = Len(out) + SizeOfRun(repeated + 1)
  BY <1>4, <1>5 DEF Joins
<1> QED BY <1>1, <1>3, <1>6 DEF Between, more

LEMMA MarkRead ==
  ASSUME NEW out, NEW row \in BOOLEAN
  PROVE  ReadByte(Between(out, row), RowMark) = Between(out, ~row)
<1>1. RowMark # EndMark
  BY DEF RowMark, EndMark
<1>2. ReadByte(Between(out, row), RowMark) = [Between(out, row) EXCEPT !.notAtRowEnd = ~row]
  BY <1>1, BetweenFields DEF ReadByte, Between
<1> QED BY <1>2 DEF Between

LEMMA RowByteRead ==
  ASSUME NEW out \in Seq(Level), NEW byte \in 0 .. 255
  PROVE  ReadByte(Between(out, FALSE), byte) = Between(out \o Values(byte), FALSE)
<1> DEFINE more == Values(byte)
<1>0. byte # EndMark /\ byte # RowMark /\ byte # -1
  BY PlainByte
<1>1. ReadByte(Between(out, FALSE), byte) = [notAtRowEnd |-> FALSE, run |-> -1, ended |-> FALSE,
                                              size |-> Len(out) + 4, out |-> out \o more]
  <2> DEFINE b == Between(out, FALSE)
  <2>2. b = [notAtRowEnd |-> FALSE, run |-> -1, ended |-> FALSE, size |-> Len(out), out |-> out]
    BY DEF Between
  <2> HIDE DEF b, more
  <2>1. /\ b.ended = FALSE /\ b.run = -1 /\ b.notAtRowEnd = FALSE /\ b.size = Len(out) /\ b.out = out
    BY <2>2
  <2>3. ReadByte(b, byte) = [b EXCEPT !.size = @ + 4, !.out = @ \o Values(byte)]
    BY <1>0, <2>1 DEF ReadByte
  <2>4. ReadByte(b, byte) = [notAtRowEnd |-> FALSE, run |-> -1, ended |-> FALSE,
                             size |-> Len(out) + 4, out |-> out \o Values(byte)]
    BY <2>2, <2>3
  <2> QED BY <2>4 DEF b, more
<1>2. more \in Seq(Level) /\ Len(more) = 4
  BY ValuesTyped
<1> HIDE DEF more
<1>3. Joins(out \o more, out, more)
  BY <1>2, ConcatParts, Zenon
<1>4. Len(out \o more) = Len(out) + 4
  BY <1>2, <1>3 DEF Joins
<1> QED BY <1>1, <1>4 DEF Between, more

LEMMA EndRead ==
  ASSUME NEW out
  PROVE  ReadByte(Between(out, TRUE), EndMark).size = Len(out) /\ ReadByte(Between(out, TRUE), EndMark).out = out
<1>1. ReadByte(Between(out, TRUE), EndMark) = [Between(out, TRUE) EXCEPT !.ended = TRUE]
  BY BetweenFields DEF ReadByte
<1> QED BY <1>1 DEF Between

------------------------------------------------------------------------------
(* Chunks                                                                      *)

Chunk ==
  {chunk \in [run : BOOLEAN, bytes : Seq(0 .. 255), repeated : 0 .. 255] : chunk.run => chunk.bytes # <<>>}

LEMMA ChunksTyped == Chunks \subseteq Chunk
  BY WaveformsAssumption DEF Chunk

\* bytes has the given ones after the first p.
HasAt(bytes, p, part) ==
  /\ p + Len(part) <= Len(bytes)
  /\ \A k \in 1 .. Len(part) : bytes[p + k] = part[k]

LEMMA ElementOf ==
  ASSUME NEW A, NEW u \in Seq(A), NEW i \in 1 .. Len(u)
  PROVE  u[i] \in A
  OBVIOUS

Steps(r, bytes, n) == \A p \in 0 .. n - 1 : r[p + 1] = ReadByte(r[p], bytes[p + 1])

LEMMA OneRead ==
  ASSUME NEW bytes, NEW n \in Nat, NEW r, Reads(r, bytes, n)
  PROVE  Steps(r, bytes, n)
<1> SUFFICES ASSUME NEW p \in 0 .. n - 1 PROVE r[p + 1] = ReadByte(r[p], bytes[p + 1])
  BY DEF Steps
<1>1. PICK j \in 1 .. n : j = p + 1
  OBVIOUS
<1>2. r[j] = ReadByte(r[j - 1], bytes[j])
  BY DEF Reads
<1>3. j - 1 = p
  BY <1>1
<1> QED BY <1>1, <1>2, <1>3

LEMMA RunStored ==
  ASSUME NEW chunk \in Chunk, chunk.run
  PROVE  /\ chunk.bytes[1] \in 0 .. 255 /\ chunk.repeated \in 0 .. 255
         /\ StoredChunk(chunk) = <<chunk.bytes[1], chunk.repeated>>
         /\ ExpandChunk(chunk) = Repeat(chunk.bytes[1], chunk.repeated + 1)
<1>1. chunk.bytes \in Seq(0 .. 255) /\ chunk.bytes # <<>> /\ chunk.repeated \in 0 .. 255
  BY DEF Chunk
<1>2. chunk.bytes[1] \in 0 .. 255
  <2>1. Len(chunk.bytes) # 0 /\ Len(chunk.bytes) \in Nat
    BY <1>1, EmptySeq
  <2>2. 1 \in 1 .. Len(chunk.bytes)
    BY <2>1
  <2> QED BY <1>1, <2>2, ElementOf, Zenon
<1> QED BY <1>1, <1>2 DEF StoredChunk, ExpandChunk

\* A row is stored between two marks.
LEMMA RowStored ==
  ASSUME NEW chunk \in Chunk, ~chunk.run, NEW m \in Nat, m = Len(chunk.bytes)
  PROVE  /\ StoredChunk(chunk) \in Seq(StoredByte) /\ Len(StoredChunk(chunk)) = m + 2
         /\ StoredChunk(chunk)[1] = RowMark /\ StoredChunk(chunk)[m + 2] = RowMark
         /\ \A k \in 1 .. m : StoredChunk(chunk)[1 + k] = chunk.bytes[k]
<1> DEFINE mark == <<RowMark>>
           left == mark \o chunk.bytes
<1>1. mark \in Seq(StoredByte) /\ Len(mark) = 1 /\ mark[1] = RowMark
  BY DEF StoredByte, RowMark
<1>2. chunk.bytes \in Seq(StoredByte)
  <2>1. chunk.bytes \in Seq(0 .. 255)
    BY DEF Chunk
  <2> QED BY <2>1 DEF StoredByte
<1>3. StoredChunk(chunk) = left \o mark
  BY DEF StoredChunk
<1> HIDE DEF mark
<1>4. left \in Seq(StoredByte) /\ Joins(left, mark, chunk.bytes)
  BY <1>1, <1>2, ConcatParts, Zenon
<1> HIDE DEF left
<1>5. StoredChunk(chunk) \in Seq(StoredByte) /\ Joins(StoredChunk(chunk), left, mark)
  BY <1>1, <1>3, <1>4, ConcatParts, Zenon
<1>6. Len(left) = m + 1 /\ left[1] = RowMark /\ \A k \in 1 .. m : left[1 + k] = chunk.bytes[k]
  BY <1>1, <1>4 DEF Joins
<1>7. Len(StoredChunk(chunk)) = m + 2 /\ StoredChunk(chunk)[m + 2] = RowMark
  BY <1>1, <1>5, <1>6 DEF Joins
<1>8. \A k \in 1 .. m + 1 : StoredChunk(chunk)[k] = left[k]
  BY <1>5, <1>6 DEF Joins
<1>9. StoredChunk(chunk)[1] = RowMark
  <2>1. 1 \in 1 .. m + 1
    OBVIOUS
  <2> QED BY <1>6, <1>8, <2>1
<1>10. \A k \in 1 .. m : StoredChunk(chunk)[1 + k] = chunk.bytes[k]
  <2>1. \A k \in 1 .. m : 1 + k \in 1 .. m + 1
    OBVIOUS
  <2> QED BY <1>6, <1>8, <2>1
<1> QED BY <1>5, <1>7, <1>9, <1>10

LEMMA StoredTyped ==
  ASSUME NEW chunk \in Chunk
  PROVE  StoredChunk(chunk) \in Seq(StoredByte)
<1>1. CASE chunk.run
  <2>1. chunk.bytes[1] \in StoredByte /\ chunk.repeated \in StoredByte
    BY <1>1, RunStored DEF StoredByte
  <2>2. <<chunk.bytes[1], chunk.repeated>> \in Seq(StoredByte)
    BY <2>1
  <2> QED BY <1>1, <2>2, RunStored
<1>2. CASE ~chunk.run
  <2>1. PICK m \in Nat : m = Len(chunk.bytes)
    BY DEF Chunk
  <2> QED BY <1>2, <2>1, RowStored
<1> QED BY <1>1, <1>2

Loop(r, bytes, n) == n = Len(bytes) /\ Reads(r, bytes, n)

\* Between two chunks, at the p-th byte.
Reached(r, p, out) == r[p] = Between(out, TRUE)

LEMMA RunChunkRead ==
  ASSUME NEW bytes, NEW n \in Nat, NEW r, Loop(r, bytes, n), NEW p \in Nat,
         NEW chunk \in Chunk, chunk.run, HasAt(bytes, p, StoredChunk(chunk)),
         NEW out \in Seq(Level), Reached(r, p, out)
  PROVE  Reached(r, p + Len(StoredChunk(chunk)), out \o ExpandChunk(chunk))
<1>a. n = Len(bytes) /\ Reads(r, bytes, n) /\ r[p] = Between(out, TRUE)
  BY DEF Loop, Reached
<1>0. /\ chunk.bytes[1] \in 0 .. 255 /\ chunk.repeated \in 0 .. 255
      /\ StoredChunk(chunk) = <<chunk.bytes[1], chunk.repeated>>
      /\ ExpandChunk(chunk) = Repeat(chunk.bytes[1], chunk.repeated + 1)
  BY RunStored
<1>1. /\ Len(StoredChunk(chunk)) = 2
      /\ StoredChunk(chunk)[1] = chunk.bytes[1] /\ StoredChunk(chunk)[2] = chunk.repeated
  BY <1>0
<1>2. p + 2 <= n /\ bytes[p + 1] = chunk.bytes[1] /\ bytes[p + 2] = chunk.repeated
  BY <1>a, <1>1 DEF HasAt
<1>3. Steps(r, bytes, n)
  BY <1>a, OneRead, Zenon
<1>4. r[p + 1] = ReadByte(r[p], bytes[p + 1])
  <2>1. p \in 0 .. n - 1
    BY <1>2
  <2> QED BY <1>3, <2>1 DEF Steps
<1>5. r[p + 2] = ReadByte(r[p + 1], bytes[p + 2])
  <2>1. p + 1 \in 0 .. n - 1 /\ p + 1 + 1 = p + 2
    BY <1>2
  <2> QED BY <1>3, <2>1 DEF Steps
<1>6. r[p + 2] = Between(out \o Repeat(chunk.bytes[1], chunk.repeated + 1), TRUE)
  <2>1. r[p + 2] = ReadByte(ReadByte(Between(out, TRUE), chunk.bytes[1]), chunk.repeated)
    BY <1>a, <1>2, <1>4, <1>5, Zenon
  <2> QED BY <1>0, <2>1, RunRead, Zenon
<1> QED BY <1>0, <1>1, <1>6 DEF Reached

LEMMA ValuesOf ==
  ASSUME NEW bytes \in Seq(0 .. 255), NEW m \in Nat, m = Len(bytes)
  PROVE  [j \in 1 .. m |-> Values(bytes[j])] \in [1 .. m -> Seq(Level)]
<1>1. ASSUME NEW j \in 1 .. m PROVE Values(bytes[j]) \in Seq(Level)
  <2>1. bytes[j] \in 0 .. 255
    BY ElementOf, Zenon
  <2> QED BY <2>1, ValuesTyped
<1> HIDE DEF Level
<1> QED BY <1>1

LEMMA RowExpanded ==
  ASSUME NEW chunk \in Chunk, ~chunk.run, NEW m \in Nat, m = Len(chunk.bytes)
  PROVE  /\ [j \in 1 .. m |-> Values(chunk.bytes[j])] \in [1 .. m -> Seq(Level)]
         /\ ExpandChunk(chunk) = FlattenSeq([j \in 1 .. m |-> Values(chunk.bytes[j])])
<1>1. chunk.bytes \in Seq(0 .. 255)
  BY DEF Chunk
<1>2. DOMAIN chunk.bytes = 1 .. m
  BY <1>1
<1>3. [j \in 1 .. m |-> Values(chunk.bytes[j])] \in [1 .. m -> Seq(Level)]
  BY <1>1, ValuesOf, Zenon
<1> QED BY <1>2, <1>3 DEF ExpandChunk

Associates(s, t, u) == (s \o t) \o u = s \o (t \o u)

LEMMA ConcatTwice ==
  ASSUME NEW A, NEW s \in Seq(A), NEW t \in Seq(A), NEW u \in Seq(A)
  PROVE  Associates(s, t, u)
  BY ConcatAssociative DEF Associates

\* After q bytes the loop has written out and more.
Wrote(r, q, out, more, row) == r[q] = Between(out \o more, row)

LEMMA RowChunkRead ==
  ASSUME NEW bytes, NEW n \in Nat, NEW r, Loop(r, bytes, n), NEW p \in Nat,
         NEW chunk \in Chunk, ~chunk.run, HasAt(bytes, p, StoredChunk(chunk)),
         NEW out \in Seq(Level), Reached(r, p, out)
  PROVE  Reached(r, p + Len(StoredChunk(chunk)), out \o ExpandChunk(chunk))
<1>a. n = Len(bytes) /\ Reads(r, bytes, n) /\ r[p] = Between(out, TRUE)
  BY DEF Loop, Reached
<1>0. PICK m \in Nat : m = Len(chunk.bytes)
  BY DEF Chunk
<1> DEFINE seqs == [j \in 1 .. m |-> Values(chunk.bytes[j])]
           stored == StoredChunk(chunk)
<1>1. seqs \in [1 .. m -> Seq(Level)] /\ ExpandChunk(chunk) = FlattenSeq(seqs)
  BY <1>0, RowExpanded
<1>2. \A j \in 1 .. m : seqs[j] = Values(chunk.bytes[j])
  OBVIOUS
<1>3. \A j \in 1 .. m : chunk.bytes[j] \in 0 .. 255
  BY <1>0 DEF Chunk
<1> HIDE DEF seqs
<1>4. PICK f : Flattens(f, seqs, m, Level)
  BY <1>1, FlattensExists
<1>5. FlattenSeq(seqs) = f[m]
  BY <1>4, FlattenSeqDef
<1>6. /\ Len(stored) = m + 2 /\ stored[1] = RowMark /\ stored[m + 2] = RowMark
      /\ \A k \in 1 .. m : stored[1 + k] = chunk.bytes[k]
  BY <1>0, RowStored
<1> HIDE DEF stored
<1>7. p + (m + 2) <= n /\ \A k \in 1 .. m + 2 : bytes[p + k] = stored[k]
  BY <1>a, <1>6 DEF HasAt, stored
<1>8. Steps(r, bytes, n)
  BY <1>a, OneRead, Zenon
<1>9. f \in [0 .. m -> Seq(Level)] /\ f[0] = <<>> /\ \A j \in 1 .. m : f[j] = f[j - 1] \o seqs[j]
  BY <1>4 DEF Flattens
<1> DEFINE T == {k \in 0 .. m : Wrote(r, p + 1 + k, out, f[k], FALSE)}
<1>t. \A k \in 0 .. m : k \in T <=> Wrote(r, p + 1 + k, out, f[k], FALSE)
  BY Zenon
<1> HIDE DEF T
<1>10. 0 \in T
  <2>1. p \in 0 .. n - 1 /\ 1 \in 1 .. m + 2
    BY <1>7
  <2>2. r[p + 1] = ReadByte(Between(out, TRUE), RowMark)
    BY <1>a, <1>6, <1>7, <1>8, <2>1 DEF Steps
  <2>3. r[p + 1] = Between(out, FALSE)
    <3>1. ReadByte(Between(out, TRUE), RowMark) = Between(out, ~TRUE)
      BY MarkRead
    <3> QED BY <2>2, <3>1
  <2>4. out \o f[0] = out
    BY <1>9, ConcatEmptySeq
  <2>5. p + 1 + 0 = p + 1 /\ 0 \in 0 .. m
    OBVIOUS
  <2>6. Wrote(r, p + 1, out, f[0], FALSE)
    BY <2>3, <2>4 DEF Wrote
  <2> QED BY <1>t, <2>5, <2>6
<1>11. ASSUME NEW j \in 1 .. m, j - 1 \in T PROVE j \in T
  <2>1. j - 1 \in 0 .. m /\ j \in 0 .. m
    OBVIOUS
  <2>2. p + j \in 0 .. n - 1 /\ 1 + j \in 1 .. m + 2 /\ p + j + 1 = p + (1 + j)
    BY <1>7
  <2>a. p + 1 + (j - 1) = p + j /\ p + 1 + j = p + j + 1
    OBVIOUS
  <2>3. r[p + j] = Between(out \o f[j - 1], FALSE)
    <3>1. Wrote(r, p + 1 + (j - 1), out, f[j - 1], FALSE)
      BY <1>t, <1>11, <2>1, Zenon
    <3> QED BY <2>a, <3>1, Zenon DEF Wrote
  <2>4. bytes[p + j + 1] = chunk.bytes[j]
    BY <1>6, <1>7, <2>2
  <2>5. r[p + j + 1] = ReadByte(Between(out \o f[j - 1], FALSE), chunk.bytes[j])
    BY <1>8, <2>2, <2>3, <2>4, Zenon DEF Steps
  <2>6. f[j - 1] \in Seq(Level) /\ seqs[j] \in Seq(Level) /\ chunk.bytes[j] \in 0 .. 255
    BY <1>1, <1>3, <1>9, <2>1
  <2>7. out \o f[j - 1] \in Seq(Level)
    BY <2>6, ConcatParts, Zenon
  <2>8. r[p + j + 1] = Between((out \o f[j - 1]) \o Values(chunk.bytes[j]), FALSE)
    BY <2>5, <2>6, <2>7, RowByteRead, Zenon
  <2>9. (out \o f[j - 1]) \o seqs[j] = out \o f[j]
    <3>1. Associates(out, f[j - 1], seqs[j])
      BY <2>6, ConcatTwice, Zenon
    <3> QED BY <1>9, <3>1, Zenon DEF Associates
  <2>10. Wrote(r, p + j + 1, out, f[j], FALSE)
    BY <1>2, <2>8, <2>9, Zenon DEF Wrote
  <2> QED BY <1>t, <2>1, <2>10, <2>a, Zenon
<1>12. 0 .. m \subseteq T
  BY <1>10, <1>11, Ascends
<1>13. r[p + 1 + m] = Between(out \o f[m], FALSE)
  <2>1. m \in 0 .. m
    OBVIOUS
  <2>2. m \in T
    BY <1>12, <2>1, Zenon
  <2>3. Wrote(r, p + 1 + m, out, f[m], FALSE)
    BY <1>t, <2>1, <2>2, Zenon
  <2> QED BY <2>3, Zenon DEF Wrote
<1>14. r[p + (m + 2)] = ReadByte(r[p + 1 + m], bytes[p + (m + 2)])
  <2>1. p + 1 + m \in 0 .. n - 1 /\ p + 1 + m + 1 = p + (m + 2)
    BY <1>7
  <2> QED BY <1>8, <2>1 DEF Steps
<1>15. bytes[p + (m + 2)] = RowMark
  <2>1. m + 2 \in 1 .. m + 2
    OBVIOUS
  <2> QED BY <1>6, <1>7, <2>1
<1>16. r[p + (m + 2)] = Between(out \o f[m], TRUE)
  <2>1. ReadByte(Between(out \o f[m], FALSE), RowMark) = Between(out \o f[m], ~FALSE)
    BY MarkRead
  <2> QED BY <1>13, <1>14, <1>15, <2>1
<1> QED BY <1>1, <1>5, <1>6, <1>16 DEF stored, Reached

LEMMA ChunkRead ==
  ASSUME NEW bytes, NEW n \in Nat, NEW r, Loop(r, bytes, n), NEW p \in Nat,
         NEW chunk \in Chunk, HasAt(bytes, p, StoredChunk(chunk)),
         NEW out \in Seq(Level), Reached(r, p, out)
  PROVE  Reached(r, p + Len(StoredChunk(chunk)), out \o ExpandChunk(chunk))
<1>1. CASE chunk.run
  BY <1>1, RunChunkRead, Zenon
<1>2. CASE ~chunk.run
  BY <1>2, RowChunkRead, Zenon
<1> QED BY <1>1, <1>2

LEMMA ExpandChunkTyped ==
  ASSUME NEW chunk \in Chunk
  PROVE  ExpandChunk(chunk) \in Seq(Level)
<1>1. CASE chunk.run
  <2>1. chunk.repeated + 1 \in Nat /\ chunk.bytes[1] \in 0 .. 255
    BY <1>1, RunStored
  <2> QED BY <1>1, <2>1, RunStored, RepeatTyped
<1>2. CASE ~chunk.run
  <2>0. PICK m \in Nat : m = Len(chunk.bytes)
    BY DEF Chunk
  <2> DEFINE seqs == [j \in 1 .. m |-> Values(chunk.bytes[j])]
  <2>1. seqs \in [1 .. m -> Seq(Level)] /\ ExpandChunk(chunk) = FlattenSeq(seqs)
    BY <1>2, <2>0, RowExpanded
  <2> HIDE DEF seqs
  <2>2. PICK f : Flattens(f, seqs, m, Level)
    BY <2>1, FlattensExists
  <2>3. FlattenSeq(seqs) = f[m]
    BY <2>2, FlattenSeqDef
  <2>4. f[m] \in Seq(Level)
    BY <2>2 DEF Flattens
  <2> QED BY <2>1, <2>3, <2>4
<1> QED BY <1>1, <1>2

\* The sequences that Stored and Expand flatten.
StoredParts(chunks) == [i \in 1 .. Len(chunks) |-> StoredChunk(chunks[i])]
ExpandParts(chunks) == [i \in 1 .. Len(chunks) |-> ExpandChunk(chunks[i])]

LEMMA PartsTyped ==
  ASSUME NEW chunks \in Seq(Chunks), NEW N \in Nat, N = Len(chunks)
  PROVE  /\ StoredParts(chunks) \in [1 .. N -> Seq(StoredByte)]
         /\ ExpandParts(chunks) \in [1 .. N -> Seq(Level)]
         /\ Stored(chunks) = FlattenSeq(StoredParts(chunks)) \o <<EndMark>>
         /\ Expand(chunks) = FlattenSeq(ExpandParts(chunks))
         /\ \A i \in 1 .. N : chunks[i] \in Chunk
<1>1. \A i \in 1 .. N : chunks[i] \in Chunk
  BY ElementOf, ChunksTyped
<1>2. DOMAIN chunks = 1 .. N
  OBVIOUS
<1>3. Stored(chunks) = FlattenSeq(StoredParts(chunks)) \o <<EndMark>>
  BY <1>2, Zenon DEF Stored, StoredParts
<1>4. Expand(chunks) = FlattenSeq(ExpandParts(chunks))
  BY <1>2, Zenon DEF Expand, ExpandParts
<1>5. \A i \in 1 .. N : StoredChunk(chunks[i]) \in Seq(StoredByte) /\ ExpandChunk(chunks[i]) \in Seq(Level)
  BY <1>1, StoredTyped, ExpandChunkTyped, Zenon
<1>6. StoredParts(chunks) \in [1 .. N -> Seq(StoredByte)] /\ ExpandParts(chunks) \in [1 .. N -> Seq(Level)]
  BY <1>5, Zenon DEF StoredParts, ExpandParts
<1> QED BY <1>1, <1>3, <1>4, <1>6

\* The loop gives back what the chunks mean, and counts it right.
LEMMA FileDecoded ==
  ASSUME NEW chunks \in Seq(Chunks)
  PROVE  /\ getTableAt(Stored(chunks)).out = Expand(chunks)
         /\ getTableAt(Stored(chunks)).size = Len(Expand(chunks))
         /\ Expand(chunks) \in Seq(Level)
<1>0. PICK N \in Nat : N = Len(chunks)
  OBVIOUS
<1> DEFINE sS == StoredParts(chunks)
           sE == ExpandParts(chunks)
           bytes == Stored(chunks)
           end == <<EndMark>>
<1>1. /\ sS \in [1 .. N -> Seq(StoredByte)] /\ sE \in [1 .. N -> Seq(Level)]
      /\ bytes = FlattenSeq(sS) \o end
      /\ Expand(chunks) = FlattenSeq(sE)
      /\ \A i \in 1 .. N : chunks[i] \in Chunk
  BY <1>0, PartsTyped
<1>2. \A i \in 1 .. N : sS[i] = StoredChunk(chunks[i]) /\ sE[i] = ExpandChunk(chunks[i])
  BY <1>0, Zenon DEF StoredParts, ExpandParts
<1>3. end \in Seq(StoredByte) /\ Len(end) = 1 /\ end[1] = EndMark
  BY DEF StoredByte, EndMark
<1> HIDE DEF sS, sE, bytes, end
<1>4. PICK fS : Flattens(fS, sS, N, StoredByte)
  BY <1>1, FlattensExists, Zenon
<1>5. PICK fE : Flattens(fE, sE, N, Level)
  BY <1>1, FlattensExists, Zenon
<1>6. FlattenSeq(sS) = fS[N] /\ FlattenSeq(sE) = fE[N]
  BY <1>4, <1>5, FlattenSeqDef
<1>7. /\ \A i \in 0 .. N : fS[i] \in Seq(StoredByte) /\ fE[i] \in Seq(Level)
      /\ fS[0] = <<>> /\ fE[0] = <<>>
      /\ \A i \in 1 .. N : fE[i] = fE[i - 1] \o sE[i]
  BY <1>4, <1>5, Zenon DEF Flattens
<1>8. N \in 0 .. N /\ 0 \in 0 .. N
  OBVIOUS
<1>9. fS[N] \in Seq(StoredByte) /\ fE[N] \in Seq(Level)
  BY <1>7, <1>8, Zenon
<1>10. bytes \in Seq(StoredByte) /\ Joins(bytes, fS[N], end)
  BY <1>1, <1>3, <1>6, <1>9, ConcatParts, Zenon
<1>11. PICK n \in Nat : n = Len(bytes)
  BY <1>10
<1> DEFINE r == ReadUpTo(bytes)
<1>12. Reads(r, bytes, n)
  BY <1>10, <1>11, ReadUpToDef, Zenon
<1>13. getTableAt(bytes) = r[n]
  BY <1>11 DEF getTableAt
<1> HIDE DEF r
<1>14. /\ Len(fS[N]) \in Nat /\ n = Len(fS[N]) + 1 /\ bytes[n] = EndMark
       /\ \A k \in 1 .. Len(fS[N]) : bytes[k] = fS[N][k]
  <2>1. /\ Len(fS[N]) \in Nat /\ n = Len(fS[N]) + 1
        /\ \A k \in 1 .. Len(fS[N]) : bytes[k] = fS[N][k]
    BY <1>3, <1>10, <1>11, Zenon DEF Joins
  <2>2. bytes[Len(fS[N]) + 1] = end[1]
    <3>1. 1 \in 1 .. Len(end)
      BY <1>3
    <3> QED BY <1>10, <3>1, Zenon DEF Joins
  <2> QED BY <1>3, <2>1, <2>2, Zenon
<1> DEFINE T == {i \in 0 .. N : Reached(r, Len(fS[i]), fE[i])}
<1>t. \A i \in 0 .. N : i \in T <=> Reached(r, Len(fS[i]), fE[i])
  BY Zenon
<1> HIDE DEF T
<1>15. 0 \in T
  <2>1. Len(fS[0]) = 0 /\ fE[0] = <<>>
    BY <1>7
  <2>2. r[0] = Decoding
    BY <1>12 DEF Reads
  <2>3. Decoding = Between(<<>>, TRUE)
    BY DEF Decoding, Between
  <2> QED BY <1>t, <1>8, <2>1, <2>2, <2>3, Zenon DEF Reached
<1>16. ASSUME NEW i \in 1 .. N, i - 1 \in T PROVE i \in T
  <2>0. i - 1 \in 0 .. N /\ i \in 0 .. N
    OBVIOUS
  <2>1. PICK p \in Nat : p = Len(fS[i - 1])
    <3>1. fS[i - 1] \in Seq(StoredByte)
      BY <1>7, <2>0, Zenon
    <3> QED BY <3>1
  <2>2. Reached(r, p, fE[i - 1])
    BY <1>t, <1>16, <2>0, <2>1, Zenon
  <2>3. /\ Len(fS[i]) = p + Len(sS[i]) /\ Len(sS[i]) \in Nat
        /\ Len(fS[i]) <= Len(fS[N])
        /\ \A k \in 1 .. Len(sS[i]) : fS[N][p + k] = sS[i][k]
    <3>1. Joins(fS[i], fS[i - 1], sS[i])
      BY <1>4, FlattenStep, Zenon
    <3>2. /\ Len(fS[i]) <= Len(fS[N])
          /\ \A k \in 1 .. Len(sS[i]) : fS[N][Len(fS[i - 1]) + k] = sS[i][k]
      <4>1. IsPart(fS, sS, N, i)
        BY <1>4, FlattenPart, Zenon
      <4> QED BY <4>1, Zenon DEF IsPart
    <3> QED BY <2>1, <3>1, <3>2, Zenon DEF Joins
  <2>4. HasAt(bytes, p, sS[i])
    <3>1. \A k \in 1 .. Len(sS[i]) : p + k \in 1 .. Len(fS[N])
      BY <1>14, <2>3
    <3>2. p + Len(sS[i]) <= n
      BY <1>14, <2>3
    <3> QED BY <1>11, <1>14, <2>3, <3>1, <3>2, Zenon DEF HasAt
  <2>5. fE[i - 1] \in Seq(Level) /\ chunks[i] \in Chunk
    BY <1>1, <1>7, <2>0, Zenon
  <2>6. Reached(r, p + Len(sS[i]), fE[i - 1] \o sE[i])
    <3>1. Loop(r, bytes, n)
      BY <1>11, <1>12, Zenon DEF Loop
    <3>2. HasAt(bytes, p, StoredChunk(chunks[i]))
      BY <1>2, <2>4, Zenon
    <3>3. Reached(r, p + Len(StoredChunk(chunks[i])), fE[i - 1] \o ExpandChunk(chunks[i]))
      BY <2>2, <2>5, <3>1, <3>2, ChunkRead, Zenon
    <3> QED BY <1>2, <3>3, Zenon
  <2>7. Reached(r, Len(fS[i]), fE[i])
    BY <1>7, <2>3, <2>6, Zenon
  <2> QED BY <1>t, <2>0, <2>7, Zenon
<1>17. r[Len(fS[N])] = Between(fE[N], TRUE)
  <2>1. 0 .. N \subseteq T
    BY <1>15, <1>16, Ascends
  <2> QED BY <1>t, <1>8, <2>1, Zenon DEF Reached
<1>18. r[n] = ReadByte(Between(fE[N], TRUE), EndMark)
  <2>1. Steps(r, bytes, n)
    BY <1>12, OneRead, Zenon
  <2>2. Len(fS[N]) \in 0 .. n - 1
    BY <1>14
  <2> QED BY <1>14, <1>17, <2>1, <2>2, Zenon DEF Steps
<1>19. r[n].size = Len(fE[N]) /\ r[n].out = fE[N]
  BY <1>18, EndRead, Zenon
<1> QED BY <1>1, <1>6, <1>9, <1>13, <1>19, Zenon DEF bytes

------------------------------------------------------------------------------
(* Digits of a word                                                           *)

Digit(word, k) == (word \div 4 ^ k) % 4

LEMMA Powers ==
  /\ 4 ^ 0 = 1 /\ 4 ^ 1 = 4 /\ 4 ^ 2 = 16 /\ 4 ^ 3 = 64 /\ 4 ^ 4 = 256
  /\ 4 ^ 5 = 1024 /\ 4 ^ 6 = 4096 /\ 4 ^ 7 = 16384 /\ 4 ^ 8 = 65536
  OBVIOUS

IsPower(power, k) ==
  \/ (k = 0 /\ power = 1)    \/ (k = 1 /\ power = 4)    \/ (k = 2 /\ power = 16)
  \/ (k = 3 /\ power = 64)   \/ (k = 4 /\ power = 256)  \/ (k = 5 /\ power = 1024)
  \/ (k = 6 /\ power = 4096) \/ (k = 7 /\ power = 16384) \/ (k = 8 /\ power = 65536)

LEMMA PowerIs ==
  ASSUME NEW k \in 0 .. 8
  PROVE  IsPower(4 ^ k, k)
<1> USE Powers DEF IsPower
<1>0. CASE k = 0
  BY <1>0
<1>1. CASE k = 1
  BY <1>1
<1>2. CASE k = 2
  BY <1>2
<1>3. CASE k = 3
  BY <1>3
<1>4. CASE k = 4
  BY <1>4
<1>5. CASE k = 5
  BY <1>5
<1>6. CASE k = 6
  BY <1>6
<1>7. CASE k = 7
  BY <1>7
<1>8. CASE k = 8
  BY <1>8
<1> QED BY <1>0, <1>1, <1>2, <1>3, <1>4, <1>5, <1>6, <1>7, <1>8

\* A phase written behind a digit leaves it.
LEMMA DigitKept ==
  ASSUME NEW k \in 0 .. 7, NEW word \in Nat, NEW u \in Nat
  PROVE  Digit(word + 4 * 4 ^ k * u, k) = Digit(word, k)
<1> USE Powers DEF Digit
<1>0. CASE k = 0
  BY <1>0
<1>1. CASE k = 1
  BY <1>1
<1>2. CASE k = 2
  BY <1>2
<1>3. CASE k = 3
  BY <1>3
<1>4. CASE k = 4
  BY <1>4
<1>5. CASE k = 5
  BY <1>5
<1>6. CASE k = 6
  BY <1>6
<1>7. CASE k = 7
  BY <1>7
<1> QED BY <1>0, <1>1, <1>2, <1>3, <1>4, <1>5, <1>6, <1>7

HasFactor(power, lower) == \E u \in Nat : power = 4 * lower * u

LEMMA PowerFactor ==
  ASSUME NEW m \in 0 .. 8, NEW power, IsPower(power, m), NEW k \in 0 .. 7, NEW lower, IsPower(lower, k), k < m
  PROVE  HasFactor(power, lower)
<1> DEFINE u == power \div (4 * lower)
<1>a. u \in Nat /\ power = 4 * lower * u
  <2>0. CASE k = 0
    BY <2>0 DEF IsPower
  <2>1. CASE k = 1
    BY <2>1 DEF IsPower
  <2>2. CASE k = 2
    BY <2>2 DEF IsPower
  <2>3. CASE k = 3
    BY <2>3 DEF IsPower
  <2>4. CASE k = 4
    BY <2>4 DEF IsPower
  <2>5. CASE k = 5
    BY <2>5 DEF IsPower
  <2>6. CASE k = 6
    BY <2>6 DEF IsPower
  <2>7. CASE k = 7
    BY <2>7 DEF IsPower
  <2> QED BY <2>0, <2>1, <2>2, <2>3, <2>4, <2>5, <2>6, <2>7
<1> QED BY <1>a DEF HasFactor

LEMMA PowersRise ==
  ASSUME NEW m \in 0 .. 8, NEW power, IsPower(power, m), NEW k \in 0 .. 8, NEW higher, IsPower(higher, k), m <= k
  PROVE  power <= higher
  BY DEF IsPower

LEMMA DigitWritten ==
  ASSUME NEW m \in 0 .. 7, NEW word \in 0 .. 4 ^ m - 1, NEW value \in Level
  PROVE  /\ Digit(word + value * 4 ^ m, m) = value
         /\ word + value * 4 ^ m \in 0 .. 4 ^ (m + 1) - 1
<1> USE Powers DEF Digit, Level
<1>0. CASE m = 0
  BY <1>0
<1>1. CASE m = 1
  BY <1>1
<1>2. CASE m = 2
  BY <1>2
<1>3. CASE m = 3
  BY <1>3
<1>4. CASE m = 4
  BY <1>4
<1>5. CASE m = 5
  BY <1>5
<1>6. CASE m = 6
  BY <1>6
<1>7. CASE m = 7
  BY <1>7
<1> QED BY <1>0, <1>1, <1>2, <1>3, <1>4, <1>5, <1>6, <1>7

LEMMA DigitEmpty ==
  ASSUME NEW k \in 0 .. 7, NEW word \in 0 .. 4 ^ k - 1
  PROVE  Digit(word, k) = 0
<1> USE Powers DEF Digit
<1>0. CASE k = 0
  BY <1>0
<1>1. CASE k = 1
  BY <1>1
<1>2. CASE k = 2
  BY <1>2
<1>3. CASE k = 3
  BY <1>3
<1>4. CASE k = 4
  BY <1>4
<1>5. CASE k = 5
  BY <1>5
<1>6. CASE k = 6
  BY <1>6
<1>7. CASE k = 7
  BY <1>7
<1> QED BY <1>0, <1>1, <1>2, <1>3, <1>4, <1>5, <1>6, <1>7

LEMMA TotalOrder ==
  ASSUME NEW m \in 0 .. 7, NEW k \in 0 .. 7
  PROVE  /\ k = m \/ k < m \/ k > m
         /\ ~ (m < m) /\ (k < m => k # m) /\ (k > m => k # m /\ ~ (k < m))
  OBVIOUS

\* A word with one more phase.
HasDigit(more, word, value, m, k) ==
  Digit(more, k) = IF k = m THEN value ELSE IF k < m THEN Digit(word, k) ELSE 0

LEMMA DigitAdded ==
  ASSUME NEW m \in 0 .. 7, NEW word \in 0 .. 4 ^ m - 1, NEW value \in Level, NEW k \in 0 .. 7
  PROVE  HasDigit(word + value * 4 ^ m, word, value, m, k)
<1> DEFINE more == word + value * 4 ^ m
<1>1. Digit(more, m) = value /\ more \in 0 .. 4 ^ (m + 1) - 1
  BY DigitWritten, Zenon
<1>2. ASSUME k < m PROVE Digit(more, k) = Digit(word, k)
  <2>1. IsPower(4 ^ m, m) /\ IsPower(4 ^ k, k)
    <3>1. m \in 0 .. 8 /\ k \in 0 .. 8
      OBVIOUS
    <3> QED BY <3>1, PowerIs, Zenon
  <2>2. PICK u \in Nat : 4 ^ m = 4 * 4 ^ k * u
    <3>1. m \in 0 .. 8
      OBVIOUS
    <3>2. HasFactor(4 ^ m, 4 ^ k)
      BY <1>2, <2>1, <3>1, PowerFactor, Zenon
    <3> QED BY <3>2, Zenon DEF HasFactor
  <2>3. 4 ^ m \in Nat /\ 4 ^ k \in Nat
    BY <2>1 DEF IsPower
  <2>4. value * u \in Nat /\ value \in Nat
    BY DEF Level
  <2>5. value * (4 * 4 ^ k * u) = 4 * 4 ^ k * (value * u)
    <3>1. ASSUME NEW a \in Nat, NEW b \in Nat, NEW c \in Nat PROVE a * (4 * b * c) = 4 * b * (a * c)
      OBVIOUS
    <3> QED BY <2>3, <2>4, <3>1
  <2>6. Digit(word + 4 * 4 ^ k * (value * u), k) = Digit(word, k)
    <3>1. word \in Nat
      BY <2>3
    <3> QED BY <2>4, <3>1, DigitKept, Zenon
  <2>7. more = word + 4 * 4 ^ k * (value * u)
    BY <2>2, <2>5, Zenon
  <2> QED BY <2>6, <2>7, Zenon
<1>3. ASSUME k > m PROVE Digit(more, k) = 0
  <2>1. IsPower(4 ^ (m + 1), m + 1) /\ IsPower(4 ^ k, k)
    <3>1. m + 1 \in 0 .. 8 /\ k \in 0 .. 8
      OBVIOUS
    <3> QED BY <3>1, PowerIs, Zenon
  <2>2. 4 ^ (m + 1) <= 4 ^ k
    BY <1>3, <2>1, PowersRise
  <2>3. 4 ^ (m + 1) \in Nat /\ 4 ^ k \in Nat
    BY <2>1 DEF IsPower
  <2> HIDE DEF more
  <2>4. more \in 0 .. 4 ^ k - 1
    BY <1>1, <2>2, <2>3
  <2>5. Digit(more, k) = 0
    BY <2>4, DigitEmpty, Zenon
  <2> QED BY <2>5
<1>4. k = m \/ k < m \/ k > m
  BY TotalOrder
<1>5. ~ (m < m) /\ (k < m => k # m) /\ (k > m => k # m /\ ~ (k < m))
  BY TotalOrder
<1>6. /\ k = m => Digit(more, k) = value
      /\ k < m => Digit(more, k) = Digit(word, k)
      /\ k > m => Digit(more, k) = 0
  BY <1>1, <1>2, <1>3, <1>5, Zenon
<1> QED BY <1>4, <1>5, <1>6, Zenon DEF HasDigit

------------------------------------------------------------------------------
(* Words of eight phases                                                       *)

Splits(c, q, m) == q = c \div 8 /\ m = c % 8
Counts(c, q, m) ==
  /\ m \in 0 .. 7 /\ q \in Nat /\ c = 8 * q + m
  /\ m = 7 => (c + 1) % 8 = 0 /\ (c + 1) \div 8 = q + 1
  /\ m # 7 => (c + 1) % 8 = m + 1 /\ (c + 1) \div 8 = q

LEMMA Eights ==
  ASSUME NEW c \in Nat, NEW q, NEW m, Splits(c, q, m)
  PROVE  Counts(c, q, m)
<1> USE DEF Splits, Counts
<1>1. m \in 0 .. 7
  OBVIOUS
<1>2. q \in Nat
  OBVIOUS
<1>3. c = 8 * q + m
  BY <1>1, <1>2
<1>4. CASE m = 7
  <2>1. (c + 1) % 8 = 0
    BY <1>1, <1>2, <1>3, <1>4
  <2>2. (c + 1) \div 8 = q + 1
    BY <1>1, <1>2, <1>3, <1>4
  <2> QED BY <1>1, <1>2, <1>3, <1>4, <2>1, <2>2
<1>5. CASE m # 7
  <2>1. (c + 1) % 8 = m + 1
    BY <1>1, <1>2, <1>3, <1>5
  <2>2. (c + 1) \div 8 = q
    BY <1>1, <1>2, <1>3, <1>5
  <2> QED BY <1>1, <1>2, <1>3, <1>5, <2>1, <2>2
<1> QED BY <1>4, <1>5

\* c phases after the first s are written, the last of them in the word that is not full.
PackInv(state, phases, s, c) ==
  /\ state.count = c
  /\ state.words \in Seq(Nat) /\ Len(state.words) = c \div 8
  /\ state.word \in 0 .. 4 ^ (c % 8) - 1
  /\ \A k \in 0 .. 7 : Digit(state.word, k) = IF k < c % 8 THEN phases[s + 8 * (c \div 8) + k + 1] ELSE 0
  /\ \A q \in 1 .. c \div 8, k \in 0 .. 7 : Digit(state.words[q], k) = phases[s + 8 * (q - 1) + k + 1]

\* All of them are written.
PackedAs(words, phases, s, c) ==
  /\ words \in Seq(Nat) /\ Len(words) = (c + 7) \div 8
  /\ \A q \in 1 .. Len(words), k \in 0 .. 7 :
       Digit(words[q], k) = IF 8 * (q - 1) + k < c THEN phases[s + 8 * (q - 1) + k + 1] ELSE 0

LEMMA PackBegins ==
  ASSUME NEW phases, NEW s \in Nat
  PROVE  PackInv(Packing, phases, s, 0)
<1>1. 0 % 8 = 0 /\ 0 \div 8 = 0 /\ 4 ^ 0 = 1
  OBVIOUS
<1>2. ASSUME NEW k \in 0 .. 7 PROVE Digit(0, k) = 0
  <2>1. IsPower(4 ^ k, k)
    <3>1. k \in 0 .. 8
      OBVIOUS
    <3> QED BY <3>1, PowerIs, Zenon
  <2>2. 0 \in 0 .. 4 ^ k - 1
    BY <2>1 DEF IsPower
  <2> QED BY <2>2, DigitEmpty, Zenon
<1>3. /\ Packing.count = 0 /\ Packing.word = 0 /\ Packing.words = <<>>
  BY DEF Packing
<1>4. <<>> \in Seq(Nat) /\ Len(<<>>) = 0
  OBVIOUS
<1> HIDE DEF Packing
<1> QED BY <1>1, <1>2, <1>3, <1>4 DEF PackInv

\* The word with the phase that is next.
LEMMA PackWord ==
  ASSUME NEW s \in Nat, NEW c \in Nat, NEW phases, NEW state, PackInv(state, phases, s, c),
         phases[s + c + 1] \in Level, NEW word, word = state.word + phases[s + c + 1] * 4 ^ (state.count % 8)
  PROVE  /\ word \in 0 .. 4 ^ ((c % 8) + 1) - 1
         /\ \A k \in 0 .. 7 : Digit(word, k) = IF k < (c % 8) + 1 THEN phases[s + 8 * (c \div 8) + k + 1] ELSE 0
<1> DEFINE m == c % 8
           Q == c \div 8
<1>0. Splits(c, Q, m)
  BY DEF Splits
<1> HIDE DEF m, Q
<1>1. m \in 0 .. 7 /\ Q \in Nat /\ c = 8 * Q + m
  <2>1. Counts(c, Q, m)
    BY <1>0, Eights, Zenon
  <2> QED BY <2>1 DEF Counts
<1>2. /\ state.count = c /\ state.word \in 0 .. 4 ^ m - 1
      /\ \A k \in 0 .. 7 : Digit(state.word, k) = IF k < m THEN phases[s + 8 * Q + k + 1] ELSE 0
  BY DEF PackInv, m, Q
<1>3. word = state.word + phases[s + c + 1] * 4 ^ m
  BY <1>2 DEF m
<1>4. word \in 0 .. 4 ^ (m + 1) - 1
  BY <1>1, <1>2, <1>3, DigitWritten, Zenon
<1>5. ASSUME NEW k \in 0 .. 7
      PROVE  Digit(word, k) = IF k < m + 1 THEN phases[s + 8 * Q + k + 1] ELSE 0
  <2>1. Digit(word, k) = IF k = m THEN phases[s + c + 1] ELSE IF k < m THEN Digit(state.word, k) ELSE 0
    <3>1. HasDigit(state.word + phases[s + c + 1] * 4 ^ m, state.word, phases[s + c + 1], m, k)
      BY <1>1, <1>2, DigitAdded, Zenon
    <3> QED BY <1>3, <3>1, Zenon DEF HasDigit
  <2>2. CASE k = m
    <3>1. s + 8 * Q + k + 1 = s + c + 1 /\ k < m + 1
      BY <1>1, <2>2
    <3> QED BY <2>1, <2>2, <3>1, Zenon
  <2>3. CASE k < m
    <3>1. k < m + 1 /\ k # m
      BY <1>1, <2>3
    <3> QED BY <1>2, <2>1, <2>3, <3>1, Zenon
  <2>4. CASE k > m
    <3>1. ~ (k < m + 1) /\ k # m /\ ~ (k < m)
      BY <1>1, <2>4
    <3> QED BY <2>1, <3>1, Zenon
  <2> QED BY <1>1, <2>2, <2>3, <2>4
<1> QED BY <1>4, <1>5 DEF m, Q

Driving(state, phases, i, skips) == ~ (skips /\ state.count = 0 /\ phases[i] = 0)

\* Before the last phase: the word is written when it is full.
LEMMA PackGoesOn ==
  ASSUME NEW s \in Nat, NEW c \in Nat, NEW phases, NEW state, PackInv(state, phases, s, c), NEW skips \in BOOLEAN,
         NEW i, i = s + c + 1, phases[i] \in Level, Driving(state, phases, i, skips), i # Len(phases)
  PROVE  PackInv(PackPhase(state, phases, i, skips), phases, s, c + 1)
<1> DEFINE m == c % 8
           Q == c \div 8
           word == state.word + phases[i] * 4 ^ (state.count % 8)
           next == PackPhase(state, phases, i, skips)
<1>0. Splits(c, Q, m)
  BY DEF Splits
<1>1. /\ state.count = c /\ state.words \in Seq(Nat) /\ Len(state.words) = Q
      /\ \A q \in 1 .. Q, k \in 0 .. 7 : Digit(state.words[q], k) = phases[s + 8 * (q - 1) + k + 1]
  BY DEF PackInv
<1>2. /\ word \in 0 .. 4 ^ (m + 1) - 1
      /\ \A k \in 0 .. 7 : Digit(word, k) = IF k < m + 1 THEN phases[s + 8 * Q + k + 1] ELSE 0
  BY PackWord
<1>3. (i = Len(phases)) = FALSE
  OBVIOUS
<1>4. ~ (skips /\ state.count = 0 /\ phases[i] = 0)
  BY DEF Driving
<1>5. next = [count |-> state.count + 1,
              word |-> IF (state.count + 1) % 8 = 0 THEN 0 ELSE word,
              words |-> IF (state.count + 1) % 8 = 0 THEN Append(state.words, word) ELSE state.words]
  BY <1>3, <1>4 DEF PackPhase, Flushes
<1> HIDE DEF m, Q, word, next
<1>6. /\ m \in 0 .. 7 /\ Q \in Nat /\ c = 8 * Q + m
      /\ m = 7 => (c + 1) % 8 = 0 /\ (c + 1) \div 8 = Q + 1
      /\ m # 7 => (c + 1) % 8 = m + 1 /\ (c + 1) \div 8 = Q
  <2>1. Counts(c, Q, m)
    BY <1>0, Eights, Zenon
  <2> QED BY <2>1 DEF Counts
<1>7. word \in Nat
  <2>1. IsPower(4 ^ (m + 1), m + 1)
    <3>1. m + 1 \in 0 .. 8
      BY <1>6
    <3> QED BY <3>1, PowerIs, Zenon
  <2> QED BY <1>2, <2>1 DEF IsPower
<1>8. CASE m = 7
  <2>1. (c + 1) % 8 = 0 /\ (c + 1) \div 8 = Q + 1
    BY <1>6, <1>8
  <2>2. next.count = c + 1 /\ next.word = 0 /\ next.words = Append(state.words, word)
    BY <1>1, <1>5, <2>1
  <2>3. /\ next.words \in Seq(Nat) /\ Len(next.words) = Q + 1
        /\ next.words[Q + 1] = word /\ \A q \in 1 .. Q : next.words[q] = state.words[q]
    BY <1>1, <1>7, <2>2, AppendProperties
  <2>4. 0 \in 0 .. 4 ^ 0 - 1
    BY Powers
  <2>5. \A k \in 0 .. 7 : Digit(0, k) = 0 /\ ~ (k < 0)
    <3>1. PackInv(Packing, phases, s, 0)
      BY PackBegins
    <3>2. Packing.word = 0 /\ 0 % 8 = 0
      BY DEF Packing
    <3>3. \A k \in 0 .. 7 : Digit(0, k) = IF k < 0 THEN phases[s + 8 * (0 \div 8) + k + 1] ELSE 0
      BY <3>1, <3>2 DEF PackInv
    <3> QED BY <3>3
  <2>6. ASSUME NEW q \in 1 .. Q + 1, NEW k \in 0 .. 7
        PROVE  Digit(next.words[q], k) = phases[s + 8 * (q - 1) + k + 1]
    <3>1. CASE q = Q + 1
      <4>1. q - 1 = Q /\ k < m + 1
        BY <1>6, <1>8, <3>1
      <4> QED BY <1>2, <2>3, <3>1, <4>1, Zenon
    <3>2. CASE q # Q + 1
      <4>1. q \in 1 .. Q
        BY <1>6, <3>2
      <4> QED BY <1>1, <2>3, <4>1, Zenon
    <3> QED BY <3>1, <3>2
  <2>7. PackInv(next, phases, s, c + 1)
    <3>1. \A k \in 0 .. 7 : Digit(next.word, k) = 0 /\ ~ (k < (c + 1) % 8)
      BY <2>1, <2>2, <2>5, Zenon
    <3>2. \A k \in 0 .. 7 :
            Digit(next.word, k) = IF k < (c + 1) % 8 THEN phases[s + 8 * ((c + 1) \div 8) + k + 1] ELSE 0
      BY <3>1, Zenon
    <3>3. next.word \in 0 .. 4 ^ ((c + 1) % 8) - 1 /\ Len(next.words) = (c + 1) \div 8
      BY <2>1, <2>2, <2>3, <2>4, Zenon
    <3>4. \A q \in 1 .. (c + 1) \div 8, k \in 0 .. 7 : Digit(next.words[q], k) = phases[s + 8 * (q - 1) + k + 1]
      BY <2>1, <2>6, Zenon
    <3> QED BY <2>2, <2>3, <3>2, <3>3, <3>4, Zenon DEF PackInv
  <2> QED BY <2>7 DEF next
<1>9. CASE m # 7
  <2>1. (c + 1) % 8 = m + 1 /\ (c + 1) \div 8 = Q /\ m + 1 # 0
    BY <1>6, <1>9
  <2>2. next.count = c + 1 /\ next.word = word /\ next.words = state.words
    BY <1>1, <1>5, <2>1
  <2>3. PackInv(next, phases, s, c + 1)
    BY <1>1, <1>2, <2>1, <2>2, Zenon DEF PackInv
  <2> QED BY <2>3 DEF next
<1> QED BY <1>8, <1>9

\* The last one writes what there is.
LEMMA PackEnds ==
  ASSUME NEW s \in Nat, NEW c \in Nat, NEW phases, NEW state, PackInv(state, phases, s, c), NEW skips \in BOOLEAN,
         NEW i, i = s + c + 1, phases[i] \in Level, Driving(state, phases, i, skips), i = Len(phases)
  PROVE  PackedAs(PackPhase(state, phases, i, skips).words, phases, s, c + 1)
<1> DEFINE m == c % 8
           Q == c \div 8
           word == state.word + phases[i] * 4 ^ (state.count % 8)
           words == PackPhase(state, phases, i, skips).words
<1>0. Splits(c, Q, m)
  BY DEF Splits
<1>1. /\ state.words \in Seq(Nat) /\ Len(state.words) = Q
      /\ \A q \in 1 .. Q, k \in 0 .. 7 : Digit(state.words[q], k) = phases[s + 8 * (q - 1) + k + 1]
  BY DEF PackInv
<1>2. /\ word \in 0 .. 4 ^ (m + 1) - 1
      /\ \A k \in 0 .. 7 : Digit(word, k) = IF k < m + 1 THEN phases[s + 8 * Q + k + 1] ELSE 0
  BY PackWord
<1>3. words = Append(state.words, word)
  BY DEF PackPhase, Flushes, Driving
<1> HIDE DEF m, Q, word, words
<1>4. m \in 0 .. 7 /\ Q \in Nat /\ c = 8 * Q + m
  <2>1. Counts(c, Q, m)
    BY <1>0, Eights, Zenon
  <2> QED BY <2>1 DEF Counts
<1>5. word \in Nat
  <2>1. IsPower(4 ^ (m + 1), m + 1)
    <3>1. m + 1 \in 0 .. 8
      BY <1>4
    <3> QED BY <3>1, PowerIs, Zenon
  <2> QED BY <1>2, <2>1 DEF IsPower
<1>6. /\ words \in Seq(Nat) /\ Len(words) = Q + 1
      /\ words[Q + 1] = word /\ \A q \in 1 .. Q : words[q] = state.words[q]
  BY <1>1, <1>3, <1>5, AppendProperties
<1>7. Q + 1 = (c + 1 + 7) \div 8
  BY <1>4
<1>8. ASSUME NEW q \in 1 .. Q + 1, NEW k \in 0 .. 7
      PROVE  Digit(words[q], k) = IF 8 * (q - 1) + k < c + 1 THEN phases[s + 8 * (q - 1) + k + 1] ELSE 0
  <2>1. CASE q = Q + 1
    <3>1. q - 1 = Q /\ (k < m + 1 <=> 8 * (q - 1) + k < c + 1)
      BY <1>4, <2>1
    <3> QED BY <1>2, <1>6, <2>1, <3>1, Zenon
  <2>2. CASE q # Q + 1
    <3>1. q \in 1 .. Q /\ 8 * (q - 1) + k < c + 1
      BY <1>4, <2>2
    <3> QED BY <1>1, <1>6, <3>1, Zenon
  <2> QED BY <2>1, <2>2
<1>9. PackedAs(words, phases, s, c + 1)
  BY <1>6, <1>7, <1>8, Zenon DEF PackedAs
<1> QED BY <1>9 DEF words

\* What is unpacked are the phases.
LEMMA UnpackedAs ==
  ASSUME NEW s \in Nat, NEW c \in Nat, NEW phases, NEW words, PackedAs(words, phases, s, c), NEW j \in Nat \ {0}
  PROVE  Unpack(words, j) = IF j <= c THEN phases[s + j] ELSE 0
<1> DEFINE q == (j - 1) \div 8
           k == (j - 1) % 8
<1>1. PICK d \in Nat : d = j - 1
  OBVIOUS
<1>2. Splits(d, q, k)
  BY <1>1 DEF Splits
<1>3. Unpack(words, j) = IF q >= Len(words) THEN 0 ELSE Digit(words[q + 1], k)
  BY DEF Unpack, Digit
<1> HIDE DEF q, k
<1>4. k \in 0 .. 7 /\ q \in Nat /\ j - 1 = 8 * q + k
  <2>1. Counts(d, q, k)
    BY <1>2, Eights, Zenon
  <2> QED BY <1>1, <2>1 DEF Counts
<1>5. Len(words) \in Nat /\ Len(words) = (c + 7) \div 8
  BY DEF PackedAs
<1>6. CASE q >= Len(words)
  <2>1. ~ (j <= c)
    BY <1>4, <1>5, <1>6
  <2> QED BY <1>3, <1>6, <2>1
<1>7. CASE ~ (q >= Len(words))
  <2>1. q + 1 \in 1 .. Len(words) /\ q + 1 - 1 = q
    BY <1>4, <1>5, <1>7
  <2>2. Digit(words[q + 1], k) = IF 8 * q + k < c THEN phases[s + 8 * q + k + 1] ELSE 0
    <3>1. PICK p \in 1 .. Len(words) : p = q + 1
      BY <2>1
    <3>2. p - 1 = q
      BY <1>4, <3>1
    <3>3. Digit(words[p], k) = IF 8 * (p - 1) + k < c THEN phases[s + 8 * (p - 1) + k + 1] ELSE 0
      BY <1>4 DEF PackedAs
    <3> QED BY <3>1, <3>2, <3>3, Zenon
  <2>3. (8 * q + k < c <=> j <= c) /\ s + 8 * q + k + 1 = s + j
    BY <1>4
  <2> QED BY <1>3, <1>7, <2>2, <2>3, Zenon
<1> QED BY <1>6, <1>7

------------------------------------------------------------------------------
(* The loop over the phases                                                    *)

Words == Seq(Nat)
Packings == [count : Nat, word : Nat, words : Words]

LEMMA PackPhaseTyped ==
  ASSUME NEW state \in Packings, NEW phases, NEW i, phases[i] \in Level, NEW skips \in BOOLEAN
  PROVE  PackPhase(state, phases, i, skips) \in Packings
<1> DEFINE word == state.word + phases[i] * 4 ^ (state.count % 8)
           flushes == Flushes(state.count + 1, i = Len(phases))
           words == IF flushes THEN Append(state.words, word) ELSE state.words
<1>1. state.count \in Nat /\ state.word \in Nat /\ state.words \in Words
  BY DEF Packings
<1>2. 4 ^ (state.count % 8) \in Nat
  <2>1. state.count % 8 \in 0 .. 8
    BY <1>1
  <2>2. IsPower(4 ^ (state.count % 8), state.count % 8)
    BY <2>1, PowerIs, Zenon
  <2> QED BY <2>2 DEF IsPower
<1>3. word \in Nat
  <2>1. ASSUME NEW a \in Nat, NEW b \in Nat, NEW c \in Nat PROVE a + b * c \in Nat
    OBVIOUS
  <2>2. phases[i] \in Nat
    BY DEF Level
  <2> QED BY <1>1, <1>2, <2>1, <2>2
<1> HIDE DEF word
<1>4. words \in Words
  <2>1. Append(state.words, word) \in Words
    BY <1>1, <1>3, AppendProperties DEF Words
  <2> QED BY <1>1, <2>1
<1>5. \/ PackPhase(state, phases, i, skips) = state
      \/ PackPhase(state, phases, i, skips) =
           [count |-> state.count + 1, word |-> IF flushes THEN 0 ELSE word, words |-> words]
  BY DEF PackPhase, word
<1> HIDE DEF flushes, words
<1>6. state.count + 1 \in Nat /\ (IF flushes THEN 0 ELSE word) \in Nat
  BY <1>1, <1>3
<1> QED BY <1>4, <1>5, <1>6 DEF Packings

\* r has the states of the loop.
Packs(r, phases, n, skips) ==
  /\ r \in [0 .. n -> Packings]
  /\ r[0] = Packing
  /\ \A i \in 1 .. n : r[i] = PackPhase(r[i - 1], phases, i, skips)

LEMMA PackUpToDef ==
  ASSUME NEW n \in Nat, NEW phases \in [1 .. n -> Level], NEW skips \in BOOLEAN
  PROVE  Packs(PackUpTo(phases, skips), phases, n, skips)
<1> DEFINE Step == [x \in Packings \X (1 .. n) |-> PackPhase(x[1], phases, x[2], skips)]
           Defines(g) == g = [i \in 0 .. n |-> IF i = 0 THEN Packing ELSE PackPhase(g[i - 1], phases, i, skips)]
<1>0. Len(phases) = n
  OBVIOUS
<1>1. Packing \in Packings
  <2>1. <<>> \in Words
    BY DEF Words
  <2> QED BY <2>1 DEF Packing, Packings
<1>2. Step \in [Packings \X (1 .. n) -> Packings]
  <2>1. ASSUME NEW x \in Packings \X (1 .. n) PROVE PackPhase(x[1], phases, x[2], skips) \in Packings
    <3>1. x[1] \in Packings /\ phases[x[2]] \in Level
      OBVIOUS
    <3> QED BY <3>1, PackPhaseTyped
  <2> QED BY <2>1
<1>3. \A s \in Packings, i \in 1 .. n : Step[<<s, i>>] = PackPhase(s, phases, i, skips)
  OBVIOUS
<1> HIDE DEF Step
<1>4. PICK r : Recurs(r, n, Packings, Packing, Step)
  BY <1>1, <1>2, Recursion
<1>5. r \in [0 .. n -> Packings] /\ r[0] = Packing /\ \A i \in 1 .. n : r[i] = Step[<<r[i - 1], i>>]
  BY <1>4 DEF Recurs
<1>6. \A i \in 1 .. n : i - 1 \in 0 .. n
  OBVIOUS
<1>7. \A i \in 1 .. n : r[i] = PackPhase(r[i - 1], phases, i, skips)
  BY <1>3, <1>5, <1>6
<1>8. Defines(r)
  <2>1. \A i \in 0 .. n : i = 0 \/ i \in 1 .. n
    OBVIOUS
  <2>2. \A i \in 0 .. n : r[i] = IF i = 0 THEN Packing ELSE PackPhase(r[i - 1], phases, i, skips)
    BY <1>5, <1>7, <2>1
  <2> QED BY <1>5, <2>2
<1>9. PackUpTo(phases, skips) = CHOOSE g : Defines(g)
  BY <1>0 DEF PackUpTo
<1> DEFINE g == PackUpTo(phases, skips)
<1>10. Defines(g)
  <2> HIDE DEF Defines
  <2> QED BY <1>8, <1>9
<1>11. \A i \in 0 .. n : g[i] = IF i = 0 THEN Packing ELSE PackPhase(g[i - 1], phases, i, skips)
  BY <1>10
<1>12. g = [i \in 0 .. n |-> g[i]]
  BY <1>10
<1> HIDE DEF g, Defines
<1> DEFINE T == {i \in 0 .. n : g[i] = r[i]}
<1>t. \A i \in 0 .. n : i \in T <=> g[i] = r[i]
  BY Zenon
<1> HIDE DEF T
<1>13. 0 \in T
  <2>1. 0 \in 0 .. n
    OBVIOUS
  <2> QED BY <1>5, <1>11, <1>t, <2>1
<1>14. ASSUME NEW i \in 1 .. n, i - 1 \in T PROVE i \in T
  <2>1. i - 1 \in 0 .. n /\ i \in 0 .. n /\ i # 0
    OBVIOUS
  <2>2. g[i] = PackPhase(g[i - 1], phases, i, skips) /\ g[i - 1] = r[i - 1]
    BY <1>11, <1>14, <1>t, <2>1
  <2>3. g[i] = r[i]
    BY <1>7, <2>2, Zenon
  <2> QED BY <1>t, <2>1, <2>3
<1>15. 0 .. n \subseteq T
  BY <1>13, <1>14, Ascends
<1>16. \A i \in 0 .. n : g[i] = r[i]
  BY <1>t, <1>15
<1>17. g = r
  BY <1>5, <1>12, <1>16
<1> QED BY <1>5, <1>7, <1>17 DEF Packs, g

\* s phases are left out.
Skips(phases, n, skips, s) ==
  /\ s \in 0 .. n
  /\ s # 0 => skips
  /\ \A i \in 1 .. s : phases[i] = 0
  /\ skips /\ s < n => phases[s + 1] # 0

LEMMA Packed ==
  ASSUME NEW n \in Nat \ {0}, NEW phases \in [1 .. n -> Level], NEW skips \in BOOLEAN,
         NEW s, Skips(phases, n, skips, s)
  PROVE  PackedAs(Pack(phases, skips), phases, s, n - s)
<1> DEFINE r == PackUpTo(phases, skips)
<1>0. Packs(r, phases, n, skips)
  <2>1. n \in Nat
    OBVIOUS
  <2> QED BY <2>1, PackUpToDef, Zenon
<1>1. Len(phases) = n
  OBVIOUS
<1>2. Pack(phases, skips) = r[n].words
  BY <1>1 DEF Pack
<1> HIDE DEF r
<1>3. s \in 0 .. n /\ s \in Nat
  BY DEF Skips
<1> DEFINE Good(i) == IF i <= s THEN r[i] = Packing ELSE PackInv(r[i], phases, s, i - s)
           T == {i \in 0 .. n - 1 : Good(i)}
<1>t. \A i \in 0 .. n - 1 : i \in T <=> Good(i)
  BY Zenon
<1>g. \A i \in 0 .. n - 1 : i \in T /\ i >= s => PackInv(r[i], phases, s, i - s)
  <2> SUFFICES ASSUME NEW i \in 0 .. n - 1, i \in T, i >= s PROVE PackInv(r[i], phases, s, i - s)
    OBVIOUS
  <2>1. CASE i = s
    <3>1. r[i] = Packing /\ i - s = 0
      BY <1>3, <2>1
    <3> QED BY <1>3, <3>1, PackBegins
  <2>2. CASE i # s
    <3>1. ~ (i <= s)
      BY <1>3, <2>2
    <3> QED BY <3>1
  <2> QED BY <2>1, <2>2
<1> HIDE DEF T, Good
<1>4. 0 \in T
  <2>1. 0 \in 0 .. n - 1 /\ 0 <= s
    BY <1>3
  <2>2. r[0] = Packing
    BY <1>0 DEF Packs
  <2> QED BY <1>t, <2>1, <2>2 DEF Good
<1>s. ASSUME NEW i \in 1 .. s, r[i - 1] = Packing PROVE r[i] = Packing
  <2>1. i \in 1 .. n /\ phases[i] = 0 /\ skips
    BY <1>3 DEF Skips
  <2>2. r[i] = PackPhase(Packing, phases, i, skips)
    BY <1>0, <1>s, <2>1 DEF Packs
  <2>3. Packing.count = 0
    BY DEF Packing
  <2> QED BY <2>1, <2>2, <2>3 DEF PackPhase
<1>d. ASSUME NEW i \in 1 .. n, i > s, PackInv(r[i - 1], phases, s, i - 1 - s)
      PROVE  /\ Driving(r[i - 1], phases, i, skips) /\ r[i] = PackPhase(r[i - 1], phases, i, skips)
             /\ phases[i] \in Level
             /\ i - 1 - s \in Nat /\ i = s + (i - 1 - s) + 1
  <2>1. r[i - 1].count = i - 1 - s
    BY <1>d DEF PackInv
  <2>2. skips /\ i - 1 - s = 0 => phases[i] # 0
    <3>1. i - 1 - s = 0 => i = s + 1 /\ s < n
      BY <1>3
    <3> QED BY <3>1 DEF Skips
  <2>3. i - 1 - s \in Nat /\ i = s + (i - 1 - s) + 1
    BY <1>3, <1>d
  <2>4. Driving(r[i - 1], phases, i, skips)
    BY <2>1, <2>2, Zenon DEF Driving
  <2> QED BY <1>0, <2>3, <2>4 DEF Packs
<1>5. ASSUME NEW i \in 1 .. n - 1, i - 1 \in T PROVE i \in T
  <2>1. i - 1 \in 0 .. n - 1 /\ i \in 0 .. n - 1 /\ i \in 1 .. n /\ i # n
    OBVIOUS
  <2>2. CASE i <= s
    <3>1. i \in 1 .. s /\ i - 1 <= s
      BY <1>3, <2>2
    <3>2. r[i - 1] = Packing
      BY <1>5, <1>t, <2>1, <3>1, Zenon DEF Good
    <3>3. r[i] = Packing
      BY <1>s, <3>1, <3>2
    <3> QED BY <1>t, <2>1, <2>2, <3>3, Zenon DEF Good
  <2>3. CASE ~ (i <= s)
    <3>1. i > s /\ i - 1 >= s /\ i - 1 - s + 1 = i - s
      BY <1>3, <2>3
    <3>2. PackInv(r[i - 1], phases, s, i - 1 - s)
      BY <1>g, <1>5, <2>1, <3>1, Zenon
    <3>3. /\ Driving(r[i - 1], phases, i, skips) /\ r[i] = PackPhase(r[i - 1], phases, i, skips)
          /\ phases[i] \in Level
          /\ i - 1 - s \in Nat /\ i = s + (i - 1 - s) + 1
      BY <1>d, <2>1, <3>1, <3>2
    <3>4. i # Len(phases)
      BY <1>1, <2>1
    <3>5. PackInv(PackPhase(r[i - 1], phases, i, skips), phases, s, i - 1 - s + 1)
      BY <1>3, <3>2, <3>3, <3>4, PackGoesOn
    <3>6. PackInv(r[i], phases, s, i - s)
      BY <3>1, <3>3, <3>5
    <3> QED BY <1>t, <2>1, <2>3, <3>6, Zenon DEF Good
  <2> QED BY <2>2, <2>3
<1>6. 0 .. n - 1 \subseteq T
  <2>1. n - 1 \in Nat
    OBVIOUS
  <2> QED BY <1>4, <1>5, <2>1, Ascends
<1>7. n - 1 \in T /\ n - 1 \in 0 .. n - 1 /\ n \in 1 .. n
  BY <1>6
<1>8. CASE s = n
  <2>1. n \in 1 .. s /\ n - 1 <= s
    BY <1>8
  <2>2. r[n - 1] = Packing
    BY <1>t, <1>7, <2>1, Zenon DEF Good
  <2>3. r[n] = Packing
    BY <1>s, <2>1, <2>2
  <2>4. Pack(phases, skips) = <<>> /\ n - s = 0
    BY <1>2, <1>8, <2>3 DEF Packing
  <2>5. <<>> \in Seq(Nat) /\ Len(<<>>) = 0 /\ (0 + 7) \div 8 = 0
    OBVIOUS
  <2> QED BY <2>4, <2>5 DEF PackedAs
<1>9. CASE s # n
  <2>1. n > s /\ n - 1 >= s /\ n - 1 - s + 1 = n - s
    BY <1>3, <1>9
  <2>2. PackInv(r[n - 1], phases, s, n - 1 - s)
    BY <1>g, <1>7, <2>1, Zenon
  <2>3. /\ Driving(r[n - 1], phases, n, skips) /\ r[n] = PackPhase(r[n - 1], phases, n, skips)
        /\ phases[n] \in Level
        /\ n - 1 - s \in Nat /\ n = s + (n - 1 - s) + 1
    BY <1>d, <1>7, <2>1, <2>2
  <2>4. PackedAs(PackPhase(r[n - 1], phases, n, skips).words, phases, s, n - 1 - s + 1)
    BY <1>1, <1>3, <2>2, <2>3, PackEnds
  <2> QED BY <1>2, <2>1, <2>3, <2>4
<1> QED BY <1>8, <1>9

------------------------------------------------------------------------------
(* Matrices: where the value of a phase is                                     *)

Scale(large) == IF large THEN 2 ELSE 1

\* The offset into a phase is the entry of the matrix, and within the phase.
LEMMA OffsetIsEntry ==
  ASSUME NEW large \in BOOLEAN, NEW L \in Nat \ {0}, L = Levels,
         NEW i \in Nat, NEW to \in 0 .. L - 1, NEW from \in 0 .. L - 1, NEW side, side = Scale(large) * L
  PROVE  /\ elementSize(large) = side * side /\ elementSize(large) \in Nat \ {0}
         /\ Offset(large, to, from) \in 0 .. elementSize(large) - 1
         /\ (i - 1) * elementSize(large) + Offset(large, to, from) + 1 =
              (i - 1) * side * side + from * Scale(large) * side + to * Scale(large) + 1
<1>1. PICK d \in Nat : L = from + 1 + d
  <2>1. L - from - 1 \in Nat /\ L = from + 1 + (L - from - 1)
    OBVIOUS
  <2> QED BY <2>1
<1>2. from * L + L + d * L = L * L
  BY <1>1
<1>3. from * L \in Nat /\ L * L \in Nat /\ d * L \in Nat
  OBVIOUS
<1>4. L * L # 0
  OBVIOUS
<1>5. CASE large
  <2>1. elementSize(large) = 4 * L * L /\ Offset(large, to, from) = to * 2 + from * 4 * L /\ side = 2 * L /\ Scale(large) = 2
    BY <1>5 DEF elementSize, Offset, Scale
  <2>2. 4 * L * L = (2 * L) * (2 * L)
    OBVIOUS
  <2>3. 4 * L * L = 4 * (L * L) /\ from * 4 * L = 4 * (from * L) /\ 4 * (d * L) \in Nat
    BY <1>3
  <2>4. to * 2 + from * 4 * L \in 0 .. 4 * L * L - 1
    BY <1>2, <1>3, <2>3
  <2>5. (i - 1) * (4 * L * L) + (to * 2 + from * 4 * L) + 1 = (i - 1) * (2 * L) * (2 * L) + from * 2 * (2 * L) + to * 2 + 1
    OBVIOUS
  <2>6. 4 * L * L \in Nat \ {0}
    BY <1>3, <1>4, <2>3
  <2> QED BY <2>1, <2>2, <2>4, <2>5, <2>6, Zenon
<1>6. CASE ~large
  <2>1. elementSize(large) = L * L /\ Offset(large, to, from) = to + from * L /\ side = L /\ Scale(large) = 1
    BY <1>6 DEF elementSize, Offset, Scale
  <2>2. to + from * L \in 0 .. L * L - 1
    BY <1>2, <1>3
  <2>3. (i - 1) * (L * L) + (to + from * L) + 1 = (i - 1) * L * L + from * 1 * L + to * 1 + 1
    OBVIOUS
  <2>4. L * L \in Nat \ {0}
    BY <1>3, <1>4
  <2> QED BY <2>1, <2>2, <2>3, <2>4, Zenon
<1> QED BY <1>5, <1>6

\* Whole phases are within what was read.
LEMMA PhasesFit ==
  ASSUME NEW n \in Nat, NEW size \in Nat \ {0}, NEW count, count = n \div size,
         NEW i \in 1 .. count, NEW offset \in 0 .. size - 1
  PROVE  (i - 1) * size + offset + 1 \in 1 .. n
<1>1. count \in Nat
  OBVIOUS
<1>2. count * size <= n
  BY <1>1
<1>3. PICK d \in Nat : count = i + d
  <2>1. count - i \in Nat /\ count = i + (count - i)
    BY <1>1
  <2> QED BY <2>1
<1>4. count * size = (i - 1) * size + size + d * size
  BY <1>3
<1>5. d * size \in Nat /\ (i - 1) * size \in Nat
  <2>1. i - 1 \in Nat
    OBVIOUS
  <2> QED BY <2>1
<1> DEFINE a == (i - 1) * size
           b == d * size
           c == count * size
<1>6. a \in Nat /\ b \in Nat /\ c = a + size + b /\ c <= n
  BY <1>2, <1>4, <1>5
<1> HIDE DEF a, b, c
<1>7. a + offset + 1 \in 1 .. n
  BY <1>6
<1> QED BY <1>7 DEF a

PhasesOf(file, t) == [i \in 1 .. PhaseCount(file) |-> MatrixAt(file, i, t[2], t[1])]

FileType == [chunks : Seq(Chunks), large : BOOLEAN, missing : {{}, {1}}]

LEMMA SidesOf ==
  ASSUME NEW file \in FileType
  PROVE  /\ Side(file) = Scale(file.large) * Levels /\ Levels \in Nat \ {0} /\ file.large \in BOOLEAN
         /\ elementSize(file.large) = Side(file) * Side(file) /\ elementSize(file.large) \in Nat \ {0}
         /\ PhaseCount(file) = Len(Expand(file.chunks)) \div elementSize(file.large) /\ PhaseCount(file) \in Nat
<1>1. Levels \in Nat \ {0}
  BY WaveformsAssumption
<1>2. file.large \in BOOLEAN /\ file.chunks \in Seq(Chunks)
  BY DEF FileType
<1>3. Side(file) = Scale(file.large) * Levels
  BY <1>1 DEF Side, Scale
<1>4. 0 \in 0 .. Levels - 1 /\ 1 \in Nat
  BY <1>1
<1>5. elementSize(file.large) = Side(file) * Side(file) /\ elementSize(file.large) \in Nat \ {0}
  BY <1>1, <1>2, <1>3, <1>4, OffsetIsEntry
<1>6. PhaseCount(file) = Len(Expand(file.chunks)) \div elementSize(file.large)
  BY <1>5 DEF PhaseCount
<1>7. Len(Expand(file.chunks)) \in Nat
  <2>1. Expand(file.chunks) \in Seq(Level)
    BY <1>2, FileDecoded
  <2> QED BY <2>1
<1>8. PhaseCount(file) \in Nat
  BY <1>5, <1>6, <1>7
<1> QED BY <1>1, <1>2, <1>3, <1>5, <1>6, <1>8

\* The phases of a transition are sampled from the file, and as many as it has.
LEMMA PhasesSampled ==
  ASSUME NEW file \in FileType, NEW t \in Transitions
  PROVE  /\ PhasesOf(file, t) \in [1 .. PhaseCount(file) -> Level]
         /\ PhasesOf(file, t) =
              [i \in 1 .. PhaseCount(file) |->
                 Expand(file.chunks)[(i - 1) * elementSize(file.large) + Offset(file.large, t[1], t[2]) + 1]]
<1> DEFINE out == Expand(file.chunks)
           size == elementSize(file.large)
           side == Side(file)
           offset == Offset(file.large, t[1], t[2])
           P == PhaseCount(file)
           Index(i) == (i - 1) * size + offset + 1
<1>1. /\ side = Scale(file.large) * Levels /\ Levels \in Nat \ {0} /\ file.large \in BOOLEAN
      /\ size \in Nat \ {0} /\ P = Len(out) \div size /\ P \in Nat
  BY SidesOf
<1>2. t[1] \in 0 .. Levels - 1 /\ t[2] \in 0 .. Levels - 1
  BY DEF Transitions
<1>3. out \in Seq(Level) /\ Len(out) \in Nat
  <2>1. file.chunks \in Seq(Chunks)
    BY DEF FileType
  <2>2. out \in Seq(Level)
    BY <2>1, FileDecoded, Zenon
  <2> HIDE DEF out
  <2> QED BY <2>2
<1>4. ASSUME NEW i \in 1 .. P
      PROVE  /\ Index(i) \in 1 .. Len(out)
             /\ MatrixAt(file, i, t[2], t[1]) = out[Index(i)]
  <2>1. /\ offset \in 0 .. size - 1
        /\ Index(i) = (i - 1) * side * side + t[2] * Scale(file.large) * side + t[1] * Scale(file.large) + 1
    <3>1. i \in Nat
      BY <1>1
    <3> QED BY <1>1, <1>2, <3>1, OffsetIsEntry
  <2>2. Index(i) \in 1 .. Len(out)
    <3> HIDE DEF out, size, offset, P
    <3> QED BY <1>1, <1>3, <2>1, PhasesFit
  <2>3. MatrixAt(file, i, t[2], t[1]) =
          out[(i - 1) * side * side + t[2] * Scale(file.large) * side + t[1] * Scale(file.large) + 1]
    BY Zenon DEF MatrixAt, Scale
  <2> QED BY <2>1, <2>2, <2>3, Zenon
<1>5. \A i \in 1 .. P : out[Index(i)] \in Level
  BY <1>3, <1>4, ElementOf, Zenon
<1>6. PhasesOf(file, t) = [i \in 1 .. P |-> out[Index(i)]]
  BY <1>4, Zenon DEF PhasesOf
<1>7. [i \in 1 .. P |-> out[Index(i)]] \in [1 .. P -> Level]
  BY <1>5, Zenon
<1> QED BY <1>6, <1>7, Zenon

\* Where the first phase is that drives a transition.
LEMMA LeastNumber ==
  ASSUME NEW S, S \subseteq Nat, S # {}
  PROVE  \E i \in S : \A other \in S : i <= other
<1>1. \A x \in Nat, y \in Nat : y < x => <<y, x>> \in OpToRel(<, Nat)
  BY DEF OpToRel
<1>2. PICK x \in S : \A y \in S : ~ (<<y, x>> \in OpToRel(<, Nat))
  BY NatLessThanWellFounded, WFMin
<1>3. \A y \in S : y \in Nat /\ x \in Nat
  OBVIOUS
<1>4. \A y \in S : ~ (y < x)
  BY <1>1, <1>2, <1>3, Zenon
<1>5. \A y \in S : x <= y
  BY <1>3, <1>4
<1> QED BY <1>5

\* Drive leaves out as many phases as Pack.
LEMMA DriveSkips ==
  ASSUME NEW file \in FileType, PhaseCount(file) > 0, NEW t \in Transitions, NEW table
  PROVE  \E s : /\ Skips(PhasesOf(file, t), PhaseCount(file), skipInit(table), s)
                /\ Len(Drive(file, table, t)) = PhaseCount(file) - s
                /\ \A i \in 1 .. PhaseCount(file) - s : Drive(file, table, t)[i] = PhasesOf(file, t)[s + i]
<1> DEFINE all == PhasesOf(file, t)
           P == PhaseCount(file)
           driving == {i \in DOMAIN all : all[i] # 0}
           first == IF driving = {} THEN Len(all) + 1
                    ELSE CHOOSE i \in driving : \A other \in driving : i <= other
<1>1. P \in Nat /\ P > 0
  BY SidesOf
<1>2. all \in [1 .. P -> Level]
  BY PhasesSampled, Zenon
<1>3. Drive(file, table, t) = IF skipInit(table) THEN SubSeq(all, first, Len(all)) ELSE all
  BY Zenon DEF Drive, PhasesOf
<1> HIDE DEF all, P
<1>4. DOMAIN all = 1 .. P /\ Len(all) = P /\ all \in Seq(Level)
  <2>1. DOMAIN all = 1 .. P
    BY <1>2
  <2>2. Len(all) = P
    BY <1>1, <1>2
  <2>3. all \in Seq(Level)
    BY <1>1, <1>2
  <2> QED BY <2>1, <2>2, <2>3
<1>5. /\ first \in 1 .. P + 1
      /\ \A i \in 1 .. first - 1 : all[i] = 0
      /\ first < P + 1 => all[first] # 0
  <2>0. driving = {i \in 1 .. P : all[i] # 0} /\ driving \subseteq Nat
    BY <1>1, <1>4
  <2>1. CASE driving = {}
    <3>1. first = P + 1
      BY <1>4, <2>1
    <3>2. \A i \in 1 .. P : all[i] = 0
      BY <2>0, <2>1
    <3> HIDE DEF first
    <3> QED BY <1>1, <3>1, <3>2
  <2>2. CASE driving # {}
    <3>1. \E i \in driving : \A other \in driving : i <= other
      <4> HIDE DEF driving
      <4> QED BY <2>0, <2>2, LeastNumber
    <3>2. first \in driving /\ \A other \in driving : first <= other
      <4> HIDE DEF driving
      <4> QED BY <2>2, <3>1
    <3> HIDE DEF first
    <3>3. first \in 1 .. P /\ all[first] # 0
      BY <2>0, <3>2
    <3>4. ASSUME NEW i \in 1 .. first - 1 PROVE all[i] = 0
      <4>1. i \in 1 .. P /\ ~ (first <= i)
        BY <1>1, <3>3
      <4> QED BY <2>0, <3>2, <4>1
    <3> QED BY <1>1, <3>3, <3>4
  <2> QED BY <2>1, <2>2
<1> HIDE DEF first, driving
<1>6. CASE skipInit(table)
  <2> DEFINE s == first - 1
  <2>1. s \in 0 .. P /\ s + 1 = first
    BY <1>1, <1>5
  <2>2. Skips(all, P, skipInit(table), s)
    <3>1. \A i \in 1 .. s : all[i] = 0
      BY <1>5
    <3>2. s < P => first < P + 1
      BY <1>1, <1>5
    <3> HIDE DEF s
    <3> QED BY <1>5, <1>6, <2>1, <3>1, <3>2 DEF Skips
  <2>3. Drive(file, table, t) = SubSeq(all, first, P)
    BY <1>3, <1>4, <1>6
  <2>4. SubSeq(all, first, P) = [i \in 1 .. P - s |-> all[s + i]]
    <3>1. SubSeq(all, first, P) = [i \in 1 .. 1 + P - first |-> all[first + i - 1]]
      BY <1>1, <1>4, <1>5
    <3>2. 1 + P - first = P - s /\ \A i \in 1 .. P - s : first + i - 1 = s + i
      BY <1>1, <1>5
    <3> HIDE DEF s
    <3> QED BY <3>1, <3>2
  <2>5. P - s \in Nat
    BY <1>1, <2>1
  <2>6. Len(Drive(file, table, t)) = P - s /\ \A i \in 1 .. P - s : Drive(file, table, t)[i] = all[s + i]
    <3> HIDE DEF s
    <3> QED BY <2>3, <2>4, <2>5
  <2> QED BY <2>2, <2>6 DEF all, P
<1>7. CASE ~skipInit(table)
  <2>1. Skips(all, P, skipInit(table), 0)
    BY <1>1, <1>7 DEF Skips
  <2>2. Drive(file, table, t) = all /\ P - 0 = P /\ \A i \in 1 .. P : 0 + i = i
    BY <1>1, <1>3, <1>7
  <2>3. Len(Drive(file, table, t)) = P - 0 /\ \A i \in 1 .. P - 0 : Drive(file, table, t)[i] = all[0 + i]
    BY <1>4, <2>2
  <2> QED BY <2>1, <2>3 DEF all, P
<1> QED BY <1>6, <1>7

------------------------------------------------------------------------------
(* The tables drive as the file says                                           *)

\* Words of a transition say what the file does, or nothing where it keeps its level.
DrivesAs(words, file, table, t, still) ==
  \A i \in 1 .. PhaseCount(file) :
    Unpack(words, i) = IF still \/ i > Len(Drive(file, table, t)) THEN 0 ELSE Drive(file, table, t)[i]

LEMMA PackDrives ==
  ASSUME NEW file \in FileType, PhaseCount(file) > 0, NEW t \in Transitions, NEW table \in Tables
  PROVE  /\ DrivesAs(Pack(PhasesOf(file, t), skipInit(table)), file, table, t, FALSE)
         /\ Pack(PhasesOf(file, t), skipInit(table)) \in Seq(Nat)
<1> DEFINE all == PhasesOf(file, t)
           P == PhaseCount(file)
           skips == skipInit(table)
           words == Pack(all, skips)
           drive == Drive(file, table, t)
<1>1. P \in Nat \ {0}
  BY SidesOf
<1>2. all \in [1 .. P -> Level]
  BY PhasesSampled, Zenon
<1>3. PICK s : /\ Skips(all, P, skips, s)
               /\ Len(drive) = P - s
               /\ \A i \in 1 .. P - s : drive[i] = all[s + i]
  BY DriveSkips
<1>4. skips \in BOOLEAN
  BY DEF skipInit
<1> HIDE DEF all, P, skips, drive
<1>5. PackedAs(words, all, s, P - s)
  BY <1>1, <1>2, <1>3, <1>4, Packed, Zenon
<1> HIDE DEF words
<1>6. s \in Nat /\ P - s \in Nat
  BY <1>1, <1>3 DEF Skips
<1>7. ASSUME NEW i \in 1 .. P
      PROVE  Unpack(words, i) = IF i > Len(drive) THEN 0 ELSE drive[i]
  <2>1. i \in Nat \ {0}
    BY <1>1
  <2>2. Unpack(words, i) = IF i <= P - s THEN all[s + i] ELSE 0
    BY <1>5, <1>6, <2>1, UnpackedAs
  <2>3. CASE i > Len(drive)
    <3>1. ~ (i <= P - s)
      BY <1>3, <1>6, <2>1, <2>3
    <3> QED BY <2>2, <2>3, <3>1
  <2>4. CASE ~ (i > Len(drive))
    <3>1. i <= P - s /\ i \in 1 .. P - s
      BY <1>3, <1>6, <2>1, <2>4
    <3> QED BY <1>3, <2>2, <2>4, <3>1
  <2> QED BY <2>3, <2>4
<1>8. DrivesAs(words, file, table, t, FALSE)
  BY <1>7, Zenon DEF DrivesAs, P, drive
<1>9. words \in Seq(Nat)
  BY <1>5 DEF PackedAs
<1> QED BY <1>8, <1>9 DEF words, all, skips

LEMMA ZerosDrive ==
  ASSUME NEW file \in FileType, NEW table, NEW t, NEW words \in Seq(Nat)
  PROVE  DrivesAs([w \in DOMAIN words |-> 0], file, table, t, TRUE)
<1> DEFINE zeros == [w \in DOMAIN words |-> 0]
<1>1. Len(words) \in Nat /\ DOMAIN words = 1 .. Len(words)
  OBVIOUS
<1>2. Len(zeros) = Len(words) /\ \A w \in 1 .. Len(words) : zeros[w] = 0
  BY <1>1
<1> HIDE DEF zeros
<1>3. ASSUME NEW i \in 1 .. PhaseCount(file) PROVE Unpack(zeros, i) = 0
  <2>1. PICK d \in Nat : d = i - 1
    BY SidesOf
  <2> DEFINE q == d \div 8
             k == d % 8
  <2>2. Counts(d, q, k)
    <3>1. Splits(d, q, k)
      BY DEF Splits
    <3> HIDE DEF q, k
    <3> QED BY <3>1, Eights, Zenon
  <2>3. Unpack(zeros, i) = IF q >= Len(zeros) THEN 0 ELSE Digit(zeros[q + 1], k)
    BY <2>1 DEF Unpack, Digit
  <2> HIDE DEF q, k
  <2>4. q \in Nat /\ k \in 0 .. 7
    BY <2>2 DEF Counts
  <2>5. CASE q >= Len(zeros)
    BY <2>3, <2>5
  <2>6. CASE ~ (q >= Len(zeros))
    <3>1. q + 1 \in 1 .. Len(words)
      BY <1>1, <1>2, <2>4, <2>6
    <3>2. Digit(0, k) = 0
      <4>1. k \in 0 .. 8
        BY <2>4
      <4>2. IsPower(4 ^ k, k)
        BY <4>1, PowerIs, Zenon
      <4>3. 0 \in 0 .. 4 ^ k - 1
        BY <4>2 DEF IsPower
      <4> QED BY <2>4, <4>3, DigitEmpty, Zenon
    <3> QED BY <1>2, <2>3, <2>6, <3>1, <3>2, Zenon
  <2> QED BY <2>5, <2>6
<1> QED BY <1>3, Zenon DEF DrivesAs, zeros

\* A table of a file with phases.
LEMMA TableDrives ==
  ASSUME NEW file \in FileType, PhaseCount(file) > 0, NEW table \in Tables, NEW fullRefresh \in BOOLEAN, NEW entry,
         entry = readWaveformTable(table, Stored(file.chunks), file.large)
  PROVE  /\ entry.size = PhaseCount(file)
         /\ \A t \in Transitions :
              DrivesAs(Form(entry, fullRefresh)[t], file, table, t,
                       separatePartialTable(table) /\ ~fullRefresh /\ t[1] = t[2])
<1> DEFINE decoded == getTableAt(Stored(file.chunks))
           size == elementSize(file.large)
           P == PhaseCount(file)
           elementCount == decoded.size \div size
           full == [t \in Transitions |->
                      Pack([i \in 1 .. elementCount |-> decoded.out[(i - 1) * size + Offset(file.large, t[1], t[2]) + 1]],
                           skipInit(table))]
           partial == [t \in Transitions |-> IF Still(t) THEN [w \in DOMAIN full[t] |-> 0] ELSE full[t]]
<1>1. file.chunks \in Seq(Chunks)
  BY DEF FileType
<1>2. decoded.out = Expand(file.chunks) /\ decoded.size = Len(Expand(file.chunks)) /\ Expand(file.chunks) \in Seq(Level)
  BY <1>1, FileDecoded, Zenon
<1>3. size \in Nat \ {0} /\ P = Len(Expand(file.chunks)) \div size /\ P \in Nat
  BY SidesOf
<1>4. elementCount = P
  BY <1>2, <1>3, Zenon
<1>5. ~ (decoded.size < 1 \/ decoded.size # Len(decoded.out))
  <2> HIDE DEF decoded, size, P
  <2>1. PICK n \in Nat : n = Len(Expand(file.chunks))
    BY <1>2
  <2>2. n # 0
    <3>1. CASE n = 0
      <4>1. 0 \div size = 0
        BY <1>3
      <4>2. P = 0
        BY <1>3, <2>1, <3>1, <4>1, Zenon
      <4> QED BY <4>2 DEF P
    <3> QED BY <3>1
  <2> QED BY <1>2, <2>1, <2>2
<1>6. readWaveformTable(table, Stored(file.chunks), file.large) =
        [size |-> elementCount, full |-> full, partial |-> IF separatePartialTable(table) THEN partial ELSE full]
  BY <1>5, Zenon DEF readWaveformTable
<1>7. \A t \in Transitions : full[t] = Pack(PhasesOf(file, t), skipInit(table))
  <2> SUFFICES ASSUME NEW t \in Transitions PROVE full[t] = Pack(PhasesOf(file, t), skipInit(table))
    OBVIOUS
  <2>1. full[t] = Pack([i \in 1 .. P |-> Expand(file.chunks)[(i - 1) * size + Offset(file.large, t[1], t[2]) + 1]],
                       skipInit(table))
    BY <1>2, <1>4, Zenon
  <2>2. PhasesOf(file, t) = [i \in 1 .. P |-> Expand(file.chunks)[(i - 1) * size + Offset(file.large, t[1], t[2]) + 1]]
    BY PhasesSampled, Zenon
  <2> QED BY <2>1, <2>2, Zenon
<1>8. \A t \in Transitions : partial[t] = IF Still(t) THEN [w \in DOMAIN full[t] |-> 0] ELSE full[t]
  BY Zenon
<1> HIDE DEF full, partial, elementCount, P, decoded
<1>9. /\ entry.size = P /\ entry.full = full
      /\ entry.partial = IF separatePartialTable(table) THEN partial ELSE full
  BY <1>4, <1>6
<1>10. ASSUME NEW t \in Transitions
       PROVE  DrivesAs(Form(entry, fullRefresh)[t], file, table, t,
                       separatePartialTable(table) /\ ~fullRefresh /\ t[1] = t[2])
  <2> DEFINE still == separatePartialTable(table) /\ ~fullRefresh /\ t[1] = t[2]
  <2>1. DrivesAs(full[t], file, table, t, FALSE) /\ full[t] \in Seq(Nat)
    BY <1>7, PackDrives, Zenon
  <2>2. CASE still
    <3>1. Form(entry, fullRefresh)[t] = [w \in DOMAIN full[t] |-> 0]
      BY <1>8, <1>9, <2>2 DEF Form, Still
    <3>2. DrivesAs([w \in DOMAIN full[t] |-> 0], file, table, t, TRUE)
      BY <2>1, ZerosDrive, Zenon
    <3>3. still = TRUE
      BY <2>2
    <3> QED BY <3>1, <3>2, <3>3, Zenon
  <2>3. CASE ~still
    <3>1. Form(entry, fullRefresh)[t] = full[t]
      BY <1>8, <1>9, <2>3 DEF Form, Still
    <3>2. still = FALSE
      BY <2>3
    <3> QED BY <2>1, <3>1, <3>2, Zenon
  <2> QED BY <2>2, <2>3
<1> QED BY <1>9, <1>10 DEF P

\* The tables in use are those of the file, and an update has the words of one of them.
TablesInv ==
  /\ phase = "ready" =>
       /\ loaded \in FileType
       /\ \A temp \in Ranges \ loaded.missing, table \in Tables :
            globalTempTable[temp][table] = readWaveformTable(table, Stored(loaded.chunks), loaded.large)
  /\ message # NoMessage =>
       /\ phase = "ready" /\ message.table \in Tables /\ message.fullRefresh \in BOOLEAN
       /\ message.size = globalTempTable[currentTempWaveform][message.table].size
       /\ message.words = Form(globalTempTable[currentTempWaveform][message.table], message.fullRefresh)

LEMMA FilesTyped == Files \subseteq FileType
<1>1. BoundedSeq(Chunks, MaxChunks) \subseteq Seq(Chunks)
  <2>1. MaxChunks \in Nat
    BY WaveformsAssumption, Zenon
  <2>2. ASSUME NEW chunks \in BoundedSeq(Chunks, MaxChunks) PROVE chunks \in Seq(Chunks)
    <3>1. PICK m \in 0 .. MaxChunks : chunks \in [1 .. m -> Chunks]
      BY <2>2 DEF BoundedSeq, SeqOf
    <3>2. m \in Nat
      BY <2>1
    <3> QED BY <3>1, <3>2
  <2> QED BY <2>2
<1> QED BY <1>1 DEF Files, FileType

LEMMA TablesKept == TablesInv /\ [Next]_vars => TablesInv'
<1> SUFFICES ASSUME TablesInv, [Next]_vars PROVE TablesInv'
  OBVIOUS
<1>0. Ranges \subseteq 1 .. MaxTemps
  <2>1. Len(Bounds) \in 1 .. MaxTemps
    BY WaveformsAssumption, Zenon
  <2>2. MaxTemps \in Nat
    BY DEF MaxTemps
  <2> HIDE DEF MaxTemps
  <2> QED BY <2>1, <2>2 DEF Ranges
<1>1. ASSUME NEW epdSerial \in Serials, NEW lots, Find(epdSerial, lots) PROVE TablesInv'
  <2>1. message = NoMessage
    BY <1>1 DEF TablesInv, Find
  <2>2. phase' # "ready" /\ message' = NoMessage
    BY <1>1, <2>1 DEF Find
  <2> QED BY <2>2 DEF TablesInv
<1>2. ASSUME NEW file \in Files, Load(file) PROVE TablesInv'
  <2>1. message' = NoMessage /\ loaded' = file /\ file \in FileType
    BY <1>2, FilesTyped DEF TablesInv, Load
  <2>2. ASSUME NEW temp \in Ranges \ file.missing, NEW table \in Tables
        PROVE  globalTempTable'[temp][table] = readWaveformTable(table, Stored(file.chunks), file.large)
    <3>1. temp \in 1 .. MaxTemps /\ temp \in Ranges /\ ~ (temp \in file.missing)
      BY <1>0
    <3>2. globalTempTable'[temp] = [tb \in Tables |->
            readWaveformTable(tb, Stored(IF temp \in file.missing THEN <<>> ELSE file.chunks), file.large)]
      BY <1>2, <3>1, Zenon DEF Load
    <3> QED BY <3>1, <3>2, Zenon
  <2> QED BY <2>1, <2>2 DEF TablesInv
<1>3. ASSUME NEW degrees \in Temps, updateTemperature(degrees) PROVE TablesInv'
  <2>1. message' = NoMessage
    BY <1>3 DEF updateTemperature
  <2> QED BY <1>3, <2>1 DEF TablesInv, updateTemperature
<1>4. ASSUME NEW region \in Regions, NEW table \in Tables, NEW fullRefresh \in BOOLEAN,
             actualUpdate(region, table, fullRefresh)
      PROVE  TablesInv'
  <2> DEFINE entry == globalTempTable[currentTempWaveform][table]
  <2>1. message' = [rect |-> <<region, Mirrored(region)>>, table |-> table, fullRefresh |-> fullRefresh,
                    size |-> entry.size, words |-> Form(entry, fullRefresh)]
    BY <1>4, Zenon DEF actualUpdate
  <2>2. /\ message'.table = table /\ message'.fullRefresh = fullRefresh
        /\ message'.size = entry.size /\ message'.words = Form(entry, fullRefresh)
    <3> HIDE DEF entry
    <3> QED BY <2>1
  <2>3. phase = "ready" /\ phase' = phase /\ loaded' = loaded /\ globalTempTable' = globalTempTable
        /\ currentTempWaveform' = currentTempWaveform
    BY <1>4 DEF actualUpdate
  <2>4. phase' = "ready" =>
          /\ loaded' \in FileType
          /\ \A temp \in Ranges \ loaded'.missing, tb \in Tables :
               globalTempTable'[temp][tb] = readWaveformTable(tb, Stored(loaded'.chunks), loaded'.large)
    BY <2>3 DEF TablesInv
  <2>5. /\ phase' = "ready" /\ message'.table \in Tables /\ message'.fullRefresh \in BOOLEAN
        /\ message'.size = globalTempTable'[currentTempWaveform'][message'.table].size
        /\ message'.words = Form(globalTempTable'[currentTempWaveform'][message'.table], message'.fullRefresh)
    BY <2>2, <2>3, Zenon
  <2> QED BY <2>4, <2>5, Zenon DEF TablesInv
<1>5. ASSUME Taken PROVE TablesInv'
  <2>1. message' = NoMessage
    BY <1>5 DEF Taken
  <2> QED BY <1>5, <2>1 DEF TablesInv, Taken
<1>6. ASSUME UNCHANGED vars PROVE TablesInv'
  BY <1>6 DEF vars, TablesInv
<1> QED BY <1>1, <1>2, <1>3, <1>4, <1>5, <1>6 DEF Next

\* An update drives every pixel as the matrices of the file say, whatever the file holds: what
\* initWaveforms counted, expanded, sampled and packed (getTableAt, readWaveformTable) and
\* setWaveforms chose is what the generator unpacks.
THEOREM UpdatesDriveAsFile == Spec => []UpdateDrivesAsFile
<1>1. Init => TablesInv
  BY DEF Init, TablesInv
<1>2. TablesInv => UpdateDrivesAsFile
  <2> SUFFICES ASSUME TablesInv, message # NoMessage, currentTempWaveform \in Ranges \ loaded.missing,
                      PhaseCount(loaded) > 0
               PROVE  /\ message.size = PhaseCount(loaded)
                      /\ \A t \in Transitions :
                           LET drive == Drive(loaded, message.table, t)
                               still == separatePartialTable(message.table) /\ ~message.fullRefresh /\ t[1] = t[2]
                           IN \A i \in 1 .. message.size :
                                Unpack(message.words[t], i) = IF still \/ i > Len(drive) THEN 0 ELSE drive[i]
    BY Zenon DEF UpdateDrivesAsFile
  <2> DEFINE entry == globalTempTable[currentTempWaveform][message.table]
  <2>1. /\ loaded \in FileType /\ message.table \in Tables /\ message.fullRefresh \in BOOLEAN
        /\ entry = readWaveformTable(message.table, Stored(loaded.chunks), loaded.large)
        /\ message.size = entry.size /\ message.words = Form(entry, message.fullRefresh)
    BY Zenon DEF TablesInv
  <2> HIDE DEF entry
  <2>2. /\ entry.size = PhaseCount(loaded)
        /\ \A t \in Transitions :
             DrivesAs(Form(entry, message.fullRefresh)[t], loaded, message.table, t,
                      separatePartialTable(message.table) /\ ~message.fullRefresh /\ t[1] = t[2])
    BY <2>1, TableDrives, Zenon
  <2> QED BY <2>1, <2>2, Zenon DEF DrivesAs
<1> QED BY <1>1, <1>2, TablesKept, PTL DEF Spec
==============================================================================
