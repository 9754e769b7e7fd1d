------------------------------ MODULE UIProofs ------------------------------
(***************************************************************************)
(* Theorems about the user interface.  Part 1: the layout of UILayout,     *)
(* for trees of widgets of any shape, size and depth.  Part 2: rocket's    *)
(* lock screen and screenshot viewer (Screens), for any codes, positions   *)
(* and choices.                                                            *)
(***************************************************************************)
EXTENDS Screens, UILayout, SequenceTheorems, WellFoundedInduction, TLAPS

(***************************************************************************)
(* PART 1: LAYOUT                                                          *)
(***************************************************************************)

\* Induction over the numbers, for a set instead of an operator.
LEMMA InductionOverSet ==
  ASSUME NEW S, 0 \in S, \A n \in Nat : n \in S => n + 1 \in S
  PROVE  Nat \subseteq S
<1> DEFINE T == Nat \ S
<1> SUFFICES ASSUME T # {} PROVE FALSE
  OBVIOUS
<1>1. \A x \in Nat, y \in Nat : y < x => <<y, x>> \in OpToRel(<, Nat)
  BY DEF OpToRel
<1>2. PICK x \in T : \A y \in T : ~ (<<y, x>> \in OpToRel(<, Nat))
  <2>1. T \subseteq Nat
    OBVIOUS
  <2> HIDE DEF T
  <2> QED BY <2>1, NatLessThanWellFounded, WFMin
<1>3. x \in Nat /\ x # 0 /\ x \notin S
  OBVIOUS
<1>4. x - 1 \in Nat /\ x - 1 < x /\ x - 1 + 1 = x
  BY <1>3
<1>5. x - 1 \in S
  BY <1>1, <1>2, <1>3, <1>4
<1> QED BY <1>3, <1>4, <1>5

\* The same up to a number.
LEMMA Ascends ==
  ASSUME NEW m \in Nat, NEW S, 0 \in S, \A j \in 1 .. m : j - 1 \in S => j \in S
  PROVE  0 .. m \subseteq S
<1> DEFINE T == {k \in Nat : k <= m => k \in S}
<1>1. 0 \in T
  OBVIOUS
<1>2. ASSUME NEW k \in Nat, k \in T PROVE k + 1 \in T
  <2> SUFFICES ASSUME k + 1 <= m PROVE k + 1 \in S
    OBVIOUS
  <2>1. PICK j \in 1 .. m : j = k + 1
    OBVIOUS
  <2>2. j - 1 = k
    BY <2>1
  <2> QED BY <1>2, <2>1, <2>2
<1>3. Nat \subseteq T
  <2> HIDE DEF T
  <2> QED BY <1>1, <1>2, InductionOverSet
<1> QED BY <1>3


\* A function on an initial segment of the numbers is defined by its first value and a step.
Recurs(r, n, D, base, Step) ==
  /\ r \in [0 .. n -> D]
  /\ r[0] = base
  /\ \A i \in 1 .. n : r[i] = Step[<<r[i - 1], i>>]

\* There is a function for every first value and step.
LEMMA Recursion ==
  ASSUME NEW n \in Nat, NEW D, NEW base \in D, NEW Step \in [D \X (1 .. n) -> D]
  PROVE  \E r : Recurs(r, n, D, base, Step)
<1> USE DEF Recurs
<1> DEFINE Defines(r, m) == Recurs(r, m, D, base, Step)
           S == {m \in Nat : m <= n => \E r : Defines(r, m)}
<1>1. 0 \in S
  <2>1. Defines([i \in 0 .. 0 |-> base], 0)
    OBVIOUS
  <2> QED BY <2>1
<1>2. ASSUME NEW m \in Nat, m \in S PROVE m + 1 \in S
  <2> SUFFICES ASSUME m + 1 <= n PROVE \E r : Defines(r, m + 1)
    OBVIOUS
  <2>1. PICK r : Defines(r, m)
    BY <1>2
  <2> DEFINE s == [i \in 0 .. m + 1 |-> IF i = m + 1 THEN Step[<<r[m], m + 1>>] ELSE r[i]]
  <2>2. r \in [0 .. m -> D] /\ r[m] \in D /\ m + 1 \in 1 .. n
    BY <2>1
  <2>3. Step[<<r[m], m + 1>>] \in D
    BY <2>2
  <2>4. s \in [0 .. m + 1 -> D]
    <3>1. ASSUME NEW i \in 0 .. m + 1 PROVE (IF i = m + 1 THEN Step[<<r[m], m + 1>>] ELSE r[i]) \in D
      <4>1. i # m + 1 => i \in 0 .. m
        OBVIOUS
      <4> QED BY <2>2, <2>3, <4>1
    <3> QED BY <3>1
  <2>5. s[0] = base
    BY <2>1
  <2>6. ASSUME NEW i \in 1 .. m + 1 PROVE s[i] = Step[<<s[i - 1], i>>]
    <3>1. CASE i = m + 1
      <4>1. i - 1 = m /\ m # m + 1 /\ m \in 0 .. m + 1
        BY <3>1
      <4> QED BY <3>1, <4>1
    <3>2. CASE i # m + 1
      <4>1. i \in 1 .. m /\ i - 1 \in 0 .. m + 1 /\ i - 1 # m + 1
        BY <3>2
      <4> QED BY <2>1, <3>2, <4>1
    <3> QED BY <3>1, <3>2
  <2>7. Defines(s, m + 1)
    BY <2>4, <2>5, <2>6
  <2> HIDE DEF Defines, s
  <2> QED BY <2>7
<1>3. n \in S
  <2> HIDE DEF S
  <2> QED BY <1>1, <1>2, InductionOverSet
<1> QED BY <1>3

------------------------------------------------------------------------------
(* Sums and largest elements                                                  *)

LEMMA NumbersSeq ==
  ASSUME NEW m \in Nat, NEW seq \in [1 .. m -> Int]
  PROVE  seq \in Seq(Int) /\ Len(seq) = m /\ DOMAIN seq = 1 .. m
<1>1. seq \in Seq(Int)
  BY SeqDef
<1> QED BY <1>1, LenProperties

\* The sums are what their definition says, step by step.
LEMMA SumUpToDef ==
  ASSUME NEW m \in Nat, NEW seq \in [1 .. m -> Int]
  PROVE  /\ SumUpTo(seq) \in [0 .. m -> Int] /\ SumUpTo(seq)[0] = 0
         /\ \A i \in 1 .. m : SumUpTo(seq)[i] = SumUpTo(seq)[i - 1] + seq[i]
         /\ Total(seq) = SumUpTo(seq)[m]
<1> DEFINE Step == [x \in Int \X (1 .. m) |-> x[1] + seq[x[2]]]
           Defines(g) == g = [i \in 0 .. m |-> IF i = 0 THEN 0 ELSE g[i - 1] + seq[i]]
<1>0. Len(seq) = m
  BY NumbersSeq
<1>1. Step \in [Int \X (1 .. m) -> Int] /\ \A s \in Int, i \in 1 .. m : Step[<<s, i>>] = s + seq[i]
  OBVIOUS
<1> HIDE DEF Step
<1>2. PICK r : Recurs(r, m, Int, 0, Step)
  <2> DEFINE D == Int
  <2>1. 0 \in D /\ Step \in [D \X (1 .. m) -> D]
    BY <1>1
  <2> HIDE DEF D
  <2>2. \E r : Recurs(r, m, D, 0, Step)
    BY <2>1, Recursion
  <2> QED BY <2>2 DEF D
<1>3. \A i \in 1 .. m : i - 1 \in 0 .. m
  OBVIOUS
<1>4. \A i \in 0 .. m : i = 0 \/ i \in 1 .. m
  OBVIOUS
<1>5. Defines(r)
  BY <1>1, <1>2, <1>3, <1>4 DEF Recurs
<1>6. SumUpTo(seq) = CHOOSE g : Defines(g)
  BY <1>0 DEF SumUpTo
<1> DEFINE g == SumUpTo(seq)
<1>7. Defines(g)
  <2> HIDE DEF Defines
  <2> QED BY <1>5, <1>6
<1>8. g[0] = 0 /\ \A i \in 1 .. m : g[i] = g[i - 1] + seq[i]
  <2> HIDE DEF g
  <2> QED BY <1>7
<1>9. 0 .. m \subseteq {i \in 0 .. m : g[i] \in Int}
  <2> HIDE DEF g, Defines
  <2> DEFINE T == {i \in 0 .. m : g[i] \in Int}
  <2>1. 0 \in T
    BY <1>8
  <2>2. \A j \in 1 .. m : j - 1 \in T => j \in T
    BY <1>8
  <2>3. 0 .. m \subseteq T
    <3> HIDE DEF T
    <3> QED BY <2>1, <2>2, Ascends
  <2> QED BY <2>3
<1>10. g \in [0 .. m -> Int]
  <2> HIDE DEF g
  <2> QED BY <1>7, <1>9
<1> HIDE DEF g
<1> QED BY <1>0, <1>8, <1>10 DEF g, Total

\* So are the largest numbers.
LEMMA LargestUpToDef ==
  ASSUME NEW m \in Nat, NEW seq \in [1 .. m -> Int]
  PROVE  /\ LargestUpTo(seq) \in [0 .. m -> Int] /\ LargestUpTo(seq)[0] = 0
         /\ \A i \in 1 .. m : LargestUpTo(seq)[i] = Larger(LargestUpTo(seq)[i - 1], seq[i])
         /\ Largest(seq) = LargestUpTo(seq)[m]
<1> DEFINE Step == [x \in Int \X (1 .. m) |-> Larger(x[1], seq[x[2]])]
           Defines(g) == g = [i \in 0 .. m |-> IF i = 0 THEN 0 ELSE Larger(g[i - 1], seq[i])]
<1>0. Len(seq) = m
  BY NumbersSeq
<1>1. Step \in [Int \X (1 .. m) -> Int] /\ \A s \in Int, i \in 1 .. m : Step[<<s, i>>] = Larger(s, seq[i])
  BY DEF Larger
<1> HIDE DEF Step
<1>2. PICK r : Recurs(r, m, Int, 0, Step)
  <2> DEFINE D == Int
  <2>1. 0 \in D /\ Step \in [D \X (1 .. m) -> D]
    BY <1>1
  <2> HIDE DEF D
  <2>2. \E r : Recurs(r, m, D, 0, Step)
    BY <2>1, Recursion
  <2> QED BY <2>2 DEF D
<1>3. \A i \in 1 .. m : i - 1 \in 0 .. m
  OBVIOUS
<1>4. \A i \in 0 .. m : i = 0 \/ i \in 1 .. m
  OBVIOUS
<1>5. Defines(r)
  BY <1>1, <1>2, <1>3, <1>4 DEF Recurs
<1>6. LargestUpTo(seq) = CHOOSE g : Defines(g)
  BY <1>0 DEF LargestUpTo
<1> DEFINE g == LargestUpTo(seq)
<1>7. Defines(g)
  <2> HIDE DEF Defines
  <2> QED BY <1>5, <1>6
<1>8. g[0] = 0 /\ \A i \in 1 .. m : g[i] = Larger(g[i - 1], seq[i])
  <2> HIDE DEF g
  <2> QED BY <1>7
<1>9. 0 .. m \subseteq {i \in 0 .. m : g[i] \in Int}
  <2> HIDE DEF g, Defines
  <2> DEFINE T == {i \in 0 .. m : g[i] \in Int}
  <2>1. 0 \in T
    BY <1>8
  <2>2. \A j \in 1 .. m : j - 1 \in T => j \in T
    BY <1>8 DEF Larger
  <2>3. 0 .. m \subseteq T
    <3> HIDE DEF T
    <3> QED BY <2>1, <2>2, Ascends
  <2> QED BY <2>3
<1>10. g \in [0 .. m -> Int]
  <2> HIDE DEF g
  <2> QED BY <1>7, <1>9
<1> HIDE DEF g
<1> QED BY <1>0, <1>8, <1>10 DEF g, Largest

\* What comes after the first i is not negative, and lies behind them.
LEMMA SumIs ==
  ASSUME NEW m \in Nat, NEW seq \in [1 .. m -> Nat]
  PROVE  /\ SumUpTo(seq) \in [0 .. m -> Nat] /\ SumUpTo(seq)[0] = 0 /\ Total(seq) = SumUpTo(seq)[m]
         /\ \A i \in 1 .. m : SumUpTo(seq)[i] = SumUpTo(seq)[i - 1] + seq[i]
         /\ \A i \in 0 .. m : \A j \in i .. m : SumUpTo(seq)[i] <= SumUpTo(seq)[j]
<1> DEFINE g == SumUpTo(seq)
<1>1. /\ g \in [0 .. m -> Int] /\ g[0] = 0 /\ Total(seq) = g[m]
      /\ \A i \in 1 .. m : g[i] = g[i - 1] + seq[i]
  <2>1. seq \in [1 .. m -> Int]
    OBVIOUS
  <2> QED BY <2>1, SumUpToDef
<1> HIDE DEF g
<1>2. ASSUME NEW i \in 0 .. m PROVE \A j \in i .. m : g[i] <= g[j]
  <2> DEFINE T == {j \in 0 .. m : i <= j => g[i] <= g[j]}
  <2>1. 0 \in T
    BY <1>1
  <2>2. ASSUME NEW j \in 1 .. m, j - 1 \in T PROVE j \in T
    <3>1. g[j] = g[j - 1] + seq[j] /\ seq[j] \in Nat /\ g[j - 1] \in Int /\ g[i] \in Int
      BY <1>1
    <3>2. CASE i = j
      BY <3>1, <3>2, <1>1
    <3>3. CASE i # j
      BY <2>2, <3>1, <3>3
    <3> QED BY <3>2, <3>3
  <2>3. 0 .. m \subseteq T
    <3> HIDE DEF T
    <3> QED BY <2>1, <2>2, Ascends
  <2> QED BY <2>3
<1>3. \A j \in 0 .. m : g[0] <= g[j]
  BY <1>2
<1>4. g \in [0 .. m -> Nat]
  BY <1>1, <1>3
<1> QED BY <1>1, <1>2, <1>4 DEF g

\* The largest number of a sequence is an upper bound, and the least.
LEMMA LargestIs ==
  ASSUME NEW m \in Nat, NEW seq \in [1 .. m -> Nat]
  PROVE  /\ Largest(seq) \in Nat
         /\ \A i \in 1 .. m : seq[i] <= Largest(seq)
         /\ \A n \in Nat : (\A i \in 1 .. m : seq[i] <= n) => Largest(seq) <= n
<1> DEFINE g == LargestUpTo(seq)
<1>1. /\ g \in [0 .. m -> Int] /\ g[0] = 0 /\ Largest(seq) = g[m]
      /\ \A i \in 1 .. m : g[i] = Larger(g[i - 1], seq[i])
  <2>1. seq \in [1 .. m -> Int]
    OBVIOUS
  <2> QED BY <2>1, LargestUpToDef
<1> HIDE DEF g
<1> DEFINE Over(j) == g[j] >= 0 /\ \A i \in 1 .. j : seq[i] <= g[j]
           T == {j \in 0 .. m : Over(j)}
<1>2. 0 \in T
  BY <1>1
<1>3. ASSUME NEW j \in 1 .. m, j - 1 \in T PROVE j \in T
  <2>1. g[j] = Larger(g[j - 1], seq[j]) /\ g[j - 1] \in Int /\ seq[j] \in Nat /\ g[j] \in Int /\ g[j - 1] >= 0
    BY <1>1, <1>3
  <2>2. g[j] >= g[j - 1] /\ g[j] >= seq[j] /\ g[j] >= 0
    BY <2>1 DEF Larger
  <2>3. ASSUME NEW i \in 1 .. j PROVE seq[i] <= g[j]
    <3>1. CASE i = j
      BY <2>2, <3>1
    <3>2. CASE i # j
      <4>1. i \in 1 .. j - 1 /\ seq[i] \in Nat
        BY <3>2
      <4> QED BY <1>3, <2>1, <2>2, <4>1
    <3> QED BY <3>1, <3>2
  <2> QED BY <2>2, <2>3
<1>4. 0 .. m \subseteq T
  <2> HIDE DEF T
  <2> QED BY <1>2, <1>3, Ascends
<1>5. g[m] \in Nat /\ \A i \in 1 .. m : seq[i] <= g[m]
  BY <1>1, <1>4
<1>6. ASSUME NEW n \in Nat, \A i \in 1 .. m : seq[i] <= n PROVE g[m] <= n
  <2> DEFINE U == {j \in 0 .. m : g[j] <= n}
  <2>1. 0 \in U
    BY <1>1
  <2>2. ASSUME NEW j \in 1 .. m, j - 1 \in U PROVE j \in U
    <3>1. g[j] = Larger(g[j - 1], seq[j]) /\ g[j - 1] <= n /\ seq[j] <= n
      BY <1>1, <1>6, <2>2
    <3> QED BY <3>1 DEF Larger
  <2>3. 0 .. m \subseteq U
    <3> HIDE DEF U
    <3> QED BY <2>1, <2>2, Ascends
  <2> QED BY <2>3
<1> QED BY <1>1, <1>5, <1>6


------------------------------------------------------------------------------
(* Sound constraints, and the sizes that keep them                            *)

Dims == [x : Int, y : Int]
Rects == [tl : Dims, br : Dims]

\* No limit is not a size: what has no upper limit has no lower one either.
ConsOK(c) ==
  /\ c \in [min : Dims, max : Dims]
  /\ \A a \in Axes : /\ 0 <= c.min[a] /\ c.min[a] <= c.max[a] /\ c.max[a] <= Unbound
                     /\ c.max[a] = Unbound => c.min[a] = 0
SizeOK(c, size) == size \in Dims /\ Fits(c, size) /\ \A a \in Axes : size[a] < Unbound
Within(inner, outer) == \A a \in Axes : outer.tl[a] <= inner.tl[a] /\ inner.br[a] <= outer.br[a]
\* A rectangle of this size in that rectangle.
Put(inner, size, outer) == inner \in Rects /\ SizeOf(inner) = size /\ Within(inner, outer)

LEMMA UnboundIs == Unbound \in Nat /\ Unbound > 0
BY DEF Unbound

LEMMA AxisIs ==
  /\ \A d \in Dims : \A a \in Axes : d[a] \in Int
  /\ \A d \in Dims, e \in Dims : (\A a \in Axes : d[a] = e[a]) => d = e
  /\ \A a \in Axes : Cross(a) \in Axes /\ Cross(a) # a /\ \A b \in Axes : b = a \/ b = Cross(a)
BY DEF Dims, Axes, Cross

\* What constraints may be: 0 <= min <= max, and none from below without a limit.
LEMMA ConsIs ==
  ASSUME NEW c, ConsOK(c), NEW a \in Axes
  PROVE  /\ c.min \in Dims /\ c.max \in Dims /\ c.min[a] \in Int /\ c.max[a] \in Int
         /\ 0 <= c.min[a] /\ c.min[a] <= c.max[a] /\ c.max[a] <= Unbound
         /\ c.max[a] = Unbound => c.min[a] = 0
BY AxisIs DEF ConsOK

\* A size that keeps the constraints it was given.
LEMMA SizeIs ==
  ASSUME NEW c, NEW size, SizeOK(c, size), NEW a \in Axes
  PROVE  size \in Dims /\ size[a] \in Int /\ c.min[a] <= size[a] /\ size[a] <= c.max[a] /\ size[a] < Unbound
BY AxisIs DEF SizeOK, Fits

LEMMA HalfIs ==
  ASSUME NEW n \in Int
  PROVE  Half(n) \in Int /\ (n >= 0 => 0 <= Half(n) /\ Half(n) <= n)
BY DEF Half

LEMMA SizeOfAt ==
  ASSUME NEW rect \in Rects, NEW a \in Axes
  PROVE  /\ rect.tl \in Dims /\ rect.tl[a] \in Int /\ rect.br[a] \in Int /\ SizeOf(rect) \in Dims
         /\ SizeOf(rect)[a] = rect.br[a] - rect.tl[a] + 1
BY DEF Rects, Dims, Axes, SizeOf, Both, Dim

\* Rectangles of a size.
LEMMA RectIs ==
  ASSUME NEW tl \in Dims, NEW size \in Dims
  PROVE  /\ Rect(tl, size) \in Rects /\ SizeOf(Rect(tl, size)) = size /\ Rect(tl, size).tl = tl
         /\ \A a \in Axes : Rect(tl, size).br[a] = tl[a] + size[a] - 1
BY DEF Rects, Dims, Axes, Rect, SizeOf, Both, Dim

\* A child is in its parent when its offset leaves it the room.
LEMMA PlacedIs ==
  ASSUME NEW rect \in Rects, NEW size \in Dims, NEW offset,
         \A a \in Axes : offset[a] \in Int /\ 0 <= offset[a] /\ offset[a] + size[a] <= SizeOf(rect)[a]
  PROVE  Put(Placed(rect, size, offset), size, rect)
<1> DEFINE tl == Both(LAMBDA a : rect.tl[a] + offset[a])
<1>1. tl \in Dims /\ \A a \in Axes : tl[a] = rect.tl[a] + offset[a]
  BY DEF Rects, Dims, Axes, Both, Dim
<1>2. Placed(rect, size, offset) = Rect(tl, size)
  BY DEF Placed
<1> HIDE DEF tl
<1>3. ASSUME NEW a \in Axes
      PROVE  rect.tl[a] <= tl[a] /\ tl[a] + size[a] - 1 <= rect.br[a]
  <2>1. /\ rect.tl[a] \in Int /\ rect.br[a] \in Int /\ SizeOf(rect)[a] = rect.br[a] - rect.tl[a] + 1
        /\ size[a] \in Int
    BY SizeOfAt, AxisIs
  <2> QED BY <1>1, <2>1
<1> QED BY <1>1, <1>2, <1>3, RectIs DEF Put, Within

------------------------------------------------------------------------------
(* Widgets with one child: what they ask of it, and the size they have by it  *)

LEMMA LooseOK ==
  ASSUME NEW c, ConsOK(c)
  PROVE  ConsOK(Loose(c)) /\ Loose(c).max = c.max
BY DEF ConsOK, Loose, Limits, Dims, Axes, Dim

\* A child that is centered or put into a corner fits into the size its parent takes.
LEMMA CenterOK ==
  ASSUME NEW c, ConsOK(c), NEW size, SizeOK(Loose(c), size)
  PROVE  /\ CenterSize(c, size) = CornerSize(c, size) /\ SizeOK(c, CenterSize(c, size))
         /\ \A a \in Axes : size[a] <= CenterSize(c, size)[a] /\ 0 <= size[a]
BY UnboundIs DEF ConsOK, Loose, Limits, Dims, Axes, Dim, SizeOK, Fits, CenterSize, CornerSize, Both, Bounded

\* The sizes Sized forces are within its own constraints.
LEMMA SizedOK ==
  ASSUME NEW c, ConsOK(c), NEW dim \in Dims, \A a \in Axes : dim[a] < Unbound
  PROVE  /\ ConsOK(SizedCons(c, dim))
         /\ \A size : SizeOK(SizedCons(c, dim), size) => SizeOK(c, size)
<1> DEFINE s == SizedCons(c, dim)
<1>1. ASSUME NEW a \in Axes
      PROVE  /\ s.min[a] \in Int /\ s.max[a] \in Int /\ 0 <= s.min[a] /\ s.min[a] <= s.max[a] /\ s.max[a] <= Unbound
             /\ s.max[a] = Unbound => s.min[a] = 0
             /\ c.min[a] <= s.min[a] /\ s.max[a] <= c.max[a]
  <2>1. /\ s.min[a] = IF dim[a] >= 0 THEN Clamped(dim[a], c.min[a], c.max[a]) ELSE c.min[a]
        /\ s.max[a] = IF dim[a] >= 0 THEN Clamped(dim[a], c.min[a], c.max[a]) ELSE c.max[a]
    BY DEF SizedCons, Limits, Both, Dim, Axes
  <2>2. dim[a] \in Int
    BY AxisIs
  <2> HIDE DEF s
  <2> QED BY <2>1, <2>2, ConsIs, UnboundIs DEF Clamped
<1>2. s \in [min : Dims, max : Dims]
  <2>1. /\ s = [min |-> s.min, max |-> s.max] /\ s.min = [x |-> s.min.x, y |-> s.min.y]
        /\ s.max = [x |-> s.max.x, y |-> s.max.y]
    BY DEF SizedCons, Limits, Both, Dim
  <2>2. s.min["x"] \in Int /\ s.min["y"] \in Int /\ s.max["x"] \in Int /\ s.max["y"] \in Int
    BY <1>1 DEF Axes
  <2> HIDE DEF s
  <2> QED BY <2>1, <2>2 DEF Dims
<1> HIDE DEF s
<1>3. ConsOK(s)
  BY <1>1, <1>2 DEF ConsOK
<1>4. ASSUME NEW size, SizeOK(s, size) PROVE SizeOK(c, size)
  <2>1. ASSUME NEW a \in Axes PROVE c.min[a] <= size[a] /\ size[a] <= c.max[a]
    BY <1>1, <1>4, SizeIs, ConsIs
  <2> QED BY <1>4, <2>1 DEF SizeOK, Fits
<1> QED BY <1>3, <1>4 DEF s

\* A child fits behind its position.
LEMMA PositionedOK ==
  ASSUME NEW c, ConsOK(c), NEW pos \in Dims,
         \A a \in Axes : pos[a] >= 0 /\ pos[a] <= IF Bounded(c, a) THEN c.max[a] ELSE 0
  PROVE  /\ ConsOK(PositionedCons(c, pos))
         /\ \A size : SizeOK(PositionedCons(c, pos), size) =>
              /\ SizeOK(c, PositionedSize(c, size))
              /\ \A a \in Axes : pos[a] + size[a] <= PositionedSize(c, size)[a]
<1> DEFINE p == PositionedCons(c, pos)
<1>1. ASSUME NEW a \in Axes
      PROVE  /\ p.min[a] = 0 /\ p.max[a] = c.max[a] - pos[a] /\ pos[a] \in Int
             /\ 0 <= p.max[a] /\ p.max[a] <= Unbound
             /\ c.max[a] = Unbound => pos[a] = 0
  <2>1. p.min[a] = 0 /\ p.max[a] = c.max[a] - pos[a]
    BY DEF PositionedCons, Limits, Both, Dim, Axes
  <2> HIDE DEF p
  <2>2. pos[a] \in Int
    BY AxisIs
  <2> QED BY <2>1, <2>2, ConsIs, UnboundIs DEF Bounded
<1>2. p \in [min : Dims, max : Dims]
  BY DEF PositionedCons, Limits, Both, Dim, Dims, ConsOK
<1> HIDE DEF p
<1>3. ConsOK(p)
  BY <1>1, <1>2 DEF ConsOK
<1>4. ASSUME NEW size, SizeOK(p, size)
      PROVE  /\ SizeOK(c, PositionedSize(c, size))
             /\ \A a \in Axes : pos[a] + size[a] <= PositionedSize(c, size)[a]
  <2> DEFINE s == PositionedSize(c, size)
  <2>1. s \in Dims /\ \A a \in Axes : s[a] = IF Bounded(c, a) THEN c.max[a] ELSE size[a]
    BY <1>4 DEF PositionedSize, Both, Dim, Dims, Axes, ConsOK, SizeOK
  <2> HIDE DEF s
  <2>2. ASSUME NEW a \in Axes
        PROVE  c.min[a] <= s[a] /\ s[a] <= c.max[a] /\ s[a] < Unbound /\ pos[a] + size[a] <= s[a]
    BY <1>1, <1>4, <2>1, SizeIs, ConsIs, UnboundIs DEF Bounded
  <2> QED BY <2>1, <2>2 DEF SizeOK, Fits, s
<1> QED BY <1>3, <1>4 DEF p

\* A size and its inset on both sides keep the constraints when the inset does.
LEMMA BorderedOK ==
  ASSUME NEW c, ConsOK(c), NEW inset \in Nat
  PROVE  /\ ConsOK(Inset(c, inset))
         /\ \A size : /\ SizeOK(Inset(c, inset), size)
                      /\ \A a \in Axes : IF Bounded(c, a) THEN 2 * inset <= c.max[a]
                                         ELSE size[a] + 2 * inset < Unbound
                      => /\ SizeOK(c, Expand(c, size, inset))
                         /\ \A a \in Axes : Expand(c, size, inset)[a] = size[a] + 2 * inset
<1> DEFINE p == Inset(c, inset)
<1>1. ASSUME NEW a \in Axes
      PROVE  /\ p.min[a] \in Int /\ p.max[a] \in Int /\ 0 <= p.min[a] /\ p.min[a] <= p.max[a] /\ p.max[a] <= Unbound
             /\ p.max[a] = Unbound => p.min[a] = 0
             /\ c.min[a] - 2 * inset <= p.min[a]
             /\ Bounded(c, a) /\ 2 * inset <= c.max[a] => p.max[a] = c.max[a] - 2 * inset
  <2>1. /\ p.min[a] = Larger(0, c.min[a] - 2 * inset)
        /\ p.max[a] = IF Bounded(c, a) THEN Larger(p.min[a], c.max[a] - 2 * inset) ELSE Unbound
    BY DEF Inset, Limits, Both, Dim, Axes
  <2> HIDE DEF p
  <2> QED BY <2>1, ConsIs, UnboundIs DEF Bounded, Larger
<1>2. p \in [min : Dims, max : Dims]
  <2>1. /\ p = [min |-> p.min, max |-> p.max] /\ p.min = [x |-> p.min.x, y |-> p.min.y]
        /\ p.max = [x |-> p.max.x, y |-> p.max.y]
    BY DEF Inset, Limits, Both, Dim
  <2>2. p.min["x"] \in Int /\ p.min["y"] \in Int /\ p.max["x"] \in Int /\ p.max["y"] \in Int
    BY <1>1 DEF Axes
  <2> HIDE DEF p
  <2> QED BY <2>1, <2>2 DEF Dims
<1> HIDE DEF p
<1>3. ConsOK(p)
  BY <1>1, <1>2 DEF ConsOK
<1>4. ASSUME NEW size, SizeOK(p, size),
             \A a \in Axes : IF Bounded(c, a) THEN 2 * inset <= c.max[a] ELSE size[a] + 2 * inset < Unbound
      PROVE  /\ SizeOK(c, Expand(c, size, inset))
             /\ \A a \in Axes : Expand(c, size, inset)[a] = size[a] + 2 * inset
  <2> DEFINE s == Expand(c, size, inset)
  <2>1. \A a \in Axes : s[a] = Smaller(size[a] + 2 * inset, c.max[a])
    BY DEF Expand, Both, Dim, Axes
  <2>2. s = [x |-> s["x"], y |-> s["y"]]
    BY DEF Expand, Both, Dim
  <2> HIDE DEF s
  <2>3. ASSUME NEW a \in Axes
        PROVE  /\ s[a] \in Int /\ c.min[a] <= s[a] /\ s[a] <= c.max[a] /\ s[a] < Unbound
               /\ s[a] = size[a] + 2 * inset
    <3>1. /\ size[a] \in Int /\ p.min[a] <= size[a] /\ size[a] <= p.max[a] /\ size[a] < Unbound
          /\ c.min[a] \in Int /\ c.max[a] \in Int /\ 0 <= c.min[a] /\ c.max[a] <= Unbound
      BY <1>4, SizeIs, ConsIs
    <3>2. CASE Bounded(c, a)
      <4>1. p.max[a] = c.max[a] - 2 * inset
        BY <1>1, <1>4, <3>2
      <4> QED BY <1>1, <2>1, <3>1, <3>2, <4>1, UnboundIs DEF Bounded, Smaller
    <3>3. CASE ~Bounded(c, a)
      <4>1. c.max[a] = Unbound /\ size[a] + 2 * inset < Unbound
        BY <1>4, <3>3 DEF Bounded
      <4> QED BY <1>1, <2>1, <3>1, <4>1, UnboundIs DEF Smaller
    <3> QED BY <3>2, <3>3
  <2>4. s \in Dims
    BY <2>2, <2>3 DEF Dims, Axes
  <2> QED BY <2>3, <2>4 DEF SizeOK, Fits, s
<1> QED BY <1>3, <1>4 DEF p


------------------------------------------------------------------------------
(* Stack and Flex                                                             *)

LEMMA AlongIs ==
  ASSUME NEW n \in Nat, NEW sizes \in [1 .. n -> Dims], NEW a \in Axes, \A i \in 1 .. n : 0 <= sizes[i][a]
  PROVE  Along(sizes, a) \in [1 .. n -> Nat] /\ \A i \in 1 .. n : Along(sizes, a)[i] = sizes[i][a]
BY AxisIs DEF Along

\* The largest child keeps every limit its siblings keep.
LEMMA LargestAlong ==
  ASSUME NEW n \in Nat, NEW sizes \in [1 .. n -> Dims], NEW a \in Axes, NEW max \in Nat,
         \A i \in 1 .. n : 0 <= sizes[i][a] /\ sizes[i][a] <= max /\ sizes[i][a] < Unbound
  PROVE  /\ Largest(Along(sizes, a)) \in Nat /\ Largest(Along(sizes, a)) <= max
         /\ Largest(Along(sizes, a)) < Unbound
         /\ \A i \in 1 .. n : sizes[i][a] <= Largest(Along(sizes, a))
<1> DEFINE seq == Along(sizes, a)
<1>1. seq \in [1 .. n -> Nat] /\ \A i \in 1 .. n : seq[i] = sizes[i][a]
  BY AlongIs
<1> HIDE DEF seq
<1>2. /\ Largest(seq) \in Nat /\ \A i \in 1 .. n : seq[i] <= Largest(seq)
      /\ \A m \in Nat : (\A i \in 1 .. n : seq[i] <= m) => Largest(seq) <= m
  BY <1>1, LargestIs
<1>3. Largest(seq) <= max
  BY <1>1, <1>2
<1>4. Unbound - 1 \in Nat
  BY DEF Unbound
<1>5. \A i \in 1 .. n : seq[i] <= Unbound - 1
  <2>1. ASSUME NEW i \in 1 .. n PROVE seq[i] <= Unbound - 1
    BY <1>1, UnboundIs
  <2> QED BY <2>1
<1>6. Largest(seq) <= Unbound - 1
  BY <1>2, <1>4, <1>5
<1>7. Largest(seq) < Unbound
  BY <1>2, <1>6, UnboundIs
<1> QED BY <1>1, <1>2, <1>3, <1>7 DEF seq

\* As large as what it holds, and not less than what is asked.
LEMMA HoldsOK ==
  ASSUME NEW c, ConsOK(c), NEW total, NEW size,
         \A a \in Axes : total[a] \in Nat /\ total[a] <= c.max[a] /\ total[a] < Unbound,
         size \in Dims, \A a \in Axes : size[a] = Larger(total[a], c.min[a])
  PROVE  SizeOK(c, size) /\ \A a \in Axes : total[a] <= size[a]
<1>1. ASSUME NEW a \in Axes
      PROVE  c.min[a] <= size[a] /\ size[a] <= c.max[a] /\ size[a] < Unbound /\ total[a] <= size[a]
  BY ConsIs, UnboundIs DEF Larger
<1> QED BY <1>1 DEF SizeOK, Fits

\* The size of a stack keeps what each of its children keeps.
LEMMA StackOK ==
  ASSUME NEW c, ConsOK(c), NEW n \in Nat, NEW sizes \in [1 .. n -> Dims],
         \A i \in 1 .. n : SizeOK(c, sizes[i])
  PROVE  /\ SizeOK(c, StackSize(c, sizes))
         /\ \A a \in Axes : \A i \in 1 .. n : sizes[i][a] <= StackSize(c, sizes)[a]
<1> DEFINE total == [a \in Axes |-> Largest(Along(sizes, a))]
           size == StackSize(c, sizes)
<1>1. ASSUME NEW a \in Axes
      PROVE  /\ total[a] \in Nat /\ total[a] <= c.max[a] /\ total[a] < Unbound
             /\ \A i \in 1 .. n : sizes[i][a] <= total[a]
  <2>1. c.max[a] \in Nat /\ \A i \in 1 .. n : 0 <= sizes[i][a] /\ sizes[i][a] <= c.max[a] /\ sizes[i][a] < Unbound
    <3>1. c.max[a] \in Nat /\ 0 <= c.min[a] /\ c.min[a] \in Int
      BY ConsIs
    <3>2. ASSUME NEW i \in 1 .. n PROVE 0 <= sizes[i][a] /\ sizes[i][a] <= c.max[a] /\ sizes[i][a] < Unbound
      BY <3>1, SizeIs
    <3> QED BY <3>1, <3>2
  <2> QED BY <2>1, LargestAlong
<1>2. size = [x |-> size["x"], y |-> size["y"]] /\ \A a \in Axes : size[a] = Larger(c.min[a], total[a])
  BY DEF StackSize, Both, Dim, Axes
<1> HIDE DEF total, size
<1>3. \A a \in Axes : size[a] = Larger(total[a], c.min[a]) /\ size[a] \in Int
  <2>1. ASSUME NEW a \in Axes PROVE size[a] = Larger(total[a], c.min[a]) /\ size[a] \in Int
    BY <1>1, <1>2, ConsIs DEF Larger
  <2> QED BY <2>1
<1>4. size \in Dims
  BY <1>2, <1>3 DEF Dims, Axes
<1>5. SizeOK(c, size) /\ \A a \in Axes : total[a] <= size[a]
  BY <1>1, <1>3, <1>4, HoldsOK
<1>6. ASSUME NEW a \in Axes, NEW i \in 1 .. n PROVE sizes[i][a] <= size[a]
  BY <1>1, <1>3, <1>5, AxisIs
<1> QED BY <1>5, <1>6 DEF size

LEMMA Distributes ==
  ASSUME NEW a \in Int, NEW b \in Int, NEW c \in Int
  PROVE  /\ a * (b + c) = a * b + a * c /\ (b + c) * a = b * a + c * a
         /\ a * b \in Int /\ a * c \in Int /\ b * a \in Int /\ c * a \in Int
OBVIOUS

LEMMA AddsUp ==
  ASSUME NEW p \in Int, NEW q \in Int, NEW r \in Int, NEW v \in Int, NEW w \in Int, NEW z \in Int,
         p <= r + w, q <= v + z
  PROVE  p + q <= (r + v) + (w + z)
OBVIOUS

LEMMA Divides ==
  ASSUME NEW a \in Nat, NEW b \in Nat, b # 0
  PROVE  a \div b \in Nat /\ b * (a \div b) <= a
OBVIOUS

\* A share that is rounded down is not more than the rest.
LEMMA SharesLess ==
  ASSUME NEW f \in Nat, NEW t \in Nat, NEW rest \in Nat, f <= t, t # 0
  PROVE  (f * rest) \div t \in Nat /\ t * ((f * rest) \div t) <= f * rest /\ (f * rest) \div t <= rest
<1>1. f * rest \in Nat
  OBVIOUS
<1> DEFINE share == (f * rest) \div t
<1>2. share \in Nat /\ t * share <= f * rest
  BY <1>1, Divides
<1> HIDE DEF share
<1>3. f * rest <= t * rest
  OBVIOUS
<1>4. share <= rest
  <2> SUFFICES ASSUME share >= rest + 1 PROVE FALSE
    BY <1>2
  <2>1. t * share >= t * (rest + 1)
    BY <1>2
  <2>2. t * (rest + 1) = t * rest + t
    OBVIOUS
  <2>3. t * share \in Nat /\ t * rest \in Nat
    BY <1>2
  <2> QED BY <1>1, <1>2, <1>3, <2>1, <2>2, <2>3
<1> QED BY <1>2, <1>4 DEF share

\* Children without a flex have sizes of their own; what is used is theirs, and there is room for it.
FlexFits(c, axis, flexes, sizes) ==
  /\ \A i \in DOMAIN sizes : flexes[i] = 0 => SizeOK(FlexCons(c, axis), sizes[i])
  /\ IF Bounded(c, axis) THEN Used(axis, flexes, sizes) <= c.max[axis]
     ELSE Used(axis, flexes, sizes) < Unbound /\ \A i \in DOMAIN flexes : flexes[i] = 0


\* A flex asks its fixed children soundly.
LEMMA FlexConsOK ==
  ASSUME NEW c, ConsOK(c), NEW axis \in Axes
  PROVE  /\ ConsOK(FlexCons(c, axis)) /\ FlexCons(c, axis).min[axis] = 0
         /\ FlexCons(c, axis).max[Cross(axis)] = c.max[Cross(axis)]
         /\ FlexCons(c, axis).min[Cross(axis)] = c.min[Cross(axis)]
BY UnboundIs DEF ConsOK, FlexCons, Limits, Dims, Axes, Cross

FixedSizes(axis, flexes, sizes) == [n \in DOMAIN sizes |-> IF flexes[n] = 0 THEN sizes[n][axis] ELSE 0]

\* What the fixed children of a flex take.
LEMMA UsedIs ==
  ASSUME NEW n \in Nat, NEW axis \in Axes, NEW flexes \in [1 .. n -> Nat], NEW sizes \in [1 .. n -> Dims],
         NEW c, ConsOK(c), FlexFits(c, axis, flexes, sizes)
  PROVE  /\ FixedSizes(axis, flexes, sizes) \in [1 .. n -> Nat]
         /\ Used(axis, flexes, sizes) = Total(FixedSizes(axis, flexes, sizes))
         /\ Used(axis, flexes, sizes) \in Nat
<1> DEFINE seq == FixedSizes(axis, flexes, sizes)
<1>1. DOMAIN sizes = 1 .. n
  OBVIOUS
<1>2. ASSUME NEW i \in 1 .. n, flexes[i] = 0 PROVE sizes[i][axis] \in Nat
  <2>1. SizeOK(FlexCons(c, axis), sizes[i])
    BY <1>1, <1>2 DEF FlexFits
  <2> QED BY <2>1, SizeIs, FlexConsOK
<1>3. seq \in [1 .. n -> Nat]
  <2>1. ASSUME NEW i \in 1 .. n PROVE (IF flexes[i] = 0 THEN sizes[i][axis] ELSE 0) \in Nat
    BY <1>2
  <2> QED BY <1>1, <2>1 DEF FixedSizes
<1>4. Used(axis, flexes, sizes) = Total(seq)
  BY DEF Used, FixedSizes
<1> HIDE DEF seq
<1>5. n \in 0 .. n
  OBVIOUS
<1>6. Total(seq) \in Nat
  <2>1. SumUpTo(seq) \in [0 .. n -> Nat] /\ Total(seq) = SumUpTo(seq)[n]
    BY <1>3, SumIs
  <2> QED BY <1>5, <2>1
<1> QED BY <1>3, <1>4, <1>6 DEF seq

\* What a child takes that shares what is left.
Share(c, axis, flexes, sizes, i) ==
  (flexes[i] * (c.max[axis] - Used(axis, flexes, sizes))) \div Total(flexes)

\* The share of an expanded child: no less than 0, no more than is left.
LEMMA ShareIs ==
  ASSUME NEW n \in Nat, NEW axis \in Axes, NEW flexes \in [1 .. n -> Nat], NEW sizes \in [1 .. n -> Dims],
         NEW c, ConsOK(c), FlexFits(c, axis, flexes, sizes), NEW i \in 1 .. n, flexes[i] # 0
  PROVE  /\ Total(flexes) \in Nat /\ Total(flexes) # 0 /\ Bounded(c, axis)
         /\ c.max[axis] - Used(axis, flexes, sizes) \in Nat
         /\ Share(c, axis, flexes, sizes, i) \in Nat
         /\ Share(c, axis, flexes, sizes, i) <= c.max[axis] - Used(axis, flexes, sizes)
         /\ Total(flexes) * Share(c, axis, flexes, sizes, i)
              <= flexes[i] * (c.max[axis] - Used(axis, flexes, sizes))
<1> DEFINE rest == c.max[axis] - Used(axis, flexes, sizes)
           t == Total(flexes)
           F == SumUpTo(flexes)
<1>1. Used(axis, flexes, sizes) \in Nat
  BY UsedIs
<1>2. c.max[axis] \in Int
  BY ConsIs
<1>3. DOMAIN flexes = 1 .. n
  OBVIOUS
<1>4. Bounded(c, axis) /\ Used(axis, flexes, sizes) <= c.max[axis]
  BY <1>3 DEF FlexFits
<1>5. rest \in Nat
  BY <1>1, <1>2, <1>4
<1>6. /\ F \in [0 .. n -> Nat] /\ t = F[n] /\ F[i] = F[i - 1] + flexes[i]
      /\ \A j \in 0 .. n : \A k \in j .. n : F[j] <= F[k]
  BY SumIs
<1> HIDE DEF F, t, rest
<1>7. F[i] <= F[n]
  <2>1. i \in 0 .. n /\ n \in i .. n
    OBVIOUS
  <2> QED BY <1>6, <2>1
<1>8. F[i - 1] \in Nat /\ F[i] \in Nat /\ F[n] \in Nat
  <2>1. i - 1 \in 0 .. n /\ i \in 0 .. n /\ n \in 0 .. n
    OBVIOUS
  <2> QED BY <1>6, <2>1
<1>9. flexes[i] \in Nat
  OBVIOUS
<1>10. flexes[i] <= t /\ t \in Nat /\ t # 0
  BY <1>6, <1>7, <1>8, <1>9
<1>11. /\ (flexes[i] * rest) \div t \in Nat /\ t * ((flexes[i] * rest) \div t) <= flexes[i] * rest
       /\ (flexes[i] * rest) \div t <= rest
  BY <1>5, <1>9, <1>10, SharesLess
<1>12. Share(c, axis, flexes, sizes, i) = (flexes[i] * rest) \div t
  BY DEF Share, rest, t
<1> QED BY <1>4, <1>5, <1>10, <1>11, <1>12 DEF rest, t

\* A flex asks its expanded children soundly.
LEMMA ExpandedOK ==
  ASSUME NEW n \in Nat, NEW axis \in Axes, NEW flexes \in [1 .. n -> Nat], NEW sizes \in [1 .. n -> Dims],
         NEW c, ConsOK(c), FlexFits(c, axis, flexes, sizes), NEW i \in 1 .. n, flexes[i] # 0,
         NEW e, e = ExpandedCons(c, axis, flexes, i, Used(axis, flexes, sizes))
  PROVE  /\ ConsOK(e)
         /\ e.min[axis] = Share(c, axis, flexes, sizes, i) /\ e.max[axis] = Share(c, axis, flexes, sizes, i)
         /\ e.max[Cross(axis)] = c.max[Cross(axis)] /\ e.min[Cross(axis)] = c.min[Cross(axis)]
<1> DEFINE share == Share(c, axis, flexes, sizes, i)
<1>1. share \in Nat /\ share < Unbound
  <2>1. /\ share \in Nat /\ Bounded(c, axis) /\ share <= c.max[axis] - Used(axis, flexes, sizes)
    BY ShareIs
  <2>2. Used(axis, flexes, sizes) \in Nat
    BY UsedIs
  <2>3. c.max[axis] \in Int /\ c.max[axis] <= Unbound
    BY ConsIs
  <2> HIDE DEF share
  <2> QED BY <2>1, <2>2, <2>3, UnboundIs DEF Bounded
<1>2. e = Limits([c.min EXCEPT ![axis] = share], [c.max EXCEPT ![axis] = share])
  BY DEF ExpandedCons, Share
<1> HIDE DEF share
<1>3. /\ e.min = [c.min EXCEPT ![axis] = share] /\ e.max = [c.max EXCEPT ![axis] = share]
      /\ e = [min |-> e.min, max |-> e.max]
  BY <1>2 DEF Limits
<1>4. ConsOK(e)
  BY <1>1, <1>3, UnboundIs DEF ConsOK, Dims, Axes
<1>5. e.min[axis] = share /\ e.max[axis] = share
  BY <1>3 DEF ConsOK, Dims, Axes
<1>6. e.max[Cross(axis)] = c.max[Cross(axis)] /\ e.min[Cross(axis)] = c.min[Cross(axis)]
  BY <1>3 DEF ConsOK, Dims, Axes, Cross
<1> QED BY <1>4, <1>5, <1>6 DEF share

\* Every child keeps what the flex asked of it.
FlexKept(c, axis, flexes, sizes) ==
  \A i \in DOMAIN sizes :
    SizeOK(IF flexes[i] = 0 THEN FlexCons(c, axis)
           ELSE ExpandedCons(c, axis, flexes, i, Used(axis, flexes, sizes)), sizes[i])

LEMMA FlexChildIs ==
  ASSUME NEW n \in Nat, NEW axis \in Axes, NEW flexes \in [1 .. n -> Nat], NEW sizes \in [1 .. n -> Dims],
         NEW c, ConsOK(c), FlexFits(c, axis, flexes, sizes), FlexKept(c, axis, flexes, sizes), NEW i \in 1 .. n
  PROVE  /\ \A a \in Axes : 0 <= sizes[i][a] /\ sizes[i][a] < Unbound
         /\ sizes[i][Cross(axis)] <= c.max[Cross(axis)]
         /\ flexes[i] # 0 => sizes[i][axis] = Share(c, axis, flexes, sizes, i)
<1> DEFINE e == IF flexes[i] = 0 THEN FlexCons(c, axis)
                ELSE ExpandedCons(c, axis, flexes, i, Used(axis, flexes, sizes))
<1>1. SizeOK(e, sizes[i])
  BY DEF FlexKept
<1>2. ConsOK(e) /\ e.max[Cross(axis)] = c.max[Cross(axis)]
  <2>1. CASE flexes[i] = 0
    BY <2>1, FlexConsOK
  <2>2. CASE flexes[i] # 0
    BY <2>2, ExpandedOK
  <2> QED BY <2>1, <2>2
<1>3. flexes[i] # 0 => e.min[axis] = Share(c, axis, flexes, sizes, i) /\ e.max[axis] = Share(c, axis, flexes, sizes, i)
  <2> SUFFICES ASSUME flexes[i] # 0
               PROVE  e.min[axis] = Share(c, axis, flexes, sizes, i) /\ e.max[axis] = Share(c, axis, flexes, sizes, i)
    OBVIOUS
  <2> QED BY ExpandedOK
<1> HIDE DEF e
<1>4. \A a \in Axes : 0 <= sizes[i][a] /\ sizes[i][a] < Unbound
  <2>1. ASSUME NEW a \in Axes PROVE 0 <= sizes[i][a] /\ sizes[i][a] < Unbound
    BY <1>1, <1>2, SizeIs, ConsIs
  <2> QED BY <2>1
<1>5. sizes[i][Cross(axis)] <= c.max[Cross(axis)]
  BY <1>1, <1>2, SizeIs, AxisIs
<1>6. ASSUME flexes[i] # 0 PROVE sizes[i][axis] = Share(c, axis, flexes, sizes, i)
  <2>1. sizes[i][axis] \in Int /\ e.min[axis] <= sizes[i][axis] /\ sizes[i][axis] <= e.max[axis]
    BY <1>1, SizeIs
  <2>2. Share(c, axis, flexes, sizes, i) \in Nat
    BY <1>6, ShareIs
  <2> QED BY <1>3, <1>6, <2>1, <2>2
<1> QED BY <1>4, <1>5, <1>6

\* The children of a flex are not longer than what it was given, however it is shared.
LEMMA FlexLength ==
  ASSUME NEW n \in Nat, NEW axis \in Axes, NEW flexes \in [1 .. n -> Nat], NEW sizes \in [1 .. n -> Dims],
         NEW c, ConsOK(c), FlexFits(c, axis, flexes, sizes), FlexKept(c, axis, flexes, sizes)
  PROVE  /\ Total(Along(sizes, axis)) \in Nat /\ Total(Along(sizes, axis)) <= c.max[axis]
         /\ Total(Along(sizes, axis)) < Unbound
<1> DEFINE all == Along(sizes, axis)
           fixed == FixedSizes(axis, flexes, sizes)
           used == Used(axis, flexes, sizes)
           S == SumUpTo(all)  U == SumUpTo(fixed)  F == SumUpTo(flexes)
           t == Total(flexes)
           rest == c.max[axis] - used
<1>1. all \in [1 .. n -> Nat] /\ \A i \in 1 .. n : all[i] = sizes[i][axis]
  <2>1. \A i \in 1 .. n : 0 <= sizes[i][axis]
    BY FlexChildIs
  <2> QED BY <2>1, AlongIs
<1>2. fixed \in [1 .. n -> Nat] /\ used = Total(fixed) /\ used \in Nat
  BY UsedIs
<1>3. \A i \in 1 .. n : fixed[i] = IF flexes[i] = 0 THEN all[i] ELSE 0
  BY <1>1 DEF FixedSizes
<1>4. c.max[axis] \in Int /\ c.max[axis] <= Unbound
  BY ConsIs
<1>5. \A i \in 1 .. n : flexes[i] # 0 =>
        /\ t \in Nat /\ t # 0 /\ rest \in Nat /\ Bounded(c, axis)
        /\ t * all[i] <= flexes[i] * rest
  <2>1. ASSUME NEW i \in 1 .. n, flexes[i] # 0
        PROVE  /\ t \in Nat /\ t # 0 /\ rest \in Nat /\ Bounded(c, axis)
               /\ t * all[i] <= flexes[i] * rest
    <3>1. all[i] = Share(c, axis, flexes, sizes, i)
      BY <1>1, <2>1, FlexChildIs
    <3>2. /\ t \in Nat /\ t # 0 /\ rest \in Nat /\ Bounded(c, axis)
          /\ t * Share(c, axis, flexes, sizes, i) <= flexes[i] * rest
      BY <2>1, ShareIs
    <3> QED BY <3>1, <3>2
  <2> QED BY <2>1
<1> HIDE DEF all, fixed
<1>6. /\ S \in [0 .. n -> Nat] /\ S[0] = 0 /\ Total(all) = S[n]
      /\ \A i \in 1 .. n : S[i] = S[i - 1] + all[i]
  BY <1>1, SumIs
<1>7. /\ U \in [0 .. n -> Nat] /\ U[0] = 0 /\ Total(fixed) = U[n]
      /\ \A i \in 1 .. n : U[i] = U[i - 1] + fixed[i]
  BY <1>2, SumIs
<1>8. /\ F \in [0 .. n -> Nat] /\ F[0] = 0 /\ t = F[n]
      /\ \A i \in 1 .. n : F[i] = F[i - 1] + flexes[i]
  BY SumIs
<1>9. n \in 0 .. n /\ \A i \in 1 .. n : i \in 0 .. n /\ i - 1 \in 0 .. n
  OBVIOUS
<1>10. DOMAIN flexes = 1 .. n
  OBVIOUS
<1>11. IF Bounded(c, axis) THEN used <= c.max[axis] ELSE used < Unbound /\ \A i \in 1 .. n : flexes[i] = 0
  BY <1>10 DEF FlexFits
<1> HIDE DEF S, U, F, t, used, rest
<1>12. CASE \A i \in 1 .. n : flexes[i] = 0
  <2> DEFINE T == {i \in 0 .. n : S[i] = U[i]}
  <2>1. 0 \in T
    BY <1>6, <1>7
  <2>2. ASSUME NEW i \in 1 .. n, i - 1 \in T PROVE i \in T
    BY <1>3, <1>6, <1>7, <1>9, <1>12, <2>2
  <2>3. 0 .. n \subseteq T
    <3> HIDE DEF T
    <3> QED BY <2>1, <2>2, Ascends
  <2>4. S[n] = used
    BY <1>2, <1>7, <1>9, <2>3
  <2> QED BY <1>2, <1>4, <1>6, <1>11, <2>4, UnboundIs DEF Bounded, all
<1>13. CASE \E i \in 1 .. n : flexes[i] # 0
  <2>1. t \in Nat /\ t # 0 /\ rest \in Nat /\ Bounded(c, axis)
    BY <1>5, <1>13
  <2> DEFINE T == {i \in 0 .. n : t * S[i] <= t * U[i] + F[i] * rest}
  <2>2. 0 \in T
    BY <1>6, <1>7, <1>8, <2>1
  <2>3. ASSUME NEW i \in 1 .. n, i - 1 \in T PROVE i \in T
    <3>1. /\ S[i] = S[i - 1] + all[i] /\ U[i] = U[i - 1] + fixed[i] /\ F[i] = F[i - 1] + flexes[i]
          /\ S[i - 1] \in Nat /\ U[i - 1] \in Nat /\ F[i - 1] \in Nat
          /\ all[i] \in Nat /\ fixed[i] \in Nat /\ flexes[i] \in Nat
      BY <1>1, <1>2, <1>6, <1>7, <1>8, <1>9
    <3>2. t * S[i - 1] <= t * U[i - 1] + F[i - 1] * rest
      BY <2>3
    <3>3. t * all[i] <= t * fixed[i] + flexes[i] * rest
      <4>1. CASE flexes[i] = 0
        BY <1>3, <2>1, <3>1, <4>1
      <4>2. CASE flexes[i] # 0
        BY <1>3, <1>5, <2>1, <3>1, <4>2
      <4> QED BY <4>1, <4>2
    <3>4. /\ t * (S[i - 1] + all[i]) = t * S[i - 1] + t * all[i]
          /\ t * (U[i - 1] + fixed[i]) = t * U[i - 1] + t * fixed[i]
          /\ (F[i - 1] + flexes[i]) * rest = F[i - 1] * rest + flexes[i] * rest
          /\ t * S[i - 1] \in Int /\ t * all[i] \in Int /\ t * U[i - 1] \in Int /\ t * fixed[i] \in Int
          /\ F[i - 1] * rest \in Int /\ flexes[i] * rest \in Int
      <4>1. t \in Int /\ rest \in Int
        BY <2>1
      <4>2. /\ S[i - 1] \in Int /\ all[i] \in Int /\ U[i - 1] \in Int /\ fixed[i] \in Int
            /\ F[i - 1] \in Int /\ flexes[i] \in Int
        BY <3>1
      <4>3. \A x, y \in Int : /\ t * (x + y) = t * x + t * y /\ t * x \in Int /\ t * y \in Int
                             /\ (x + y) * rest = x * rest + y * rest /\ x * rest \in Int /\ y * rest \in Int
        BY <4>1, Distributes
      <4>4. t * (S[i - 1] + all[i]) = t * S[i - 1] + t * all[i] /\ t * S[i - 1] \in Int /\ t * all[i] \in Int
        BY <4>2, <4>3, Zenon
      <4>5. t * (U[i - 1] + fixed[i]) = t * U[i - 1] + t * fixed[i] /\ t * U[i - 1] \in Int /\ t * fixed[i] \in Int
        BY <4>2, <4>3, Zenon
      <4>6. /\ (F[i - 1] + flexes[i]) * rest = F[i - 1] * rest + flexes[i] * rest
            /\ F[i - 1] * rest \in Int /\ flexes[i] * rest \in Int
        BY <4>2, <4>3, Zenon
      <4> QED BY <4>4, <4>5, <4>6
    <3>6. t * S[i] <= t * U[i] + F[i] * rest
      <4>1. t * S[i - 1] + t * all[i] <= (t * U[i - 1] + t * fixed[i]) + (F[i - 1] * rest + flexes[i] * rest)
        BY <3>2, <3>3, <3>4, AddsUp
      <4> QED BY <3>1, <3>4, <4>1
    <3> QED BY <1>9, <3>6
  <2>4. 0 .. n \subseteq T
    <3> HIDE DEF T
    <3> QED BY <2>2, <2>3, Ascends
  <2>5. t * S[n] <= t * used + t * rest
    BY <1>2, <1>7, <1>8, <1>9, <2>4
  <2>6. t * used + t * rest = t * (used + rest) /\ used + rest = c.max[axis]
    <3>1. t \in Int /\ used \in Int /\ rest \in Int
      BY <1>2, <2>1
    <3> QED BY <1>4, <3>1, Distributes DEF rest
  <2>7. S[n] \in Nat
    BY <1>6, <1>9
  <2>8. S[n] <= c.max[axis]
    <3>1. t * S[n] <= t * c.max[axis]
      BY <2>5, <2>6
    <3> QED BY <1>4, <2>1, <2>7, <3>1
  <2> QED BY <1>4, <1>6, <2>1, <2>7, <2>8, UnboundIs DEF Bounded, all
<1> QED BY <1>12, <1>13


LEMMA FlexTotalIs ==
  ASSUME NEW axis \in Axes, NEW sizes
  PROVE  /\ FlexTotal(axis, sizes)[axis] = Total(Along(sizes, axis))
         /\ FlexTotal(axis, sizes)[Cross(axis)] = Largest(Along(sizes, Cross(axis)))
         /\ FlexTotal(Cross(axis), sizes)[axis] = Largest(Along(sizes, axis))
         /\ FlexTotal(Cross(axis), sizes)[Cross(axis)] = Total(Along(sizes, Cross(axis)))
BY DEF FlexTotal, Both, Dim, Axes, Cross

\* A flex has a size that keeps its constraints, and holds its children.
LEMMA FlexOK ==
  ASSUME NEW n \in Nat, NEW axis \in Axes, NEW flexes \in [1 .. n -> Nat], NEW sizes \in [1 .. n -> Dims],
         NEW c, ConsOK(c), FlexFits(c, axis, flexes, sizes), FlexKept(c, axis, flexes, sizes)
  PROVE  /\ SizeOK(c, FlexSize(c, axis, sizes))
         /\ \A a \in Axes : FlexTotal(axis, sizes)[a] \in Nat /\ FlexTotal(axis, sizes)[a] <= FlexSize(c, axis, sizes)[a]
         /\ \A i \in 1 .. n : sizes[i][Cross(axis)] <= FlexTotal(axis, sizes)[Cross(axis)]
<1> DEFINE total == FlexTotal(axis, sizes)
           size == FlexSize(c, axis, sizes)
<1>1. total[axis] \in Nat /\ total[axis] <= c.max[axis] /\ total[axis] < Unbound
  BY FlexTotalIs, FlexLength
<1>2. /\ total[Cross(axis)] \in Nat /\ total[Cross(axis)] <= c.max[Cross(axis)] /\ total[Cross(axis)] < Unbound
      /\ \A i \in 1 .. n : sizes[i][Cross(axis)] <= total[Cross(axis)]
  <2>1. \A i \in 1 .. n : /\ 0 <= sizes[i][Cross(axis)] /\ sizes[i][Cross(axis)] < Unbound
                          /\ sizes[i][Cross(axis)] <= c.max[Cross(axis)]
    BY FlexChildIs, AxisIs
  <2>2. c.max[Cross(axis)] \in Nat /\ Cross(axis) \in Axes
    BY ConsIs, AxisIs
  <2>3. total[Cross(axis)] = Largest(Along(sizes, Cross(axis)))
    BY FlexTotalIs
  <2> HIDE DEF total
  <2> QED BY <2>1, <2>2, <2>3, LargestAlong
<1>3. size = [x |-> size["x"], y |-> size["y"]] /\ \A a \in Axes : size[a] = Larger(total[a], c.min[a])
  BY DEF FlexSize, Both, Dim, Axes
<1> HIDE DEF total, size
<1>4. \A a \in Axes : total[a] \in Nat /\ total[a] <= c.max[a] /\ total[a] < Unbound
  BY <1>1, <1>2, AxisIs
<1>5. size \in Dims
  <2>1. ASSUME NEW a \in Axes PROVE size[a] \in Int
    BY <1>3, <1>4, ConsIs DEF Larger
  <2> QED BY <1>3, <2>1 DEF Dims, Axes
<1>6. SizeOK(c, size) /\ \A a \in Axes : total[a] <= size[a]
  BY <1>3, <1>4, <1>5, HoldsOK
<1> QED BY <1>2, <1>4, <1>6 DEF total, size

LEMMA EndsAt ==
  ASSUME NEW t \in Int, NEW s \in Int, NEW w \in Int
  PROVE  t + s + w - 1 = t + (s + w) - 1
OBVIOUS

LEMMA EndsBefore ==
  ASSUME NEW t \in Int, NEW s \in Int, NEW u \in Int, s <= u
  PROVE  t + s - 1 < t + u
OBVIOUS

\* The rectangle has room for what a flex holds.
FlexRoom(rect, axis, sizes) ==
  /\ \A i \in DOMAIN sizes : \A a \in Axes : 0 <= sizes[i][a]
  /\ \A a \in Axes : FlexTotal(axis, sizes)[a] \in Nat /\ FlexTotal(axis, sizes)[a] <= SizeOf(rect)[a]
  /\ \A i \in DOMAIN sizes : sizes[i][Cross(axis)] <= FlexTotal(axis, sizes)[Cross(axis)]

\* A flex puts its children into its rectangle, one behind the other.
LEMMA FlexPlaces ==
  ASSUME NEW n \in Nat, NEW axis \in Axes, NEW sizes \in [1 .. n -> Dims], NEW rect \in Rects,
         FlexRoom(rect, axis, sizes)
  PROVE  /\ \A i \in 1 .. n : Put(FlexRect(rect, axis, sizes, i), sizes[i], rect)
         /\ \A i \in 1 .. n : \A j \in i + 1 .. n :
              FlexRect(rect, axis, sizes, i).br[axis] < FlexRect(rect, axis, sizes, j).tl[axis]
<1> DEFINE total == FlexTotal(axis, sizes)
           S == SumUpTo(Along(sizes, axis))
           gap == Half(SizeOf(rect)[axis] - total[axis])
           offset(i) == Both(LAMBDA a : IF a = axis THEN gap + S[i - 1] ELSE Half(SizeOf(rect)[a] - sizes[i][a]))
<1>1. Along(sizes, axis) \in [1 .. n -> Nat] /\ \A i \in 1 .. n : Along(sizes, axis)[i] = sizes[i][axis]
  <2>1. \A i \in 1 .. n : 0 <= sizes[i][axis]
    BY DEF FlexRoom
  <2> QED BY <2>1, AlongIs
<1>2. /\ S \in [0 .. n -> Nat] /\ total[axis] = S[n]
      /\ \A i \in 1 .. n : S[i] = S[i - 1] + sizes[i][axis]
      /\ \A i \in 0 .. n : \A j \in i .. n : S[i] <= S[j]
  <2> DEFINE seq == Along(sizes, axis)
  <2>1. total[axis] = Total(seq)
    BY FlexTotalIs
  <2> HIDE DEF seq, total
  <2>2. /\ SumUpTo(seq) \in [0 .. n -> Nat] /\ Total(seq) = SumUpTo(seq)[n]
        /\ \A i \in 1 .. n : SumUpTo(seq)[i] = SumUpTo(seq)[i - 1] + seq[i]
        /\ \A i \in 0 .. n : \A j \in i .. n : SumUpTo(seq)[i] <= SumUpTo(seq)[j]
    BY <1>1, SumIs DEF seq
  <2> QED BY <1>1, <2>1, <2>2 DEF seq
<1>3. \A a \in Axes : SizeOf(rect)[a] \in Int /\ total[a] \in Nat /\ total[a] <= SizeOf(rect)[a]
  BY SizeOfAt, AxisIs DEF FlexRoom
<1>4. gap \in Nat /\ gap + total[axis] <= SizeOf(rect)[axis]
  <2>1. SizeOf(rect)[axis] - total[axis] \in Int /\ SizeOf(rect)[axis] - total[axis] >= 0
    BY <1>3
  <2> DEFINE d == SizeOf(rect)[axis] - total[axis]
  <2>2. SizeOf(rect)[axis] \in Int /\ total[axis] \in Nat /\ d = SizeOf(rect)[axis] - total[axis] /\ gap = Half(d)
    BY <1>3
  <2> HIDE DEF total, d, gap
  <2>3. d \in Int /\ d >= 0
    BY <2>1, <2>2
  <2>4. gap \in Int
    BY <2>2, <2>3, HalfIs
  <2>5. 0 <= gap
    BY <2>2, <2>3, HalfIs
  <2>6. gap <= d
    BY <2>2, <2>3, HalfIs
  <2>7. gap \in Nat
    BY <2>4, <2>5
  <2> QED BY <2>2, <2>3, <2>6, <2>7
<1>5. ASSUME NEW i \in 1 .. n
      PROVE  /\ offset(i)[axis] = gap + S[i - 1]
             /\ offset(i)[Cross(axis)] = Half(SizeOf(rect)[Cross(axis)] - sizes[i][Cross(axis)])
             /\ FlexRect(rect, axis, sizes, i) = Placed(rect, sizes[i], offset(i))
  BY DEF Both, Dim, Axes, Cross, FlexRect
<1> HIDE DEF total, S, gap, offset
<1>6. ASSUME NEW i \in 1 .. n
      PROVE  /\ S[i - 1] \in Nat /\ S[i] \in Nat /\ S[n] \in Nat /\ S[i - 1] + sizes[i][axis] <= S[n]
             /\ sizes[i] \in Dims
             /\ \A a \in Axes : sizes[i][a] \in Int /\ 0 <= sizes[i][a]
  <2>0. \A a \in Axes : 0 <= sizes[i][a]
    BY DEF FlexRoom
  <2>1. i - 1 \in 0 .. n /\ i \in 0 .. n /\ n \in i .. n /\ n \in 0 .. n
    OBVIOUS
  <2>2. S[i] <= S[n] /\ S[i] = S[i - 1] + sizes[i][axis]
    BY <1>2, <2>1
  <2> QED BY <1>2, <2>0, <2>1, <2>2, AxisIs
<1>7. ASSUME NEW i \in 1 .. n, NEW a \in Axes
      PROVE  offset(i)[a] \in Int /\ 0 <= offset(i)[a] /\ offset(i)[a] + sizes[i][a] <= SizeOf(rect)[a]
  <2>1. CASE a = axis
    <3>1. /\ offset(i)[a] = gap + S[i - 1] /\ gap \in Nat /\ gap + S[n] <= SizeOf(rect)[a]
          /\ S[i - 1] \in Nat /\ S[n] \in Nat /\ S[i - 1] + sizes[i][a] <= S[n] /\ sizes[i][a] \in Int
          /\ SizeOf(rect)[a] \in Int
      BY <1>2, <1>3, <1>4, <1>5, <1>6, <2>1
    <3>2. offset(i)[a] \in Int
      BY <3>1
    <3>3. 0 <= offset(i)[a]
      BY <3>1
    <3>4. offset(i)[a] + sizes[i][a] <= SizeOf(rect)[a]
      BY <3>1
    <3> QED BY <3>2, <3>3, <3>4
  <2>2. CASE a = Cross(axis)
    <3>1. sizes[i][a] \in Int /\ SizeOf(rect)[a] \in Int /\ SizeOf(rect)[a] - sizes[i][a] >= 0
      <4>1. sizes[i][Cross(axis)] <= total[Cross(axis)]
        BY DEF total, FlexRoom
      <4> QED BY <1>3, <1>6, <2>2, <4>1
    <3>2. SizeOf(rect)[a] - sizes[i][a] \in Int
      BY <3>1
    <3>3. Half(SizeOf(rect)[a] - sizes[i][a]) \in Int /\ 0 <= Half(SizeOf(rect)[a] - sizes[i][a])
          /\ Half(SizeOf(rect)[a] - sizes[i][a]) <= SizeOf(rect)[a] - sizes[i][a]
      BY <3>1, <3>2, HalfIs
    <3> QED BY <1>5, <2>2, <3>1, <3>3
  <2> QED BY <2>1, <2>2, AxisIs
<1>8. \A i \in 1 .. n : Put(FlexRect(rect, axis, sizes, i), sizes[i], rect)
  <2>1. ASSUME NEW i \in 1 .. n PROVE Put(FlexRect(rect, axis, sizes, i), sizes[i], rect)
    <3>1. sizes[i] \in Dims
      BY <1>6
    <3>2. Put(Placed(rect, sizes[i], offset(i)), sizes[i], rect)
      BY <1>7, <3>1, PlacedIs
    <3> QED BY <1>5, <3>2
  <2> QED BY <2>1
<1>9. ASSUME NEW i \in 1 .. n
      PROVE  /\ FlexRect(rect, axis, sizes, i).tl[axis] = rect.tl[axis] + gap + S[i - 1]
             /\ FlexRect(rect, axis, sizes, i).br[axis] = rect.tl[axis] + gap + S[i] - 1
  <2>1. FlexRect(rect, axis, sizes, i).tl[axis] = rect.tl[axis] + (gap + S[i - 1])
    BY <1>5 DEF Placed, Rect, Both, Dim, Axes
  <2>2. SizeOf(FlexRect(rect, axis, sizes, i)) = sizes[i] /\ FlexRect(rect, axis, sizes, i) \in Rects
    BY <1>8 DEF Put
  <2>3. /\ FlexRect(rect, axis, sizes, i).tl[axis] \in Int /\ FlexRect(rect, axis, sizes, i).br[axis] \in Int
        /\ sizes[i][axis] = FlexRect(rect, axis, sizes, i).br[axis] - FlexRect(rect, axis, sizes, i).tl[axis] + 1
    BY <2>2, SizeOfAt
  <2>4. rect.tl[axis] \in Int
    BY SizeOfAt
  <2>5. S[i] = S[i - 1] + sizes[i][axis] /\ S[i] \in Nat /\ S[i - 1] \in Nat /\ gap \in Nat
    BY <1>2, <1>4, <1>6
  <2>6. FlexRect(rect, axis, sizes, i).tl[axis] = rect.tl[axis] + gap + S[i - 1]
    BY <2>1, <2>4, <2>5
  <2>7. FlexRect(rect, axis, sizes, i).br[axis] = FlexRect(rect, axis, sizes, i).tl[axis] + sizes[i][axis] - 1
    BY <2>3, <1>6
  <2>8. FlexRect(rect, axis, sizes, i).br[axis] = rect.tl[axis] + gap + S[i] - 1
    <3>1. sizes[i][axis] \in Int
      BY <1>6
    <3>2. rect.tl[axis] + gap \in Int
      BY <2>4, <2>5
    <3>3. FlexRect(rect, axis, sizes, i).br[axis] = rect.tl[axis] + gap + S[i - 1] + sizes[i][axis] - 1
      BY <2>6, <2>7
    <3>4. rect.tl[axis] + gap + S[i - 1] + sizes[i][axis] - 1 = rect.tl[axis] + gap + (S[i - 1] + sizes[i][axis]) - 1
      <4> DEFINE t == rect.tl[axis] + gap
                 s == S[i - 1]
                 w == sizes[i][axis]
      <4>1. t \in Int /\ s \in Int /\ w \in Int
        BY <2>5, <3>1, <3>2
      <4> HIDE DEF t, s, w
      <4>2. t + s + w - 1 = t + (s + w) - 1
        BY <4>1, EndsAt
      <4> QED BY <4>2 DEF t, s, w
    <3> QED BY <2>5, <3>3, <3>4
  <2> QED BY <2>6, <2>8
<1>10. ASSUME NEW i \in 1 .. n, NEW j \in i + 1 .. n
       PROVE  FlexRect(rect, axis, sizes, i).br[axis] < FlexRect(rect, axis, sizes, j).tl[axis]
  <2>1. j \in 1 .. n /\ j - 1 \in i .. n /\ i \in 0 .. n
    OBVIOUS
  <2>2. S[i] <= S[j - 1] /\ S[i] \in Nat /\ S[j - 1] \in Nat
    BY <1>2, <1>6, <2>1
  <2>3. rect.tl[axis] \in Int
    BY SizeOfAt
  <2>4. /\ FlexRect(rect, axis, sizes, i).br[axis] = rect.tl[axis] + gap + S[i] - 1
        /\ FlexRect(rect, axis, sizes, j).tl[axis] = rect.tl[axis] + gap + S[j - 1]
    BY <1>9, <2>1
  <2>5. gap \in Nat
    BY <1>4
  <2>6. rect.tl[axis] + gap \in Int
    BY <2>3, <2>5
  <2> QED BY <2>2, <2>4, <2>6, EndsBefore
<1> QED BY <1>8, <1>10


------------------------------------------------------------------------------
(* Wrap                                                                       *)

\* Sizes that are not negative.
Positive == {d \in Dims : \A a \in Axes : 0 <= d[a]}

LEMMA PositiveIs ==
  ASSUME NEW d \in Positive, NEW a \in Axes
  PROVE  d \in Dims /\ d[a] \in Nat
BY AxisIs DEF Positive

\* A run with a child more is longer by it, and not thinner.
LEMMA WithChildIs ==
  ASSUME NEW axis \in Axes, NEW run \in Positive, NEW size \in Positive
  PROVE  /\ WithChild(axis, run, size) \in Positive
         /\ WithChild(axis, run, size)[axis] = run[axis] + size[axis]
         /\ WithChild(axis, run, size)[Cross(axis)] = Larger(run[Cross(axis)], size[Cross(axis)])
BY DEF Positive, WithChild, Both, Dim, Dims, Axes, Cross, Larger

Some(S) == {s \in Seq(S) : Len(s) # 0}

\* What a child makes of the runs before it.
RunsWith(axis, limit, before, size) ==
  IF before[Len(before)][axis] + size[axis] > limit THEN Append(before, size)
  ELSE [before EXCEPT ![Len(before)] = WithChild(axis, before[Len(before)], size)]

Added(axis, limit, before, size, after, l) ==
  /\ l \in Nat /\ l # 0 /\ before[l] \in Positive /\ after \in Some(Positive)
  /\ \A k \in 1 .. l - 1 : after[k] = before[k]
  /\ IF before[l][axis] + size[axis] > limit
     THEN Len(after) = l + 1 /\ after[l] = before[l] /\ after[l + 1] = size
     ELSE Len(after) = l /\ after[l] = WithChild(axis, before[l], size)

\* A child is added to the last run, or starts a new one.
LEMMA RunsWithIs ==
  ASSUME NEW axis \in Axes, NEW limit \in Int, NEW before \in Some(Positive), NEW size \in Positive
  PROVE  Added(axis, limit, before, size, RunsWith(axis, limit, before, size), Len(before))
<1> DEFINE after == RunsWith(axis, limit, before, size)
           l == Len(before)
<1>1. before \in Seq(Positive) /\ l \in Nat /\ l # 0 /\ before[l] \in Positive
  BY DEF Some
<1>2. WithChild(axis, before[l], size) \in Positive
  BY <1>1, WithChildIs
<1>3. CASE before[l][axis] + size[axis] > limit
  <2>1. after = Append(before, size)
    BY <1>3 DEF RunsWith
  <2>2. /\ after \in Seq(Positive) /\ Len(after) = l + 1 /\ \A k \in 1 .. l : after[k] = before[k]
        /\ after[l + 1] = size
    BY <1>1, <2>1, AppendProperties
  <2> QED BY <1>1, <1>3, <2>2 DEF Some, Added
<1>4. CASE ~(before[l][axis] + size[axis] > limit)
  <2>1. after = [before EXCEPT ![l] = WithChild(axis, before[l], size)]
    BY <1>4 DEF RunsWith
  <2>2. /\ after \in Seq(Positive) /\ Len(after) = l
        /\ \A k \in 1 .. l : after[k] = IF k = l THEN WithChild(axis, before[l], size) ELSE before[k]
    <3>1. l \in 1 .. Len(before)
      BY <1>1
    <3> QED BY <1>1, <1>2, <2>1, <3>1, ExceptSeq
  <2> QED BY <1>1, <1>4, <2>2 DEF Some, Added
<1> QED BY <1>3, <1>4

LEMMA RunsWithIn ==
  ASSUME NEW axis \in Axes, NEW limit \in Int, NEW before \in Some(Positive), NEW size \in Positive
  PROVE  RunsWith(axis, limit, before, size) \in Some(Positive)
BY RunsWithIs DEF Added

\* The runs are what their definition says, child by child.
LEMMA RunsUpToDef ==
  ASSUME NEW m \in Nat, NEW axis \in Axes, NEW sizes \in [1 .. m -> Positive], NEW limit \in Int
  PROVE  /\ RunsUpTo(axis, sizes, limit) \in [0 .. m -> Some(Positive)]
         /\ RunsUpTo(axis, sizes, limit)[0] = << Dim(0, 0) >>
         /\ \A n \in 1 .. m : RunsUpTo(axis, sizes, limit)[n]
              = RunsWith(axis, limit, RunsUpTo(axis, sizes, limit)[n - 1], sizes[n])
         /\ Runs(axis, sizes, limit) = RunsUpTo(axis, sizes, limit)[m]
<1> DEFINE D == Some(Positive)
           base == << Dim(0, 0) >>
           Step == [x \in D \X (1 .. m) |-> RunsWith(axis, limit, x[1], sizes[x[2]])]
           Defines(g) == g = [n \in 0 .. m |-> IF n = 0 THEN base ELSE RunsWith(axis, limit, g[n - 1], sizes[n])]
<1>0. Len(sizes) = m
  <2>1. sizes \in Seq(Positive) /\ DOMAIN sizes = 1 .. m
    BY SeqDef
  <2> QED BY <2>1, LenProperties
<1>1. base \in D
  <2>1. Dim(0, 0) \in Positive
    BY DEF Positive, Dims, Dim, Axes
  <2> QED BY <2>1 DEF Some
<1>2. Step \in [D \X (1 .. m) -> D] /\ \A s \in D, i \in 1 .. m : Step[<<s, i>>] = RunsWith(axis, limit, s, sizes[i])
  <2>1. ASSUME NEW s \in D, NEW i \in 1 .. m PROVE RunsWith(axis, limit, s, sizes[i]) \in D
    <3>1. sizes[i] \in Positive
      OBVIOUS
    <3> QED BY <3>1, RunsWithIn
  <2> HIDE DEF D
  <2> QED BY <2>1
<1> HIDE DEF Step, D, base
<1>3. PICK r : Recurs(r, m, D, base, Step)
  BY <1>1, <1>2, Recursion
<1>4. \A i \in 1 .. m : i - 1 \in 0 .. m
  OBVIOUS
<1>5. \A i \in 0 .. m : i = 0 \/ i \in 1 .. m
  OBVIOUS
<1>6. Defines(r)
  BY <1>2, <1>3, <1>4, <1>5 DEF Recurs
<1>7. RunsUpTo(axis, sizes, limit) = CHOOSE g : Defines(g)
  BY <1>0 DEF RunsUpTo, RunsWith, base
<1> DEFINE g == RunsUpTo(axis, sizes, limit)
<1>8. Defines(g)
  <2> HIDE DEF Defines
  <2> QED BY <1>6, <1>7
<1> HIDE DEF g
<1>9. g[0] = base /\ \A i \in 1 .. m : g[i] = RunsWith(axis, limit, g[i - 1], sizes[i])
  BY <1>8, <1>4
<1>10. 0 .. m \subseteq {i \in 0 .. m : g[i] \in D}
  <2> DEFINE T == {i \in 0 .. m : g[i] \in D}
  <2>1. 0 \in T
    BY <1>1, <1>9
  <2>2. ASSUME NEW j \in 1 .. m, j - 1 \in T PROVE j \in T
    <3>1. g[j] = RunsWith(axis, limit, g[j - 1], sizes[j]) /\ g[j - 1] \in D /\ sizes[j] \in Positive
      BY <1>9, <2>2
    <3>2. RunsWith(axis, limit, g[j - 1], sizes[j]) \in D
      BY <3>1, RunsWithIn DEF D
    <3> QED BY <3>1, <3>2
  <2>3. 0 .. m \subseteq T
    <3> HIDE DEF T
    <3> QED BY <2>1, <2>2, Ascends
  <2> QED BY <2>3
<1>11. g \in [0 .. m -> D]
  <2> HIDE DEF D, base
  <2> QED BY <1>8, <1>10
<1>12. Runs(axis, sizes, limit) = g[m]
  BY <1>0 DEF Runs, g
<1> QED BY <1>9, <1>11, <1>12 DEF g, D, base


IsRuns(R, m, axis, sizes, limit) ==
  /\ R \in [0 .. m -> Some(Positive)] /\ R[0] = << Dim(0, 0) >>
  /\ \A n \in 1 .. m : R[n] = RunsWith(axis, limit, R[n - 1], sizes[n])

\* The child turns to a new run.
Turns(R, n, axis, sizes, limit) == R[n - 1][Len(R[n - 1])][axis] + sizes[n][axis] > limit

NextRun(R, n, axis, sizes, limit, k, l) ==
  /\ k \in Nat /\ k # 0 /\ R[n - 1][k] \in Positive /\ R[n][k] \in Positive /\ R[n][l] \in Positive
  /\ \A j \in 1 .. k - 1 : R[n][j] = R[n - 1][j]
  /\ \A a \in Axes : R[n - 1][k][a] <= R[n][k][a]
  /\ Turns(R, n, axis, sizes, limit) => l = k + 1 /\ R[n][l][axis] = sizes[n][axis]
  /\ ~Turns(R, n, axis, sizes, limit) => l = k /\ R[n][l][axis] = R[n - 1][k][axis] + sizes[n][axis]
  /\ sizes[n][Cross(axis)] <= R[n][l][Cross(axis)]

\* With a child the last run grows along the axis, or another one is as long as it.
LEMMA RunsNext ==
  ASSUME NEW m \in Nat, NEW axis \in Axes, NEW sizes \in [1 .. m -> Positive], NEW limit \in Int,
         NEW R, IsRuns(R, m, axis, sizes, limit), NEW n \in 1 .. m
  PROVE  NextRun(R, n, axis, sizes, limit, Len(R[n - 1]), Len(R[n]))
<1> DEFINE k == Len(R[n - 1])
           l == Len(R[n])
<1> DEFINE before == R[n - 1]
           after == R[n]
           size == sizes[n]
<1>1. before \in Some(Positive) /\ size \in Positive /\ after = RunsWith(axis, limit, before, size) /\ k = Len(before)
  BY DEF IsRuns
<1>2. Turns(R, n, axis, sizes, limit) <=> before[k][axis] + size[axis] > limit
  BY DEF Turns
<1>3. l = Len(after)
  BY DEF l, after
<1> HIDE DEF before, after, size, k, l
<1>4. /\ k \in Nat /\ k # 0 /\ before[k] \in Positive /\ after \in Some(Positive)
      /\ \A j \in 1 .. k - 1 : after[j] = before[j]
      /\ IF before[k][axis] + size[axis] > limit
         THEN Len(after) = k + 1 /\ after[k] = before[k] /\ after[k + 1] = size
         ELSE Len(after) = k /\ after[k] = WithChild(axis, before[k], size)
  <2>1. Added(axis, limit, before, size, after, k)
    BY <1>1, RunsWithIs
  <2> QED BY <2>1 DEF Added
<1>5. \A a \in Axes : before[k][a] \in Nat /\ size[a] \in Nat
  BY <1>1, <1>4, PositiveIs
<1>6. Cross(axis) \in Axes
  BY AxisIs
<1>7. CASE Turns(R, n, axis, sizes, limit)
  <2>1. l = k + 1 /\ after[k] = before[k] /\ after[l] = size
    BY <1>2, <1>3, <1>4, <1>7
  <2>2. ASSUME NEW a \in Axes PROVE before[k][a] <= after[k][a]
    BY <1>5, <2>1
  <2>3. size[Cross(axis)] <= after[l][Cross(axis)]
    BY <1>5, <1>6, <2>1
  <2> QED BY <1>1, <1>4, <1>7, <2>1, <2>2, <2>3 DEF before, after, size, k, l, NextRun
<1>8. CASE ~Turns(R, n, axis, sizes, limit)
  <2>1. l = k /\ after[k] = WithChild(axis, before[k], size)
    BY <1>2, <1>3, <1>4, <1>8
  <2>2. /\ after[k] \in Positive /\ after[k][axis] = before[k][axis] + size[axis]
        /\ after[k][Cross(axis)] = Larger(before[k][Cross(axis)], size[Cross(axis)])
    BY <1>1, <1>4, <2>1, WithChildIs
  <2>3. ASSUME NEW a \in Axes PROVE before[k][a] <= after[k][a]
    <3>1. CASE a = axis
      BY <1>5, <2>2, <3>1
    <3>2. CASE a = Cross(axis)
      BY <1>5, <1>6, <2>2, <3>2 DEF Larger
    <3> QED BY <3>1, <3>2, AxisIs
  <2>4. size[Cross(axis)] <= after[l][Cross(axis)]
    BY <1>5, <1>6, <2>1, <2>2 DEF Larger
  <2> QED BY <1>1, <1>4, <1>8, <2>1, <2>2, <2>3, <2>4 DEF before, after, size, k, l, NextRun
<1> QED BY <1>7, <1>8

\* The last of R[n] in R[j]: it may have grown, the ones before it have not changed.
Grown(R, n, j) ==
  /\ Len(R[n]) <= Len(R[j])
  /\ \A k \in 1 .. Len(R[n]) - 1 : R[j][k] = R[n][k]
  /\ \A a \in Axes : R[n][Len(R[n])][a] <= R[j][Len(R[n])][a]

LEMMA RunsIs ==
  ASSUME NEW m \in Nat, NEW axis, NEW sizes, NEW limit, NEW R, IsRuns(R, m, axis, sizes, limit), NEW n \in 0 .. m
  PROVE  /\ R[n] \in Seq(Positive) /\ Len(R[n]) \in Nat /\ Len(R[n]) # 0
         /\ \A k \in 1 .. Len(R[n]) : R[n][k] \in Positive
BY DEF IsRuns, Some

\* No run loses what it had.
LEMMA RunsGrow ==
  ASSUME NEW m \in Nat, NEW axis \in Axes, NEW sizes \in [1 .. m -> Positive], NEW limit \in Int,
         NEW R, IsRuns(R, m, axis, sizes, limit), NEW n \in 0 .. m, NEW j \in n .. m
  PROVE  Grown(R, n, j)
<1> DEFINE T == {i \in 0 .. m : n <= i => Grown(R, n, i)}
<1>0. Grown(R, n, n)
  <2>1. \A a \in Axes : R[n][Len(R[n])][a] \in Nat
    BY RunsIs, PositiveIs
  <2> QED BY <2>1, RunsIs DEF Grown
<1>1. 0 \in T
  BY <1>0
<1>2. ASSUME NEW i \in 1 .. m, i - 1 \in T PROVE i \in T
  <2> SUFFICES ASSUME n <= i PROVE Grown(R, n, i)
    OBVIOUS
  <2>1. CASE n = i
    BY <1>0, <2>1
  <2>2. CASE n # i
    <3> DEFINE h == i - 1
               l == Len(R[n])
               k == Len(R[h])
    <3>1. h \in 0 .. m /\ n <= h /\ h = i - 1
      BY <2>2
    <3>2. Grown(R, n, h)
      BY <1>2, <3>1
    <3>3. /\ k \in Nat /\ k # 0 /\ l \in Nat /\ l # 0 /\ Len(R[i]) \in Nat
      BY <3>1, RunsIs
    <3>4. /\ \A q \in 1 .. k - 1 : R[i][q] = R[h][q]
          /\ \A a \in Axes : R[h][k][a] <= R[i][k][a]
          /\ Len(R[i]) = k \/ Len(R[i]) = k + 1
          /\ R[h][k] \in Positive /\ R[i][k] \in Positive
      <4>1. NextRun(R, i, axis, sizes, limit, k, Len(R[i]))
        BY RunsNext
      <4> QED BY <4>1 DEF NextRun
    <3>5. l <= k /\ (\A q \in 1 .. l - 1 : R[h][q] = R[n][q]) /\ (\A a \in Axes : R[n][l][a] <= R[h][l][a])
      BY <3>2 DEF Grown
    <3>6. R[n][l] \in Positive
      BY <3>3, RunsIs
    <3> HIDE DEF h, l, k
    <3>7. l <= Len(R[i])
      BY <3>3, <3>4, <3>5
    <3>8. ASSUME NEW q \in 1 .. l - 1 PROVE R[i][q] = R[n][q]
      <4>1. q \in 1 .. k - 1
        BY <3>3, <3>5
      <4> QED BY <3>4, <3>5, <4>1
    <3>9. ASSUME NEW a \in Axes PROVE R[n][l][a] <= R[i][l][a]
      <4>1. CASE l = k
        <5>1. R[n][l][a] \in Nat /\ R[h][l][a] \in Nat /\ R[i][l][a] \in Nat
          BY <3>4, <3>6, <4>1, PositiveIs
        <5>2. R[n][l][a] <= R[h][l][a] /\ R[h][l][a] <= R[i][l][a]
          BY <3>4, <3>5, <4>1
        <5> QED BY <5>1, <5>2
      <4>2. CASE l # k
        <5>1. l \in 1 .. k - 1
          BY <3>3, <3>5, <4>2
        <5> QED BY <3>4, <3>5, <5>1
      <4> QED BY <4>1, <4>2
    <3> QED BY <3>7, <3>8, <3>9 DEF Grown, l
  <2> QED BY <2>1, <2>2
<1>3. 0 .. m \subseteq T
  <2> HIDE DEF T
  <2> QED BY <1>1, <1>2, Ascends
<1> QED BY <1>3


Origin(rect, axis, runs) == Both(LAMBDA a : Half(SizeOf(rect)[a] - WrapTotal(axis, runs)[a]))
\* How far the first runs reach.
Depth(axis, runs) == SumUpTo(Along(runs, Cross(axis)))

\* What a wrap needs: its longest run, and how deep all of them are.
LEMMA RunsTotal ==
  ASSUME NEW axis \in Axes, NEW runs \in Seq(Positive), NEW len, len = Len(runs)
  PROVE  /\ \A a \in Axes : WrapTotal(axis, runs)[a] \in Nat
         /\ \A k \in 1 .. len : runs[k][axis] <= WrapTotal(axis, runs)[axis]
         /\ Depth(axis, runs) \in [0 .. len -> Nat] /\ Depth(axis, runs)[0] = 0
         /\ WrapTotal(axis, runs)[Cross(axis)] = Depth(axis, runs)[len]
         /\ \A k \in 1 .. len : Depth(axis, runs)[k] = Depth(axis, runs)[k - 1] + runs[k][Cross(axis)]
         /\ \A k \in 0 .. len : \A j \in k .. len : Depth(axis, runs)[k] <= Depth(axis, runs)[j]
<1> DEFINE long == Along(runs, axis)
           deep == Along(runs, Cross(axis))
<1>1. len \in Nat /\ runs \in [1 .. len -> Dims] /\ \A k \in 1 .. len : \A a \in Axes : 0 <= runs[k][a]
  <2>1. len \in Nat /\ runs \in [1 .. len -> Positive]
    BY LenProperties
  <2> QED BY <2>1 DEF Positive
<1>2. Cross(axis) \in Axes
  BY AxisIs
<1>3. long \in [1 .. len -> Nat] /\ \A k \in 1 .. len : long[k] = runs[k][axis]
  BY <1>1, AlongIs
<1>4. deep \in [1 .. len -> Nat] /\ \A k \in 1 .. len : deep[k] = runs[k][Cross(axis)]
  BY <1>1, <1>2, AlongIs
<1>5. WrapTotal(axis, runs)[axis] = Largest(long) /\ WrapTotal(axis, runs)[Cross(axis)] = Total(deep)
  BY FlexTotalIs DEF WrapTotal
<1>6. Depth(axis, runs) = SumUpTo(deep)
  BY DEF Depth
<1> HIDE DEF long, deep
<1>7. Largest(long) \in Nat /\ \A k \in 1 .. len : long[k] <= Largest(long)
  BY <1>1, <1>3, LargestIs
<1>8. /\ SumUpTo(deep) \in [0 .. len -> Nat] /\ SumUpTo(deep)[0] = 0 /\ Total(deep) = SumUpTo(deep)[len]
      /\ \A k \in 1 .. len : SumUpTo(deep)[k] = SumUpTo(deep)[k - 1] + deep[k]
      /\ \A k \in 0 .. len : \A j \in k .. len : SumUpTo(deep)[k] <= SumUpTo(deep)[j]
  BY <1>1, <1>4, SumIs
<1>9. Total(deep) \in Nat
  <2>1. len \in 0 .. len
    BY <1>1
  <2> QED BY <1>8, <2>1
<1>10. \A a \in Axes : WrapTotal(axis, runs)[a] \in Nat
  BY <1>5, <1>7, <1>9, AxisIs
<1> QED BY <1>3, <1>4, <1>5, <1>6, <1>7, <1>8, <1>10

\* The rectangle has room for the runs, and is not longer than they may be.
WrapRoom(rect, axis, runs, limit) ==
  /\ \A a \in Axes : WrapTotal(axis, runs)[a] <= SizeOf(rect)[a]
  /\ SizeOf(rect)[axis] <= limit

\* The runs are put in the middle, and there is room for them.
LEMMA OriginIs ==
  ASSUME NEW axis \in Axes, NEW runs \in Seq(Positive), NEW limit, NEW rect \in Rects,
         WrapRoom(rect, axis, runs, limit), NEW a \in Axes
  PROVE  /\ Origin(rect, axis, runs)[a] \in Nat /\ SizeOf(rect)[a] \in Int
         /\ Origin(rect, axis, runs)[a] + WrapTotal(axis, runs)[a] <= SizeOf(rect)[a]
         /\ Origin(rect, axis, runs) \in Dims
<1> DEFINE o(b) == Half(SizeOf(rect)[b] - WrapTotal(axis, runs)[b])
<1>1. ASSUME NEW b \in Axes
      PROVE  o(b) \in Nat /\ SizeOf(rect)[b] \in Int /\ o(b) + WrapTotal(axis, runs)[b] <= SizeOf(rect)[b]
  <2> DEFINE r == SizeOf(rect)[b]
             t == WrapTotal(axis, runs)[b]
             d == r - t
  <2>1. r \in Int
    BY SizeOfAt, AxisIs
  <2>2. t \in Nat
    BY RunsTotal
  <2>3. t <= r
    BY DEF WrapRoom
  <2> HIDE DEF r, t
  <2>4. d \in Int /\ d >= 0
    BY <2>1, <2>2, <2>3
  <2>5. Half(d) \in Int /\ 0 <= Half(d) /\ Half(d) <= d
    <3> HIDE DEF d
    <3> QED BY <2>4, HalfIs
  <2>6. Half(d) + t <= r
    BY <2>1, <2>2, <2>5
  <2> QED BY <2>1, <2>5, <2>6 DEF r, t
<1>2. \A b \in Axes : Origin(rect, axis, runs)[b] = o(b)
  BY DEF Origin, Both, Dim, Axes
<1>3. Origin(rect, axis, runs) = [x |-> o("x"), y |-> o("y")]
  BY DEF Origin, Both, Dim
<1> HIDE DEF o
<1>4. Origin(rect, axis, runs) \in Dims
  BY <1>1, <1>3 DEF Dims, Axes
<1> QED BY <1>1, <1>2, <1>4

\* Where a child is put after n: behind what the run has without s of it.
Spot(rect, axis, runs, R, n, s) ==
  Both(LAMBDA a : IF a = axis THEN Origin(rect, axis, runs)[a] + (R[n][Len(R[n])][a] - s)
                  ELSE Origin(rect, axis, runs)[a] + Depth(axis, runs)[Len(R[n]) - 1])

\* What holds of a child of a wrap, of its run and of the one before.
LEMMA WrapFacts ==
  ASSUME NEW m \in Nat, NEW axis \in Axes, NEW sizes \in [1 .. m -> Positive], NEW limit \in Int,
         NEW R, IsRuns(R, m, axis, sizes, limit), NEW n \in 0 .. m
  PROVE  /\ R[m] \in Seq(Positive) /\ Len(R[n]) \in 1 .. Len(R[m]) /\ R[n][Len(R[n])] \in Positive
         /\ \A a \in Axes : R[n][Len(R[n])][a] <= R[m][Len(R[n])][a] /\ R[m][Len(R[n])][a] \in Nat
<1> DEFINE l == Len(R[n])
<1>1. m \in 0 .. m /\ m \in n .. m
  OBVIOUS
<1>2. R[m] \in Seq(Positive) /\ Len(R[m]) \in Nat /\ \A k \in 1 .. Len(R[m]) : R[m][k] \in Positive
  BY <1>1, RunsIs
<1>3. l \in Nat /\ l # 0 /\ \A k \in 1 .. l : R[n][k] \in Positive
  BY RunsIs
<1>4. Grown(R, n, m)
  BY <1>1, RunsGrow
<1>5. l <= Len(R[m]) /\ \A a \in Axes : R[n][l][a] <= R[m][l][a]
  BY <1>4 DEF Grown
<1> HIDE DEF l
<1>6. l \in 1 .. Len(R[m]) /\ l \in 1 .. l
  BY <1>2, <1>3, <1>5
<1>7. \A a \in Axes : R[m][l][a] \in Nat
  BY <1>2, <1>6, PositiveIs
<1> QED BY <1>2, <1>3, <1>5, <1>6, <1>7 DEF l

\* Where the n-th child is, s before the end of the last run.
LEMMA SpotIs ==
  ASSUME NEW axis \in Axes, NEW rect, NEW runs, NEW R, NEW n, NEW s
  PROVE  /\ Spot(rect, axis, runs, R, n, s)[axis] = Origin(rect, axis, runs)[axis] + (R[n][Len(R[n])][axis] - s)
         /\ Spot(rect, axis, runs, R, n, s)[Cross(axis)]
              = Origin(rect, axis, runs)[Cross(axis)] + Depth(axis, runs)[Len(R[n]) - 1]
BY DEF Spot, Both, Dim, Axes, Cross

\* A child turns where the layout let it turn.
LEMMA TurnsAlike ==
  ASSUME NEW m \in Nat, NEW axis \in Axes, NEW sizes \in [1 .. m -> Positive], NEW limit \in Int,
         NEW R, IsRuns(R, m, axis, sizes, limit), NEW rect \in Rects,
         WrapRoom(rect, axis, R[m], limit), NEW n \in 1 .. m
  PROVE  Spot(rect, axis, R[m], R, n - 1, 0)[axis] + sizes[n][axis] > SizeOf(rect)[axis]
           <=> Turns(R, n, axis, sizes, limit)
<1> DEFINE o == Origin(rect, axis, R[m])[axis]
           r == SizeOf(rect)[axis]
           t == WrapTotal(axis, R[m])[axis]
           before == R[n - 1][Len(R[n - 1])][axis]
           s == sizes[n][axis]
           l == Len(R[n])
<1>1. n - 1 \in 0 .. m /\ n \in 0 .. m /\ sizes[n] \in Positive
  OBVIOUS
<1>2. R[m] \in Seq(Positive) /\ before \in Nat /\ s \in Nat
  BY <1>1, WrapFacts, PositiveIs
<1>3. o \in Nat /\ r \in Int /\ o + t <= r /\ t \in Nat
  BY <1>2, OriginIs, RunsTotal
<1>4. r <= limit
  BY DEF WrapRoom
<1>5. Spot(rect, axis, R[m], R, n - 1, 0)[axis] = o + (before - 0)
  BY SpotIs
<1>6. Turns(R, n, axis, sizes, limit) <=> before + s > limit
  BY DEF Turns
<1>7. ~Turns(R, n, axis, sizes, limit) => before + s <= t
  <2> SUFFICES ASSUME ~Turns(R, n, axis, sizes, limit) PROVE before + s <= t
    OBVIOUS
  <2>1. NextRun(R, n, axis, sizes, limit, Len(R[n - 1]), l)
    BY RunsNext
  <2>2. R[n][l][axis] = before + s
    BY <2>1 DEF NextRun
  <2>3. l \in 1 .. Len(R[m]) /\ R[n][l][axis] <= R[m][l][axis] /\ R[m][l][axis] \in Nat
    BY <1>1, WrapFacts
  <2>4. R[m][l][axis] <= t
    BY <1>2, <2>3, RunsTotal
  <2> HIDE DEF before, s, t, l
  <2> QED BY <1>2, <1>3, <2>2, <2>3, <2>4
<1> HIDE DEF o, r, t, before, s
<1>8. Spot(rect, axis, R[m], R, n - 1, 0)[axis] + s = o + before + s
  BY <1>2, <1>3, <1>5
<1>9. CASE Turns(R, n, axis, sizes, limit)
  <2>1. o + before + s > r
    BY <1>2, <1>3, <1>4, <1>6, <1>9
  <2> QED BY <1>8, <1>9, <2>1 DEF s, r
<1>10. CASE ~Turns(R, n, axis, sizes, limit)
  <2>1. ~(o + before + s > r)
    BY <1>2, <1>3, <1>7, <1>10
  <2> QED BY <1>8, <1>10, <2>1 DEF s, r
<1> QED BY <1>9, <1>10


LEMMA SpotIn ==
  ASSUME NEW m \in Nat, NEW axis \in Axes, NEW sizes \in [1 .. m -> Positive], NEW limit \in Int,
         NEW R, IsRuns(R, m, axis, sizes, limit), NEW rect \in Rects,
         WrapRoom(rect, axis, R[m], limit), NEW n \in 0 .. m, NEW s \in Int
  PROVE  Spot(rect, axis, R[m], R, n, s) \in Dims
<1> DEFINE spot == Spot(rect, axis, R[m], R, n, s)
           l == Len(R[n])
           o == Origin(rect, axis, R[m])
<1>1. /\ R[m] \in Seq(Positive) /\ l \in 1 .. Len(R[m]) /\ R[n][l] \in Positive
      /\ Cross(axis) \in Axes
  BY WrapFacts, AxisIs
<1>2. R[n][l][axis] \in Nat
  BY <1>1, PositiveIs
<1>3. o[axis] \in Nat /\ o[Cross(axis)] \in Nat
  BY <1>1, OriginIs
<1>4. Depth(axis, R[m])[l - 1] \in Nat
  <2>1. l - 1 \in 0 .. Len(R[m])
    BY <1>1, LenProperties
  <2>2. Depth(axis, R[m]) \in [0 .. Len(R[m]) -> Nat]
    BY <1>1, RunsTotal
  <2> HIDE DEF l
  <2> QED BY <2>1, <2>2
<1>5. /\ spot[axis] = o[axis] + (R[n][l][axis] - s)
      /\ spot[Cross(axis)] = o[Cross(axis)] + Depth(axis, R[m])[l - 1]
  BY SpotIs
<1>6. spot = [x |-> spot["x"], y |-> spot["y"]]
  BY DEF Spot, Both, Dim
<1> HIDE DEF spot, l, o
<1>7. spot[axis] \in Int
  BY <1>2, <1>3, <1>5
<1>8. spot[Cross(axis)] \in Int
  BY <1>3, <1>4, <1>5
<1>9. \A a \in Axes : spot[a] \in Int
  BY <1>7, <1>8, AxisIs
<1>10. spot \in Dims
  BY <1>6, <1>9 DEF Dims, Axes
<1> QED BY <1>10 DEF spot

\* What a child makes of the place for the next one.
WrapStep(axis, size, runs, rect, p) ==
  LET turn == p.next[axis] + size[axis] > SizeOf(rect)[axis]
      at == IF turn THEN Both(LAMBDA a : IF a = axis THEN Origin(rect, axis, runs)[a]
                                         ELSE p.next[a] + runs[p.run][a])
            ELSE p.next
  IN [at |-> at, next |-> [at EXCEPT ![axis] = @ + size[axis]],
      run |-> IF turn THEN p.run + 1 ELSE p.run]

\* The draw turns to the next run where the layout began one.
LEMMA WrapStepIs ==
  ASSUME NEW m \in Nat, NEW axis \in Axes, NEW sizes \in [1 .. m -> Positive], NEW limit \in Int,
         NEW R, IsRuns(R, m, axis, sizes, limit), NEW rect \in Rects,
         WrapRoom(rect, axis, R[m], limit), NEW n \in 1 .. m,
         NEW p, p.next = Spot(rect, axis, R[m], R, n - 1, 0), p.run = Len(R[n - 1])
  PROVE  WrapStep(axis, sizes[n], R[m], rect, p)
           = [at |-> Spot(rect, axis, R[m], R, n, sizes[n][axis]), next |-> Spot(rect, axis, R[m], R, n, 0),
              run |-> Len(R[n])]
<1> DEFINE runs == R[m]
           o == Origin(rect, axis, runs)
           before == Spot(rect, axis, runs, R, n - 1, 0)
           s == sizes[n][axis]
           spot == Spot(rect, axis, runs, R, n, s)
           after == Spot(rect, axis, runs, R, n, 0)
           k == Len(R[n - 1])
           l == Len(R[n])
           turn == p.next[axis] + sizes[n][axis] > SizeOf(rect)[axis]
           turned == Both(LAMBDA a : IF a = axis THEN o[a] ELSE p.next[a] + runs[p.run][a])
           at == IF turn THEN turned ELSE p.next
           C == Depth(axis, runs)
           c == Cross(axis)
<1>1. n - 1 \in 0 .. m /\ n \in 0 .. m /\ sizes[n] \in Positive
  OBVIOUS
<1>2. c \in Axes /\ c # axis
  BY AxisIs
<1>3. s \in Nat
  BY <1>1, PositiveIs
<1>4. before \in Dims /\ spot \in Dims /\ after \in Dims
  BY <1>1, <1>3, SpotIn
<1>5. turn <=> Turns(R, n, axis, sizes, limit)
  BY TurnsAlike
<1>6. /\ before[axis] = o[axis] + (R[n - 1][k][axis] - 0) /\ before[c] = o[c] + C[k - 1]
      /\ spot[axis] = o[axis] + (R[n][l][axis] - s) /\ spot[c] = o[c] + C[l - 1]
      /\ after[axis] = o[axis] + (R[n][l][axis] - 0) /\ after[c] = o[c] + C[l - 1]
  BY SpotIs
<1>7. /\ R[m] \in Seq(Positive) /\ k \in 1 .. Len(R[m]) /\ R[n - 1][k] \in Positive
      /\ l \in 1 .. Len(R[m]) /\ R[n][l] \in Positive
  BY <1>1, WrapFacts
<1>8. /\ Turns(R, n, axis, sizes, limit) => l = k + 1 /\ R[n][l][axis] = s
      /\ ~Turns(R, n, axis, sizes, limit) => l = k /\ R[n][l][axis] = R[n - 1][k][axis] + s
  <2>1. NextRun(R, n, axis, sizes, limit, k, l)
    BY RunsNext
  <2> QED BY <2>1 DEF NextRun
<1>9. o[axis] \in Nat /\ o[c] \in Nat
  BY <1>2, <1>7, OriginIs
<1>10. R[n - 1][k][axis] \in Nat /\ R[n][l][axis] \in Nat
  BY <1>7, PositiveIs
<1>11. k \in Nat /\ C[k - 1] \in Nat /\ C[k] = C[k - 1] + runs[k][c] /\ runs[k][c] \in Nat
  <2>1. Len(R[m]) \in Nat /\ runs[k] \in Positive
    BY <1>7, LenProperties
  <2>2. /\ C \in [0 .. Len(R[m]) -> Nat]
        /\ \A j \in 1 .. Len(R[m]) : C[j] = C[j - 1] + runs[j][c]
    BY <1>7, RunsTotal
  <2>3. runs[k][c] \in Nat
    BY <1>2, <2>1, PositiveIs
  <2> HIDE DEF k, C, runs, c
  <2>4. k - 1 \in 0 .. Len(R[m])
    BY <1>7, <2>1
  <2>5. k \in Nat
    BY <1>7
  <2>6. C[k - 1] \in Nat
    BY <2>2, <2>4
  <2>7. C[k] = C[k - 1] + runs[k][c]
    BY <1>7, <2>2
  <2> QED BY <2>3, <2>5, <2>6, <2>7
<1>12. turned[axis] = o[axis] /\ turned[c] = p.next[c] + runs[p.run][c]
  BY DEF Both, Dim, Axes, Cross
<1>13. turned = [x |-> turned["x"], y |-> turned["y"]]
  BY DEF Both, Dim
<1>14. WrapStep(axis, sizes[n], R[m], rect, p)
         = [at |-> at, next |-> [at EXCEPT ![axis] = @ + s], run |-> IF turn THEN p.run + 1 ELSE p.run]
  BY DEF WrapStep
<1>15. p.next = before /\ p.run = k
  OBVIOUS
<1> HIDE DEF runs, o, before, s, spot, after, k, l, turned, C, c, turn
<1>16. at = spot
  <2>1. CASE turn
    <3>1. l = k + 1 /\ R[n][l][axis] = s
      BY <1>5, <1>8, <2>1
    <3>2. l - 1 = k
      BY <1>11, <3>1
    <3>3. spot[axis] = o[axis]
      BY <1>3, <1>6, <1>9, <3>1
    <3>4. spot[c] = o[c] + (C[k - 1] + runs[k][c])
      BY <1>6, <1>11, <3>2
    <3>5. turned[c] = o[c] + C[k - 1] + runs[k][c]
      BY <1>6, <1>12, <1>15
    <3>6. turned[c] = spot[c]
      BY <1>9, <1>11, <3>4, <3>5
    <3>7. \A a \in Axes : turned[a] = spot[a]
      BY <1>12, <3>3, <3>6, AxisIs DEF c
    <3>8. spot["x"] \in Int /\ spot["y"] \in Int /\ turned["x"] = spot["x"] /\ turned["y"] = spot["y"]
      BY <1>4, <3>7 DEF Axes, Dims
    <3>9. turned \in Dims
      BY <1>13, <3>8 DEF Dims
    <3> QED BY <1>4, <2>1, <3>7, <3>9, AxisIs
  <2>2. CASE ~turn
    <3>1. l = k /\ R[n][l][axis] = R[n - 1][k][axis] + s
      BY <1>5, <1>8, <2>2
    <3>2. spot[axis] = before[axis]
      BY <1>3, <1>6, <1>9, <1>10, <3>1
    <3>3. spot[c] = before[c]
      BY <1>6, <3>1
    <3>4. \A a \in Axes : spot[a] = before[a]
      BY <3>2, <3>3, AxisIs DEF c
    <3>5. spot = before
      BY <1>4, <3>4, AxisIs
    <3> QED BY <1>15, <2>2, <3>5
  <2> QED BY <2>1, <2>2
<1> HIDE DEF at
<1>17. [at EXCEPT ![axis] = @ + s] = after
  <2> DEFINE moved == [spot EXCEPT ![axis] = @ + s]
  <2>1. moved \in Dims
    BY <1>3, <1>4 DEF Dims, Axes
  <2>2. moved[axis] = spot[axis] + s /\ moved[c] = spot[c]
    BY <1>2, <1>4 DEF Dims, Axes
  <2> HIDE DEF moved
  <2>3. moved[axis] = after[axis]
    <3> DEFINE q == o[axis]
               x == R[n][l][axis]
    <3>1. q \in Nat /\ x \in Nat /\ s \in Nat
      BY <1>3, <1>9, <1>10
    <3>2. spot[axis] = q + (x - s) /\ after[axis] = q + (x - 0)
      BY <1>6
    <3> HIDE DEF q, x
    <3>3. q + (x - s) + s = q + (x - 0)
      BY <3>1
    <3> QED BY <2>2, <3>2, <3>3
  <2>4. moved[c] = after[c]
    BY <1>6, <2>2
  <2>5. \A a \in Axes : moved[a] = after[a]
    BY <2>3, <2>4, AxisIs DEF c
  <2>6. moved = after
    BY <1>4, <2>1, <2>5, AxisIs
  <2> QED BY <1>16, <2>6 DEF moved
<1>18. (IF turn THEN p.run + 1 ELSE p.run) = l
  BY <1>5, <1>8, <1>15
<1>19. WrapStep(axis, sizes[n], R[m], rect, p) = [at |-> spot, next |-> after, run |-> l]
  BY <1>14, <1>16, <1>17, <1>18
<1> QED BY <1>19 DEF spot, after, l, runs, s


\* Where the draw is after n children: in the run the layout had put the last of them into.
WrapAt(axis, sizes, R, m, rect, n) ==
  [at |-> Spot(rect, axis, R[m], R, n, IF n = 0 THEN 0 ELSE sizes[n][axis]),
   next |-> Spot(rect, axis, R[m], R, n, 0), run |-> Len(R[n])]

\* So the draw finds every child at the spot the layout kept for it.
LEMMA WrapUpToIs ==
  ASSUME NEW m \in Nat, NEW axis \in Axes, NEW sizes \in [1 .. m -> Positive], NEW limit \in Int,
         NEW R, IsRuns(R, m, axis, sizes, limit), NEW rect \in Rects,
         WrapRoom(rect, axis, R[m], limit), NEW n \in 0 .. m
  PROVE  WrapUpTo(axis, sizes, R[m], rect)[n] = WrapAt(axis, sizes, R, m, rect, n)
<1> DEFINE origin == Origin(rect, axis, R[m])
           start == [at |-> origin, next |-> origin, run |-> 1]
           Step(p, i) == WrapStep(axis, sizes[i], R[m], rect, p)
           Defines(g) == g = [i \in 0 .. m |-> IF i = 0 THEN start ELSE Step(g[i - 1], i)]
           h == [i \in 0 .. m |-> WrapAt(axis, sizes, R, m, rect, i)]
           W == WrapUpTo(axis, sizes, R[m], rect)
<1>0. Len(sizes) = m
  <2>1. sizes \in Seq(Positive) /\ DOMAIN sizes = 1 .. m
    BY SeqDef
  <2> QED BY <2>1, LenProperties
<1>1. WrapAt(axis, sizes, R, m, rect, 0) = start
  <2> DEFINE spot == Spot(rect, axis, R[m], R, 0, 0)
  <2>1. R[0] = << Dim(0, 0) >>
    BY DEF IsRuns
  <2>2. Len(R[0]) = 1 /\ R[0][1] = Dim(0, 0)
    BY <2>1
  <2>3. R[m] \in Seq(Positive) /\ 0 \in 0 .. m
    BY RunsIs
  <2>4. spot \in Dims /\ origin \in Dims
    BY <2>3, SpotIn, OriginIs
  <2>5. spot[axis] = origin[axis] + (R[0][1][axis] - 0) /\ spot[Cross(axis)] = origin[Cross(axis)] + Depth(axis, R[m])[1 - 1]
    BY <2>2, SpotIs
  <2>6. Depth(axis, R[m])[1 - 1] = 0
    BY <2>3, RunsTotal
  <2>7. R[0][1][axis] = 0
    BY <2>2 DEF Dim, Axes
  <2>8. origin[axis] \in Nat /\ origin[Cross(axis)] \in Nat
    BY <2>3, OriginIs, AxisIs
  <2> HIDE DEF spot, origin
  <2>9. \A a \in Axes : spot[a] = origin[a]
    <3>1. ASSUME NEW q \in Nat PROVE q + (0 - 0) = q /\ q + 0 = q
      OBVIOUS
    <3>2. spot[axis] = origin[axis] + (0 - 0) /\ spot[Cross(axis)] = origin[Cross(axis)] + 0
      BY <2>5, <2>6, <2>7
    <3> QED BY <2>8, <3>1, <3>2, AxisIs
  <2>10. spot = origin
    BY <2>4, <2>9, AxisIs
  <2> QED BY <2>2, <2>10 DEF WrapAt, spot
<1>2. \A i \in 1 .. m : Step(WrapAt(axis, sizes, R, m, rect, i - 1), i) = WrapAt(axis, sizes, R, m, rect, i)
  <2>1. ASSUME NEW i \in 1 .. m
        PROVE  Step(WrapAt(axis, sizes, R, m, rect, i - 1), i) = WrapAt(axis, sizes, R, m, rect, i)
    <3> DEFINE p == WrapAt(axis, sizes, R, m, rect, i - 1)
    <3>1. p.next = Spot(rect, axis, R[m], R, i - 1, 0) /\ p.run = Len(R[i - 1])
      BY DEF WrapAt
    <3> HIDE DEF p
    <3>2. WrapStep(axis, sizes[i], R[m], rect, p)
            = [at |-> Spot(rect, axis, R[m], R, i, sizes[i][axis]), next |-> Spot(rect, axis, R[m], R, i, 0),
               run |-> Len(R[i])]
      BY <3>1, WrapStepIs
    <3>3. i # 0
      OBVIOUS
    <3> QED BY <3>2, <3>3 DEF WrapAt, p
  <2> QED BY <2>1
<1>3. \A i \in 1 .. m : i - 1 \in 0 .. m
  OBVIOUS
<1>4. \A i \in 0 .. m : i = 0 \/ i \in 1 .. m
  OBVIOUS
<1>5. W = CHOOSE g : Defines(g)
  BY <1>0 DEF WrapUpTo, WrapStep, Origin
<1> HIDE DEF Step, start, W
<1>6. Defines(h)
  <2>1. ASSUME NEW i \in 0 .. m
        PROVE  WrapAt(axis, sizes, R, m, rect, i) = IF i = 0 THEN start ELSE Step(h[i - 1], i)
    <3>1. CASE i = 0
      BY <1>1, <3>1
    <3>2. CASE i # 0
      <4>1. i \in 1 .. m /\ i - 1 \in 0 .. m
        BY <3>2
      <4>2. h[i - 1] = WrapAt(axis, sizes, R, m, rect, i - 1)
        BY <4>1
      <4> HIDE DEF h
      <4> QED BY <1>2, <3>2, <4>1, <4>2
    <3> QED BY <3>1, <3>2
  <2> QED BY <2>1
<1>7. Defines(W)
  <2> HIDE DEF Defines
  <2> QED BY <1>5, <1>6
<1>8. W[0] = start /\ \A i \in 1 .. m : W[i] = Step(W[i - 1], i)
  BY <1>3, <1>7
<1> DEFINE T == {i \in 0 .. m : W[i] = WrapAt(axis, sizes, R, m, rect, i)}
<1>9. 0 \in T
  BY <1>1, <1>8
<1>10. ASSUME NEW i \in 1 .. m, i - 1 \in T PROVE i \in T
  <2>1. W[i - 1] = WrapAt(axis, sizes, R, m, rect, i - 1)
    BY <1>10
  <2>2. W[i] = WrapAt(axis, sizes, R, m, rect, i)
    BY <1>2, <1>8, <2>1
  <2> QED BY <2>2
<1>11. 0 .. m \subseteq T
  <2> HIDE DEF T
  <2> QED BY <1>9, <1>10, Ascends
<1> QED BY <1>11 DEF W

\* Two children of a wrap: one behind the other, or in runs one under the other.
Apart(r, s, axis) == r.br[axis] < s.tl[axis] \/ r.br[Cross(axis)] < s.tl[Cross(axis)]

LEMMA PlacedAt ==
  ASSUME NEW rect, NEW size, NEW offset, NEW a \in Axes
  PROVE  /\ Placed(rect, size, offset).tl[a] = rect.tl[a] + offset[a]
         /\ Placed(rect, size, offset).br[a] = rect.tl[a] + offset[a] + size[a] - 1
BY DEF Placed, Rect, Both, Dim, Axes

\* A spot is inside of its run and its run is inside of the rectangle.
LEMMA SpotFits ==
  ASSUME NEW m \in Nat, NEW axis \in Axes, NEW sizes \in [1 .. m -> Positive], NEW limit \in Int,
         NEW R, IsRuns(R, m, axis, sizes, limit), NEW rect \in Rects,
         WrapRoom(rect, axis, R[m], limit), NEW i \in 1 .. m,
         NEW spot, spot = Spot(rect, axis, R[m], R, i, sizes[i][axis])
  PROVE  /\ \A a \in Axes : spot[a] \in Nat /\ spot[a] + sizes[i][a] <= SizeOf(rect)[a]
         /\ spot[axis] + sizes[i][axis] = Origin(rect, axis, R[m])[axis] + R[i][Len(R[i])][axis]
         /\ spot[Cross(axis)] + sizes[i][Cross(axis)]
              <= Origin(rect, axis, R[m])[Cross(axis)] + Depth(axis, R[m])[Len(R[i])]
<1> DEFINE o == Origin(rect, axis, R[m])
           l == Len(R[i])
           c == Cross(axis)
           C == Depth(axis, R[m])
           size == SizeOf(rect)
           x == R[i][l][axis]
           s == sizes[i][axis]
           t == sizes[i][c]
<1>1. i \in 0 .. m /\ sizes[i] \in Positive /\ c \in Axes /\ i - 1 \in 0 .. m
  BY AxisIs
<1>2. /\ R[m] \in Seq(Positive) /\ l \in 1 .. Len(R[m]) /\ R[i][l] \in Positive
      /\ \A a \in Axes : R[i][l][a] <= R[m][l][a] /\ R[m][l][a] \in Nat
  BY <1>1, WrapFacts
<1>3. x \in Nat /\ s \in Nat /\ t \in Nat /\ R[i][l][c] \in Nat
  BY <1>1, <1>2, PositiveIs
<1>4. /\ o[axis] \in Nat /\ o[c] \in Nat /\ size[axis] \in Int /\ size[c] \in Int
      /\ o[axis] + WrapTotal(axis, R[m])[axis] <= size[axis]
      /\ o[c] + WrapTotal(axis, R[m])[c] <= size[c]
  BY <1>1, <1>2, OriginIs
<1>5. x <= WrapTotal(axis, R[m])[axis] /\ WrapTotal(axis, R[m])[axis] \in Nat
  <2>1. R[m][l][axis] <= WrapTotal(axis, R[m])[axis] /\ WrapTotal(axis, R[m])[axis] \in Nat
    BY <1>2, RunsTotal
  <2>2. x <= R[m][l][axis] /\ R[m][l][axis] \in Nat
    BY <1>2
  <2> HIDE DEF x
  <2> QED BY <1>3, <2>1, <2>2
<1>6. s <= x
  <2>1. NextRun(R, i, axis, sizes, limit, Len(R[i - 1]), l)
    BY RunsNext
  <2>2. x = s \/ x = R[i - 1][Len(R[i - 1])][axis] + s
    BY <2>1 DEF NextRun
  <2>3. R[i - 1][Len(R[i - 1])][axis] \in Nat
    BY <1>1, WrapFacts, PositiveIs
  <2> HIDE DEF x, s
  <2> QED BY <1>3, <2>2, <2>3
<1>7. t <= R[m][l][c] /\ R[m][l][c] \in Nat
  <2>1. NextRun(R, i, axis, sizes, limit, Len(R[i - 1]), l)
    BY RunsNext
  <2>2. t <= R[i][l][c]
    BY <2>1 DEF NextRun
  <2>3. R[i][l][c] <= R[m][l][c] /\ R[m][l][c] \in Nat
    BY <1>1, <1>2
  <2> HIDE DEF t
  <2> QED BY <1>3, <2>2, <2>3
<1>8. /\ C[l - 1] \in Nat /\ C[l] \in Nat /\ C[l] = C[l - 1] + R[m][l][c]
      /\ C[l] <= WrapTotal(axis, R[m])[c]
  <2> DEFINE len == Len(R[m])
  <2>1. len \in Nat /\ len = Len(R[m])
    BY <1>2, LenProperties
  <2>2. /\ C \in [0 .. len -> Nat] /\ WrapTotal(axis, R[m])[c] = C[len]
        /\ \A k \in 1 .. len : C[k] = C[k - 1] + R[m][k][c]
        /\ \A k \in 0 .. len : \A j \in k .. len : C[k] <= C[j]
    BY <1>2, RunsTotal
  <2>3. l \in 1 .. len
    BY <1>2
  <2> HIDE DEF len, C, l, c
  <2>4. l - 1 \in 0 .. len /\ l \in 0 .. len /\ len \in l .. len
    BY <2>1, <2>3
  <2>5. C[l] = C[l - 1] + R[m][l][c]
    BY <2>2, <2>3
  <2>6. C[l] <= C[len]
    BY <2>2, <2>4
  <2> QED BY <2>2, <2>4, <2>5, <2>6
<1>9. spot[axis] = o[axis] + (x - s) /\ spot[c] = o[c] + C[l - 1]
  BY SpotIs
<1> HIDE DEF o, l, c, C, size, x, s, t
<1>10. spot[axis] \in Nat /\ spot[axis] + s = o[axis] + x /\ spot[axis] + s <= size[axis]
  <2> DEFINE p == o[axis]
             total == WrapTotal(axis, R[m])[axis]
             r == size[axis]
  <2>1. p \in Nat /\ r \in Int /\ p + total <= r /\ x <= total /\ total \in Nat /\ spot[axis] = p + (x - s)
    BY <1>4, <1>5, <1>9
  <2> HIDE DEF p, total, r
  <2>2. p + (x - s) \in Nat /\ p + (x - s) + s = p + x /\ p + x <= r
    BY <1>3, <1>6, <2>1
  <2> QED BY <2>1, <2>2 DEF p, r
<1>11. spot[c] \in Nat /\ spot[c] + t <= o[c] + C[l] /\ spot[c] + t <= size[c]
  <2> DEFINE p == o[c]
             total == WrapTotal(axis, R[m])[c]
             r == size[c]
             d == R[m][l][c]
             q == C[l - 1]
  <2>1. /\ p \in Nat /\ r \in Int /\ p + total <= r /\ q \in Nat /\ C[l] = q + d /\ d \in Nat
        /\ C[l] <= total /\ spot[c] = p + q /\ t <= d
    BY <1>4, <1>7, <1>8, <1>9
  <2>2. total \in Nat
    BY <1>1, <1>2, RunsTotal
  <2> HIDE DEF p, total, r, d, q
  <2>3. p + q \in Nat /\ p + q + t <= p + (q + d)
    BY <1>3, <2>1
  <2>4. q + d <= total
    BY <2>1
  <2>5. p + (q + d) <= r
    BY <2>1, <2>2, <2>4
  <2>6. p + q + t <= r
    BY <1>3, <2>1, <2>3, <2>5
  <2> QED BY <2>1, <2>3, <2>6 DEF p, r
<1>12. \A a \in Axes : spot[a] \in Nat /\ spot[a] + sizes[i][a] <= size[a]
  BY <1>10, <1>11, AxisIs DEF c, s, t
<1> QED BY <1>10, <1>11, <1>12 DEF o, l, c, C, size, x, s, t


LEMMA WrapConsOK ==
  ASSUME NEW c, ConsOK(c), NEW axis \in Axes
  PROVE  ConsOK(WrapCons(c, axis)) /\ \A a \in Axes : WrapCons(c, axis).min[a] = 0
BY UnboundIs DEF ConsOK, WrapCons, Limits, Dims, Axes, Dim

\* A wrap puts its children into its rectangle, apart from each other.
LEMMA WrapPlaces ==
  ASSUME NEW m \in Nat, NEW axis \in Axes, NEW sizes \in [1 .. m -> Positive], NEW limit \in Int, NEW c,
         limit = c.max[axis], NEW rect \in Rects, WrapRoom(rect, axis, Runs(axis, sizes, limit), limit)
  PROVE  /\ \A i \in 1 .. m : Put(WrapRect(rect, c, axis, sizes, i), sizes[i], rect)
         /\ \A i \in 1 .. m : \A j \in i + 1 .. m :
              Apart(WrapRect(rect, c, axis, sizes, i), WrapRect(rect, c, axis, sizes, j), axis)
<1> DEFINE R == RunsUpTo(axis, sizes, limit)
           spot(i) == Spot(rect, axis, R[m], R, i, sizes[i][axis])
           o == Origin(rect, axis, R[m])
           C == Depth(axis, R[m])
           x == Cross(axis)
           r(i) == WrapRect(rect, c, axis, sizes, i)
<1>1. IsRuns(R, m, axis, sizes, limit) /\ Runs(axis, sizes, limit) = R[m]
  BY RunsUpToDef DEF IsRuns
<1>2. ASSUME NEW i \in 1 .. m PROVE r(i) = Placed(rect, sizes[i], spot(i))
  <2>1. WrapUpTo(axis, sizes, Runs(axis, sizes, limit), rect)[i].at = spot(i)
    <3>1. i \in 0 .. m /\ i # 0
      OBVIOUS
    <3> HIDE DEF R
    <3>2. WrapUpTo(axis, sizes, R[m], rect)[i] = WrapAt(axis, sizes, R, m, rect, i)
      BY <1>1, <3>1, WrapUpToIs
    <3> QED BY <1>1, <3>1, <3>2 DEF WrapAt
  <2> HIDE DEF spot, R
  <2> QED BY <2>1 DEF WrapRect
<1> HIDE DEF R
<1>3. WrapRoom(rect, axis, R[m], limit)
  BY <1>1
<1>4. ASSUME NEW i \in 1 .. m
      PROVE  /\ sizes[i] \in Positive /\ sizes[i] \in Dims
             /\ \A a \in Axes : spot(i)[a] \in Nat /\ spot(i)[a] + sizes[i][a] <= SizeOf(rect)[a]
             /\ spot(i)[axis] + sizes[i][axis] = o[axis] + R[i][Len(R[i])][axis]
             /\ spot(i)[x] + sizes[i][x] <= o[x] + C[Len(R[i])]
             /\ spot(i)[axis] = o[axis] + (R[i][Len(R[i])][axis] - sizes[i][axis])
             /\ spot(i)[x] = o[x] + C[Len(R[i]) - 1]
  <2> DEFINE p == spot(i)
  <2>0. sizes[i] \in Positive /\ sizes[i] \in Dims
    BY DEF Positive
  <2>1. p = Spot(rect, axis, R[m], R, i, sizes[i][axis])
    OBVIOUS
  <2> HIDE DEF p
  <2>2. /\ \A a \in Axes : p[a] \in Nat /\ p[a] + sizes[i][a] <= SizeOf(rect)[a]
        /\ p[axis] + sizes[i][axis] = o[axis] + R[i][Len(R[i])][axis]
        /\ p[x] + sizes[i][x] <= o[x] + C[Len(R[i])]
    BY <1>1, <1>3, <2>1, SpotFits
  <2>3. p[axis] = o[axis] + (R[i][Len(R[i])][axis] - sizes[i][axis]) /\ p[x] = o[x] + C[Len(R[i]) - 1]
    BY <2>1, SpotIs
  <2> QED BY <2>0, <2>2, <2>3 DEF p
<1> HIDE DEF spot, o, C, x, r
<1>5. \A i \in 1 .. m : Put(r(i), sizes[i], rect)
  <2>1. ASSUME NEW i \in 1 .. m PROVE Put(r(i), sizes[i], rect)
    <3> DEFINE offset == spot(i)
               size == sizes[i]
    <3>1. size \in Dims
      BY <1>4
    <3>2. \A a \in Axes : offset[a] \in Nat /\ offset[a] + size[a] <= SizeOf(rect)[a]
      BY <1>4
    <3> HIDE DEF offset, size
    <3>3. \A a \in Axes : offset[a] \in Int /\ 0 <= offset[a] /\ offset[a] + size[a] <= SizeOf(rect)[a]
      <4>1. ASSUME NEW a \in Axes PROVE offset[a] \in Int /\ 0 <= offset[a] /\ offset[a] + size[a] <= SizeOf(rect)[a]
        BY <3>2
      <4> QED BY <4>1
    <3>4. Put(Placed(rect, size, offset), size, rect)
      BY <3>1, <3>3, PlacedIs
    <3> QED BY <1>2, <3>4 DEF offset, size
  <2> QED BY <2>1
<1>6. ASSUME NEW i \in 1 .. m, NEW j \in i + 1 .. m PROVE Apart(r(i), r(j), axis)
  <2> DEFINE k == Len(R[i])
             h == j - 1
             l == Len(R[h])
             n == Len(R[j])
  <2>1. j \in 1 .. m /\ h \in 0 .. m /\ i \in 0 .. m /\ h \in i .. m /\ j \in 0 .. m /\ h = j - 1
    OBVIOUS
  <2>2. Grown(R, i, h)
    BY <1>1, <2>1, RunsGrow
  <2>3. k <= l /\ \A a \in Axes : R[i][k][a] <= R[h][k][a]
    BY <2>2 DEF Grown
  <2>4. NextRun(R, j, axis, sizes, limit, l, n)
    BY <1>1, <2>1, RunsNext
  <2>5. /\ Turns(R, j, axis, sizes, limit) => n = l + 1
        /\ ~Turns(R, j, axis, sizes, limit) => n = l /\ R[j][n][axis] = R[h][l][axis] + sizes[j][axis]
    BY <2>4 DEF NextRun
  <2>6. /\ R[m] \in Seq(Positive) /\ k \in 1 .. Len(R[m]) /\ n \in 1 .. Len(R[m]) /\ l \in 1 .. Len(R[m])
        /\ R[i][k] \in Positive /\ R[j][n] \in Positive /\ R[h][l] \in Positive
    BY <1>1, <2>1, WrapFacts
  <2>7. x \in Axes
    BY AxisIs DEF x
  <2>8. rect.tl[axis] \in Int /\ rect.tl[x] \in Int /\ o[axis] \in Nat /\ o[x] \in Nat
    BY <1>3, <2>6, <2>7, SizeOfAt, OriginIs DEF o
  <2>9. /\ r(i).br[axis] = rect.tl[axis] + spot(i)[axis] + sizes[i][axis] - 1
        /\ r(i).br[x] = rect.tl[x] + spot(i)[x] + sizes[i][x] - 1
        /\ r(j).tl[axis] = rect.tl[axis] + spot(j)[axis]
        /\ r(j).tl[x] = rect.tl[x] + spot(j)[x]
    BY <1>2, <2>1, <2>7, PlacedAt
  <2>10. \A a \in Axes : sizes[i][a] \in Nat /\ sizes[j][a] \in Nat /\ spot(i)[a] \in Nat /\ spot(j)[a] \in Nat
    BY <1>4, <2>1, PositiveIs
  <2> HIDE DEF k, l, h, n
  <2>11. CASE k = n
    <3>1. n = l /\ ~Turns(R, j, axis, sizes, limit)
      BY <2>3, <2>5, <2>6, <2>11
    <3>2. /\ R[j][n][axis] = R[h][l][axis] + sizes[j][axis] /\ R[i][k][axis] <= R[h][l][axis]
          /\ R[h][l][axis] \in Nat /\ R[i][k][axis] \in Nat
      BY <2>3, <2>5, <2>6, <2>11, <3>1, PositiveIs
    <3> DEFINE e == spot(i)[axis] + sizes[i][axis]
               b == spot(j)[axis]
    <3>3. e = o[axis] + R[i][k][axis]
      BY <1>4 DEF k
    <3>4. b = o[axis] + (R[j][n][axis] - sizes[j][axis])
      BY <1>4, <2>1 DEF n
    <3>5. e \in Int /\ b \in Int
      BY <2>10
    <3>6. e <= b
      <4> DEFINE p == o[axis]
                 u == R[i][k][axis]
                 v == R[h][l][axis]
                 s == sizes[j][axis]
      <4>1. p \in Nat /\ u \in Nat /\ v \in Nat /\ s \in Nat /\ u <= v /\ e = p + u /\ b = p + (v + s - s)
        BY <2>8, <2>10, <3>2, <3>3, <3>4
      <4> HIDE DEF p, u, v, s, e, b
      <4> QED BY <4>1
    <3>7. rect.tl[axis] + spot(i)[axis] + sizes[i][axis] - 1 = rect.tl[axis] + e - 1
      <4> DEFINE p == rect.tl[axis]
                 u == spot(i)[axis]
                 v == sizes[i][axis]
      <4>1. p \in Int /\ u \in Int /\ v \in Int /\ e = u + v
        BY <2>8, <2>10
      <4> HIDE DEF p, u, v, e
      <4>2. p + u + v - 1 = p + (u + v) - 1
        BY <4>1, EndsAt
      <4> QED BY <4>1, <4>2 DEF p, u, v
    <3> HIDE DEF e, b
    <3>8. rect.tl[axis] + e - 1 < rect.tl[axis] + b
      BY <2>8, <3>5, <3>6, EndsBefore
    <3>9. r(i).br[axis] < r(j).tl[axis]
      BY <2>9, <3>7, <3>8 DEF b
    <3> QED BY <3>9 DEF Apart
  <2>12. CASE k # n
    <3>1. k \in Nat /\ n \in Nat /\ k <= n - 1 /\ l \in Nat
      <4>1. k \in Nat /\ n \in Nat /\ l \in Nat
        BY <2>6
      <4>2. n = l \/ n = l + 1
        BY <2>5
      <4> QED BY <2>3, <2>12, <4>1, <4>2
    <3>2. C[k] <= C[n - 1] /\ C[k] \in Nat /\ C[n - 1] \in Nat
      <4> DEFINE len == Len(R[m])
      <4>1. len \in Nat /\ len = Len(R[m]) /\ k \in 1 .. len /\ n \in 1 .. len
        BY <2>6, LenProperties
      <4>2. C \in [0 .. len -> Nat] /\ \A q \in 0 .. len : \A p \in q .. len : C[q] <= C[p]
        BY <2>6, RunsTotal DEF C
      <4> HIDE DEF len
      <4>3. k \in 0 .. len /\ n - 1 \in 0 .. len /\ n - 1 \in k .. len
        BY <3>1, <4>1
      <4> QED BY <4>2, <4>3
    <3> DEFINE e == spot(i)[x] + sizes[i][x]
               b == spot(j)[x]
    <3>3. e <= o[x] + C[k]
      BY <1>4 DEF k
    <3>4. b = o[x] + C[n - 1]
      BY <1>4, <2>1 DEF n
    <3>5. e \in Int /\ b \in Int
      BY <2>7, <2>10
    <3>6. rect.tl[x] + spot(i)[x] + sizes[i][x] - 1 = rect.tl[x] + e - 1
      <4> DEFINE p == rect.tl[x]
                 u == spot(i)[x]
                 v == sizes[i][x]
      <4>1. p \in Int /\ u \in Int /\ v \in Int /\ e = u + v
        BY <2>7, <2>8, <2>10
      <4> HIDE DEF p, u, v, e
      <4>2. p + u + v - 1 = p + (u + v) - 1
        BY <4>1, EndsAt
      <4> QED BY <4>1, <4>2 DEF p, u, v
    <3> HIDE DEF e, b
    <3>7. e <= b
      <4> DEFINE p == o[x]
                 u == C[k]
                 v == C[n - 1]
      <4>1. p \in Nat /\ u \in Nat /\ v \in Nat /\ u <= v /\ e <= p + u /\ b = p + v /\ e \in Int
        BY <2>8, <3>2, <3>3, <3>4, <3>5
      <4> HIDE DEF p, u, v
      <4> QED BY <4>1
    <3>8. rect.tl[x] + e - 1 < rect.tl[x] + b
      BY <2>8, <3>5, <3>7, EndsBefore
    <3>9. r(i).br[x] < r(j).tl[x]
      BY <2>9, <3>6, <3>8 DEF b
    <3> QED BY <3>9 DEF Apart, x
  <2> QED BY <2>11, <2>12
<1> QED BY <1>5, <1>6 DEF r


------------------------------------------------------------------------------
(* All widgets                                                                *)

\* A child that is not laid out by what its siblings leave.
Alone(w, i) == ~(w.kind = "flex" /\ w.flexes[i] # 0)
\* Every child, or every one that is alone, has a size that keeps what was asked of it.
KeptAlone(w, c, sizes) == \A i \in DOMAIN sizes : Alone(w, i) => SizeOK(ChildCons(w, c, i, sizes), sizes[i])
Kept(w, c, sizes) == \A i \in DOMAIN sizes : SizeOK(ChildCons(w, c, i, sizes), sizes[i])

\* What HasRoom says of a flex.
LEMMA FlexRooms ==
  ASSUME NEW n \in Nat, NEW w, WidgetOK(w, n), w.kind = "flex", NEW c, NEW sizes \in [1 .. n -> Dims],
         HasRoom(w, c, sizes), KeptAlone(w, c, sizes)
  PROVE  /\ w.axis \in Axes /\ w.flexes \in [1 .. n -> Nat] /\ FlexFits(c, w.axis, w.flexes, sizes)
         /\ Kept(w, c, sizes) => FlexKept(c, w.axis, w.flexes, sizes)
<1>1. w.axis \in Axes /\ w.flexes \in [1 .. n -> Nat]
  BY DEF WidgetOK, Through, Bordered
<1>2. \A i \in DOMAIN sizes : ChildCons(w, c, i, sizes)
        = IF w.flexes[i] = 0 THEN FlexCons(c, w.axis)
          ELSE ExpandedCons(c, w.axis, w.flexes, i, Used(w.axis, w.flexes, sizes))
  BY DEF ChildCons, Through, Bordered
<1>3. IF Bounded(c, w.axis) THEN Used(w.axis, w.flexes, sizes) <= c.max[w.axis]
      ELSE Used(w.axis, w.flexes, sizes) < Unbound /\ \A i \in DOMAIN w.flexes : w.flexes[i] = 0
  BY DEF HasRoom
<1>4. FlexFits(c, w.axis, w.flexes, sizes)
  BY <1>2, <1>3 DEF FlexFits, KeptAlone, Alone
<1>5. Kept(w, c, sizes) => FlexKept(c, w.axis, w.flexes, sizes)
  BY <1>2 DEF Kept, FlexKept
<1> QED BY <1>1, <1>4, <1>5

\* What is asked of a child whatever the others are is sound.
LEMMA ChildConsAlone ==
  ASSUME NEW n \in Nat, NEW w, WidgetOK(w, n), NEW c, ConsOK(c), NEW sizes \in [1 .. n -> Dims],
         HasRoom(w, c, sizes), NEW i \in 1 .. n, Alone(w, i)
  PROVE  ConsOK(ChildCons(w, c, i, sizes))
<1>1. CASE w.kind \in Through \union {"stack"}
  BY <1>1 DEF ChildCons, Through, Bordered
<1>2. CASE w.kind \in {"center", "corner"}
  <2>1. ChildCons(w, c, i, sizes) = Loose(c)
    BY <1>2 DEF ChildCons, Through, Bordered
  <2> QED BY <2>1, LooseOK
<1>3. CASE w.kind = "positioned"
  <2>1. ChildCons(w, c, i, sizes) = PositionedCons(c, w.pos)
    BY <1>3 DEF ChildCons, Through, Bordered
  <2>2. w.pos \in Dims
    BY <1>3 DEF WidgetOK, Through, Bordered, Dims
  <2>3. \A a \in Axes : w.pos[a] >= 0 /\ w.pos[a] <= IF Bounded(c, a) THEN c.max[a] ELSE 0
    BY <1>3 DEF HasRoom
  <2> QED BY <2>1, <2>2, <2>3, PositionedOK
<1>4. CASE w.kind \in Bordered
  <2>1. ChildCons(w, c, i, sizes) = Inset(c, w.inset) /\ w.inset \in Nat
    BY <1>4 DEF ChildCons, WidgetOK, Through, Bordered
  <2> QED BY <2>1, BorderedOK
<1>5. CASE w.kind = "sized"
  <2>1. ChildCons(w, c, i, sizes) = SizedCons(c, w.dim)
    BY <1>5 DEF ChildCons, Through, Bordered
  <2>2. w.dim \in Dims /\ \A a \in Axes : w.dim[a] < Unbound
    BY <1>5 DEF WidgetOK, Through, Bordered, Dims
  <2> QED BY <2>1, <2>2, SizedOK
<1>6. CASE w.kind = "flex"
  <2>1. ChildCons(w, c, i, sizes) = FlexCons(c, w.axis) /\ w.axis \in Axes
    BY <1>6 DEF ChildCons, WidgetOK, Alone, Through, Bordered
  <2> QED BY <2>1, FlexConsOK
<1>7. CASE w.kind = "wrap"
  <2>1. ChildCons(w, c, i, sizes) = WrapCons(c, w.axis) /\ w.axis \in Axes
    BY <1>7 DEF ChildCons, WidgetOK, Through, Bordered
  <2> QED BY <2>1, WrapConsOK
<1>8. CASE n = 0
  BY <1>8
<1> QED BY <1>1, <1>2, <1>3, <1>4, <1>5, <1>6, <1>7, <1>8 DEF WidgetOK

\* What is asked of every child is, when those that are asked first keep it.
LEMMA ChildConsShared ==
  ASSUME NEW n \in Nat, NEW w, WidgetOK(w, n), NEW c, ConsOK(c), NEW sizes \in [1 .. n -> Dims],
         HasRoom(w, c, sizes), KeptAlone(w, c, sizes), NEW i \in 1 .. n
  PROVE  ConsOK(ChildCons(w, c, i, sizes))
<1>1. CASE Alone(w, i)
  BY <1>1, ChildConsAlone
<1>2. CASE ~Alone(w, i)
  <2>1. w.kind = "flex" /\ w.flexes[i] # 0
    BY <1>2 DEF Alone
  <2>2. w.axis \in Axes /\ w.flexes \in [1 .. n -> Nat] /\ FlexFits(c, w.axis, w.flexes, sizes)
    BY <2>1, FlexRooms
  <2>3. ChildCons(w, c, i, sizes) = ExpandedCons(c, w.axis, w.flexes, i, Used(w.axis, w.flexes, sizes))
    BY <2>1 DEF ChildCons, Through, Bordered
  <2> QED BY <2>1, <2>2, <2>3, ExpandedOK
<1> QED BY <1>1, <1>2

\* Texts and images keep their constraints.
LEMMA LeavesOK ==
  ASSUME NEW c, ConsOK(c), NEW dim \in Dims, \A a \in Axes : dim[a] >= 0 /\ dim[a] < Unbound
  PROVE  SizeOK(c, TextSize(c, dim)) /\ SizeOK(c, ImageSize(c, dim))
<1>1. SizeOK(c, TextSize(c, dim))
  BY UnboundIs DEF ConsOK, SizeOK, Fits, Dims, Axes, TextSize, Both, Dim
<1>2. SizeOK(c, ImageSize(c, dim))
  BY UnboundIs DEF ConsOK, SizeOK, Fits, Dims, Axes, ImageSize, Clamped, Both, Dim
<1> QED BY <1>1, <1>2

LEMMA ColoredOK ==
  ASSUME NEW c, ConsOK(c)
  PROVE  SizeOK(c, ColoredSize(c))
BY UnboundIs DEF ConsOK, SizeOK, Fits, Dims, Axes, ColoredSize, Both, Dim

\* All there is, where there is a limit, or as little as is asked.
LEMMA FullOK ==
  ASSUME NEW c, ConsOK(c)
  PROVE  SizeOK(c, c.min) /\ ((\A a \in Axes : Bounded(c, a)) => SizeOK(c, c.max))
BY UnboundIs DEF ConsOK, SizeOK, Fits, Dims, Axes, Bounded


\* A wrap has a size that keeps its constraints, and holds its runs.
LEMMA WrapOK ==
  ASSUME NEW n \in Nat, NEW c, ConsOK(c), NEW axis \in Axes, NEW sizes \in [1 .. n -> Dims],
         \A i \in 1 .. n : SizeOK(WrapCons(c, axis), sizes[i]),
         NEW runs, runs = Runs(axis, sizes, c.max[axis]),
         \A a \in Axes : WrapTotal(axis, runs)[a] <= c.max[a] /\ WrapTotal(axis, runs)[a] < Unbound
  PROVE  /\ SizeOK(c, WrapSize(c, axis, sizes)) /\ sizes \in [1 .. n -> Positive] /\ runs \in Seq(Positive)
         /\ \A a \in Axes : WrapTotal(axis, runs)[a] <= WrapSize(c, axis, sizes)[a]
<1> DEFINE total == WrapTotal(axis, runs)
           size == WrapSize(c, axis, sizes)
<1>1. sizes \in [1 .. n -> Positive]
  <2>1. ASSUME NEW i \in 1 .. n PROVE sizes[i] \in Positive
    <3>1. \A a \in Axes : 0 <= sizes[i][a]
      BY SizeIs, WrapConsOK
    <3> QED BY <3>1 DEF Positive
  <2> QED BY <2>1
<1>2. runs \in Seq(Positive)
  <2>1. c.max[axis] \in Int
    BY ConsIs
  <2>2. /\ RunsUpTo(axis, sizes, c.max[axis]) \in [0 .. n -> Some(Positive)]
        /\ runs = RunsUpTo(axis, sizes, c.max[axis])[n]
    BY <1>1, <2>1, RunsUpToDef
  <2> QED BY <2>2 DEF Some
<1>3. \A a \in Axes : total[a] \in Nat /\ total[a] <= c.max[a] /\ total[a] < Unbound
  BY <1>2, RunsTotal
<1>4. size = [x |-> size["x"], y |-> size["y"]] /\ \A a \in Axes : size[a] = Larger(total[a], c.min[a])
  BY DEF WrapSize, Both, Dim, Axes
<1> HIDE DEF total, size
<1>5. size \in Dims
  <2>1. ASSUME NEW a \in Axes PROVE size[a] \in Int
    BY <1>3, <1>4, ConsIs DEF Larger
  <2> QED BY <1>4, <2>1 DEF Dims, Axes
<1>6. SizeOK(c, size) /\ \A a \in Axes : total[a] <= size[a]
  BY <1>3, <1>4, <1>5, HoldsOK
<1> QED BY <1>1, <1>2, <1>6 DEF total, size

\* A widget keeps its constraints when its children keep what it asks of them.
LEMMA WidgetSizeOK ==
  ASSUME NEW n \in Nat, NEW w, WidgetOK(w, n), NEW c, ConsOK(c), NEW sizes \in [1 .. n -> Dims],
         HasRoom(w, c, sizes), Kept(w, c, sizes)
  PROVE  SizeOK(c, WidgetSize(w, c, sizes))
<1>0. \A i \in 1 .. n : SizeOK(ChildCons(w, c, i, sizes), sizes[i])
  BY DEF Kept
<1>1. CASE w.kind \in Through
  <2>1. n = 1 /\ ChildCons(w, c, 1, sizes) = c /\ WidgetSize(w, c, sizes) = sizes[1]
    BY <1>1 DEF ChildCons, WidgetSize, WidgetOK, Through, Bordered
  <2> QED BY <1>0, <2>1
<1>2. CASE w.kind \in {"center", "corner"}
  <2>1. /\ n = 1 /\ ChildCons(w, c, 1, sizes) = Loose(c)
        /\ (WidgetSize(w, c, sizes) = CenterSize(c, sizes[1]) \/ WidgetSize(w, c, sizes) = CornerSize(c, sizes[1]))
    BY <1>2 DEF ChildCons, WidgetSize, WidgetOK, Through, Bordered
  <2>2. SizeOK(Loose(c), sizes[1])
    BY <1>0, <2>1
  <2> QED BY <2>1, <2>2, CenterOK
<1>3. CASE w.kind = "positioned"
  <2>1. n = 1 /\ w.pos \in Dims
    BY <1>3 DEF WidgetOK, Through, Bordered, Dims
  <2>2. ChildCons(w, c, 1, sizes) = PositionedCons(c, w.pos) /\ WidgetSize(w, c, sizes) = PositionedSize(c, sizes[1])
    BY <1>3 DEF ChildCons, WidgetSize, Through, Bordered
  <2>3. \A a \in Axes : w.pos[a] >= 0 /\ w.pos[a] <= IF Bounded(c, a) THEN c.max[a] ELSE 0
    BY <1>3 DEF HasRoom
  <2>4. SizeOK(PositionedCons(c, w.pos), sizes[1])
    BY <1>0, <2>1, <2>2
  <2> QED BY <2>1, <2>2, <2>3, <2>4, PositionedOK
<1>4. CASE w.kind \in Bordered
  <2>1. n = 1 /\ w.inset \in Nat
    BY <1>4 DEF WidgetOK, Through, Bordered
  <2>2. ChildCons(w, c, 1, sizes) = Inset(c, w.inset) /\ WidgetSize(w, c, sizes) = Expand(c, sizes[1], w.inset)
    BY <1>4 DEF ChildCons, WidgetSize, Through, Bordered
  <2>3. \A a \in Axes : IF Bounded(c, a) THEN 2 * w.inset <= c.max[a] ELSE sizes[1][a] + 2 * w.inset < Unbound
    BY <1>4 DEF HasRoom
  <2>4. SizeOK(Inset(c, w.inset), sizes[1])
    BY <1>0, <2>1, <2>2
  <2> QED BY <2>1, <2>2, <2>3, <2>4, BorderedOK
<1>5. CASE w.kind = "sized"
  <2>1. n = 1 /\ w.dim \in Dims /\ \A a \in Axes : w.dim[a] < Unbound
    BY <1>5 DEF WidgetOK, Through, Bordered, Dims
  <2>2. ChildCons(w, c, 1, sizes) = SizedCons(c, w.dim) /\ WidgetSize(w, c, sizes) = sizes[1]
    BY <1>5 DEF ChildCons, WidgetSize, Through, Bordered
  <2>3. SizeOK(SizedCons(c, w.dim), sizes[1])
    BY <1>0, <2>1, <2>2
  <2> QED BY <2>1, <2>2, <2>3, SizedOK
<1>6. CASE w.kind = "stack"
  <2>1. \A i \in 1 .. n : ChildCons(w, c, i, sizes) = c
    BY <1>6 DEF ChildCons, Through, Bordered
  <2>2. WidgetSize(w, c, sizes) = StackSize(c, sizes)
    BY <1>6 DEF WidgetSize, Through, Bordered
  <2>3. \A i \in 1 .. n : SizeOK(c, sizes[i])
    BY <1>0, <2>1
  <2> QED BY <2>2, <2>3, StackOK
<1>7. CASE w.kind = "flex"
  <2>1. KeptAlone(w, c, sizes)
    BY DEF Kept, KeptAlone
  <2>2. /\ w.axis \in Axes /\ w.flexes \in [1 .. n -> Nat] /\ FlexFits(c, w.axis, w.flexes, sizes)
        /\ FlexKept(c, w.axis, w.flexes, sizes)
    BY <1>7, <2>1, FlexRooms
  <2>3. WidgetSize(w, c, sizes) = FlexSize(c, w.axis, sizes)
    BY <1>7 DEF WidgetSize, Through, Bordered
  <2> QED BY <2>2, <2>3, FlexOK
<1>8. CASE w.kind = "wrap"
  <2> DEFINE runs == Runs(w.axis, sizes, c.max[w.axis])
  <2>1. w.axis \in Axes
    BY <1>8 DEF WidgetOK, Through, Bordered
  <2>2. \A i \in 1 .. n : ChildCons(w, c, i, sizes) = WrapCons(c, w.axis)
    BY <1>8 DEF ChildCons, Through, Bordered
  <2>3. WidgetSize(w, c, sizes) = WrapSize(c, w.axis, sizes)
    BY <1>8 DEF WidgetSize, Through, Bordered
  <2>4. \A a \in Axes : WrapTotal(w.axis, runs)[a] <= c.max[a] /\ WrapTotal(w.axis, runs)[a] < Unbound
    BY <1>8 DEF HasRoom
  <2>5. \A i \in 1 .. n : SizeOK(WrapCons(c, w.axis), sizes[i])
    BY <1>0, <2>2
  <2>6. runs = Runs(w.axis, sizes, c.max[w.axis])
    OBVIOUS
  <2> HIDE DEF runs
  <2> QED BY <2>1, <2>3, <2>4, <2>5, <2>6, WrapOK
<1>9. CASE w.kind \in {"text", "image"}
  <2>1. w.dim \in Dims /\ \A a \in Axes : w.dim[a] >= 0 /\ w.dim[a] < Unbound
    BY <1>9, UnboundIs DEF WidgetOK, Through, Bordered, Dims
  <2>2. WidgetSize(w, c, sizes) = TextSize(c, w.dim) \/ WidgetSize(w, c, sizes) = ImageSize(c, w.dim)
    BY <1>9 DEF WidgetSize, Through, Bordered
  <2> QED BY <2>1, <2>2, LeavesOK
<1>10. CASE w.kind = "colored"
  <2>1. WidgetSize(w, c, sizes) = ColoredSize(c)
    BY <1>10 DEF WidgetSize, Through, Bordered
  <2> QED BY <2>1, ColoredOK
<1>11. CASE w.kind \in {"lcd", "blank"}
  <2>1. (WidgetSize(w, c, sizes) = c.max /\ \A a \in Axes : Bounded(c, a)) \/ WidgetSize(w, c, sizes) = c.min
    BY <1>11 DEF WidgetSize, WidgetOK, HasRoom, BlankSize, Through, Bordered
  <2> QED BY <2>1, FullOK
<1> QED BY <1>1, <1>2, <1>3, <1>4, <1>5, <1>6, <1>7, <1>8, <1>9, <1>10, <1>11 DEF WidgetOK


------------------------------------------------------------------------------
(* Where children are drawn                                                   *)

LEMMA CenterRectIs ==
  ASSUME NEW rect \in Rects, NEW size \in Dims, \A a \in Axes : size[a] <= SizeOf(rect)[a]
  PROVE  Put(CenterRect(rect, size), size, rect)
<1> DEFINE offset == Both(LAMBDA a : Half(SizeOf(rect)[a] - size[a]))
<1>1. \A a \in Axes : offset[a] = Half(SizeOf(rect)[a] - size[a])
  BY DEF Both, Dim, Axes
<1>2. CenterRect(rect, size) = Placed(rect, size, offset)
  BY DEF CenterRect
<1> HIDE DEF offset
<1>3. ASSUME NEW a \in Axes
      PROVE  offset[a] \in Int /\ 0 <= offset[a] /\ offset[a] + size[a] <= SizeOf(rect)[a]
  <2> DEFINE r == SizeOf(rect)[a]
             s == size[a]
             d == r - s
  <2>1. r \in Int /\ s \in Int /\ s <= r
    BY SizeOfAt, AxisIs
  <2> HIDE DEF r, s
  <2>2. d \in Int /\ d >= 0
    BY <2>1
  <2>3. Half(d) \in Int /\ 0 <= Half(d) /\ Half(d) <= d
    <3> HIDE DEF d
    <3> QED BY <2>2, HalfIs
  <2>4. Half(d) + s <= r
    BY <2>1, <2>3
  <2> QED BY <1>1, <2>3, <2>4 DEF r, s
<1> QED BY <1>2, <1>3, PlacedIs

LEMMA CornerRectIs ==
  ASSUME NEW rect \in Rects, NEW size \in Dims, \A a \in Axes : size[a] <= SizeOf(rect)[a], NEW corner
  PROVE  Put(CornerRect(rect, size, corner), size, rect)
<1> DEFINE gap(a) == SizeOf(rect)[a] - size[a]
           offset == Dim(IF corner \in {1, 2} THEN gap("x") ELSE 0, IF corner \in {2, 3} THEN gap("y") ELSE 0)
<1>1. \A a \in Axes : offset[a] = 0 \/ offset[a] = gap(a)
  BY DEF Dim, Axes
<1>2. CornerRect(rect, size, corner) = Placed(rect, size, offset)
  BY DEF CornerRect, Both, Dim
<1> HIDE DEF offset
<1>3. ASSUME NEW a \in Axes
      PROVE  offset[a] \in Int /\ 0 <= offset[a] /\ offset[a] + size[a] <= SizeOf(rect)[a]
  <2> DEFINE r == SizeOf(rect)[a]
             s == size[a]
  <2>1. r \in Int /\ s \in Int /\ s <= r
    BY SizeOfAt, AxisIs
  <2>2. offset[a] = 0 \/ offset[a] = r - s
    BY <1>1
  <2> HIDE DEF r, s
  <2>3. offset[a] \in Int /\ 0 <= offset[a] /\ offset[a] + s <= r
    BY <2>1, <2>2
  <2> QED BY <2>3 DEF r, s
<1> QED BY <1>2, <1>3, PlacedIs

LEMMA ShrinkIs ==
  ASSUME NEW rect \in Rects, NEW size \in Dims, NEW inset \in Nat,
         \A a \in Axes : SizeOf(rect)[a] = size[a] + 2 * inset
  PROVE  Put(Shrink(rect, inset), size, rect)
<1> DEFINE r == Shrink(rect, inset)
<1>1. r \in Rects
  BY DEF Shrink, Both, Dim, Rects, Dims
<1>2. \A a \in Axes : r.tl[a] = rect.tl[a] + inset /\ r.br[a] = rect.br[a] - inset
  BY DEF Shrink, Both, Dim, Axes
<1> HIDE DEF r
<1>3. ASSUME NEW a \in Axes
      PROVE  SizeOf(r)[a] = size[a] /\ rect.tl[a] <= r.tl[a] /\ r.br[a] <= rect.br[a]
  <2> DEFINE p == rect.tl[a]
             q == rect.br[a]
             s == size[a]
  <2>1. p \in Int /\ q \in Int /\ s \in Int /\ q - p + 1 = s + 2 * inset
    BY SizeOfAt, AxisIs
  <2>2. r.tl[a] = p + inset /\ r.br[a] = q - inset /\ SizeOf(r)[a] = r.br[a] - r.tl[a] + 1
    BY <1>1, <1>2, SizeOfAt
  <2> HIDE DEF p, q, s
  <2>3. (q - inset) - (p + inset) + 1 = s /\ p <= p + inset /\ q - inset <= q
    BY <2>1
  <2> QED BY <2>2, <2>3 DEF p, q, s
<1>4. SizeOf(r) = size
  <2>1. SizeOf(r) \in Dims
    BY <1>1, SizeOfAt DEF Axes
  <2> QED BY <1>3, <2>1, AxisIs
<1> QED BY <1>1, <1>3, <1>4 DEF Put, Within, r

\* A widget without a margin draws its child where it is itself.
LEMMA WithinItself ==
  ASSUME NEW rect \in Rects
  PROVE  Put(rect, SizeOf(rect), rect)
<1>1. ASSUME NEW a \in Axes PROVE rect.tl[a] <= rect.tl[a] /\ rect.br[a] <= rect.br[a]
  BY SizeOfAt
<1> QED BY <1>1 DEF Put, Within

LEMMA StackRectIs ==
  ASSUME NEW rect \in Rects, NEW size \in Dims, \A a \in Axes : size[a] <= SizeOf(rect)[a]
  PROVE  Put(Rect(rect.tl, size), size, rect)
<1> DEFINE r == Rect(rect.tl, size)
<1>1. rect.tl \in Dims
  BY DEF Rects
<1>2. r \in Rects /\ SizeOf(r) = size /\ r.tl = rect.tl /\ \A a \in Axes : r.br[a] = rect.tl[a] + size[a] - 1
  BY <1>1, RectIs
<1> HIDE DEF r
<1>3. ASSUME NEW a \in Axes PROVE rect.tl[a] <= r.tl[a] /\ r.br[a] <= rect.br[a]
  <2>1. /\ rect.tl[a] \in Int /\ rect.br[a] \in Int /\ SizeOf(rect)[a] = rect.br[a] - rect.tl[a] + 1
        /\ size[a] \in Int
    BY SizeOfAt, AxisIs
  <2> QED BY <1>2, <2>1
<1> QED BY <1>2, <1>3 DEF Put, Within, r

\* A child has its size on the screen, within its parent's rectangle.
LEMMA ChildRectOK ==
  ASSUME NEW n \in Nat, NEW w, WidgetOK(w, n), NEW c, ConsOK(c), NEW sizes \in [1 .. n -> Dims],
         HasRoom(w, c, sizes), Kept(w, c, sizes),
         NEW rect \in Rects, SizeOf(rect) = WidgetSize(w, c, sizes), NEW i \in 1 .. n
  PROVE  /\ Put(ChildRect(w, c, rect, sizes, i), sizes[i], rect)
         /\ w.kind \in {"flex", "wrap"} =>
              \A j \in i + 1 .. n :
                Apart(ChildRect(w, c, rect, sizes, i), ChildRect(w, c, rect, sizes, j), w.axis)
<1>0. SizeOK(ChildCons(w, c, i, sizes), sizes[i]) /\ sizes[i] \in Dims
  BY DEF Kept
<1>1. CASE w.kind \in Through \union {"sized"}
  <2>1. n = 1 /\ ChildRect(w, c, rect, sizes, 1) = rect /\ WidgetSize(w, c, sizes) = sizes[1]
    BY <1>1 DEF ChildRect, WidgetSize, WidgetOK, Through, Bordered
  <2>2. i = 1
    BY <2>1
  <2>3. w.kind \notin {"flex", "wrap"}
    BY <1>1 DEF Through
  <2> QED BY <2>1, <2>2, <2>3, WithinItself
<1>2. CASE w.kind \in {"center", "corner"}
  <2>1. /\ ChildCons(w, c, i, sizes) = Loose(c) /\ n = 1
        /\ (WidgetSize(w, c, sizes) = CenterSize(c, sizes[1]) \/ WidgetSize(w, c, sizes) = CornerSize(c, sizes[1]))
        /\ \/ ChildRect(w, c, rect, sizes, i) = CenterRect(rect, sizes[i])
           \/ ChildRect(w, c, rect, sizes, i) = CornerRect(rect, sizes[i], w.corner)
    BY <1>2 DEF ChildCons, WidgetSize, ChildRect, WidgetOK, Through, Bordered
  <2>2. i = 1 /\ SizeOK(Loose(c), sizes[i])
    BY <1>0, <2>1
  <2>3. CenterSize(c, sizes[i]) = CornerSize(c, sizes[i]) /\ \A a \in Axes : sizes[i][a] <= CenterSize(c, sizes[i])[a]
    BY <2>2, CenterOK
  <2>4. \A a \in Axes : sizes[i][a] <= SizeOf(rect)[a]
    BY <2>1, <2>2, <2>3
  <2>5. Put(ChildRect(w, c, rect, sizes, i), sizes[i], rect)
    BY <1>0, <2>1, <2>4, CenterRectIs, CornerRectIs
  <2> QED BY <1>2, <2>5
<1>3. CASE w.kind = "positioned"
  <2>1. n = 1 /\ w.pos \in Dims
    BY <1>3 DEF WidgetOK, Through, Bordered, Dims
  <2>2. /\ ChildCons(w, c, i, sizes) = PositionedCons(c, w.pos) /\ WidgetSize(w, c, sizes) = PositionedSize(c, sizes[1])
        /\ ChildRect(w, c, rect, sizes, i) = Placed(rect, sizes[i], w.pos)
    BY <1>3 DEF ChildCons, WidgetSize, ChildRect, Through, Bordered
  <2>3. \A a \in Axes : w.pos[a] >= 0 /\ w.pos[a] <= IF Bounded(c, a) THEN c.max[a] ELSE 0
    BY <1>3 DEF HasRoom
  <2>4. SizeOK(PositionedCons(c, w.pos), sizes[i]) /\ i = 1
    BY <1>0, <2>1, <2>2
  <2>5. \A a \in Axes : w.pos[a] + sizes[i][a] <= SizeOf(rect)[a]
    BY <2>1, <2>2, <2>3, <2>4, PositionedOK
  <2>6. \A a \in Axes : w.pos[a] \in Int /\ 0 <= w.pos[a] /\ w.pos[a] + sizes[i][a] <= SizeOf(rect)[a]
    <3>1. ASSUME NEW a \in Axes
          PROVE  w.pos[a] \in Int /\ 0 <= w.pos[a] /\ w.pos[a] + sizes[i][a] <= SizeOf(rect)[a]
      BY <2>1, <2>3, <2>5, AxisIs
    <3> QED BY <3>1
  <2>7. Put(Placed(rect, sizes[i], w.pos), sizes[i], rect)
    BY <1>0, <2>6, PlacedIs
  <2> QED BY <1>3, <2>2, <2>7
<1>4. CASE w.kind \in Bordered
  <2>1. n = 1 /\ w.inset \in Nat
    BY <1>4 DEF WidgetOK, Through, Bordered
  <2>2. /\ ChildCons(w, c, i, sizes) = Inset(c, w.inset) /\ WidgetSize(w, c, sizes) = Expand(c, sizes[1], w.inset)
        /\ ChildRect(w, c, rect, sizes, i) = Shrink(rect, w.inset)
    BY <1>4 DEF ChildCons, WidgetSize, ChildRect, Through, Bordered
  <2>3. \A a \in Axes : IF Bounded(c, a) THEN 2 * w.inset <= c.max[a] ELSE sizes[1][a] + 2 * w.inset < Unbound
    BY <1>4 DEF HasRoom
  <2>4. SizeOK(Inset(c, w.inset), sizes[i]) /\ i = 1
    BY <1>0, <2>1, <2>2
  <2>5. \A a \in Axes : SizeOf(rect)[a] = sizes[i][a] + 2 * w.inset
    <3>1. SizeOK(Inset(c, w.inset), sizes[1]) /\ sizes[i] = sizes[1]
      BY <2>4
    <3>2. \A a \in Axes : Expand(c, sizes[1], w.inset)[a] = sizes[1][a] + 2 * w.inset
      <4> DEFINE size == sizes[1]
                 inset == w.inset
      <4>1. inset \in Nat /\ SizeOK(Inset(c, inset), size)
        BY <2>1, <3>1
      <4>2. \A a \in Axes : IF Bounded(c, a) THEN 2 * inset <= c.max[a] ELSE size[a] + 2 * inset < Unbound
        BY <2>3
      <4> HIDE DEF size, inset
      <4>3. \A a \in Axes : Expand(c, size, inset)[a] = size[a] + 2 * inset
        BY <4>1, <4>2, BorderedOK
      <4> QED BY <4>3 DEF size, inset
    <3>3. SizeOf(rect) = Expand(c, sizes[1], w.inset)
      BY <2>2
    <3> QED BY <3>1, <3>2, <3>3
  <2>6. Put(Shrink(rect, w.inset), sizes[i], rect)
    BY <1>0, <2>1, <2>5, ShrinkIs
  <2>7. w.kind \notin {"flex", "wrap"}
    BY <1>4 DEF Bordered
  <2> QED BY <2>2, <2>6, <2>7
<1>5. CASE w.kind = "stack"
  <2>1. \A j \in 1 .. n : ChildCons(w, c, j, sizes) = c
    BY <1>5 DEF ChildCons, Through, Bordered
  <2>2. WidgetSize(w, c, sizes) = StackSize(c, sizes) /\ ChildRect(w, c, rect, sizes, i) = Rect(rect.tl, sizes[i])
    BY <1>5 DEF WidgetSize, ChildRect, Through, Bordered
  <2>3. \A j \in 1 .. n : SizeOK(c, sizes[j])
    BY <2>1 DEF Kept
  <2>4. \A a \in Axes : \A j \in 1 .. n : sizes[j][a] <= StackSize(c, sizes)[a]
    BY <2>3, StackOK
  <2>5. Put(Rect(rect.tl, sizes[i]), sizes[i], rect)
    BY <1>0, <2>2, <2>4, StackRectIs
  <2> QED BY <1>5, <2>2, <2>5
<1>6. CASE w.kind = "flex"
  <2>1. KeptAlone(w, c, sizes)
    BY DEF Kept, KeptAlone
  <2>2. /\ w.axis \in Axes /\ w.flexes \in [1 .. n -> Nat] /\ FlexFits(c, w.axis, w.flexes, sizes)
        /\ FlexKept(c, w.axis, w.flexes, sizes)
    BY <1>6, <2>1, FlexRooms
  <2>3. WidgetSize(w, c, sizes) = FlexSize(c, w.axis, sizes)
    BY <1>6 DEF WidgetSize, Through, Bordered
  <2>4. \A j \in 1 .. n : ChildRect(w, c, rect, sizes, j) = FlexRect(rect, w.axis, sizes, j)
    BY <1>6 DEF ChildRect, Through, Bordered
  <2>5. /\ \A a \in Axes : /\ FlexTotal(w.axis, sizes)[a] \in Nat
                           /\ FlexTotal(w.axis, sizes)[a] <= FlexSize(c, w.axis, sizes)[a]
        /\ \A j \in 1 .. n : sizes[j][Cross(w.axis)] <= FlexTotal(w.axis, sizes)[Cross(w.axis)]
    BY <2>2, FlexOK
  <2>6. \A j \in 1 .. n : \A a \in Axes : 0 <= sizes[j][a]
    BY <2>2, FlexChildIs
  <2>7. FlexRoom(rect, w.axis, sizes)
    BY <2>3, <2>5, <2>6 DEF FlexRoom
  <2>8. /\ Put(FlexRect(rect, w.axis, sizes, i), sizes[i], rect)
        /\ \A j \in i + 1 .. n : FlexRect(rect, w.axis, sizes, i).br[w.axis] < FlexRect(rect, w.axis, sizes, j).tl[w.axis]
    BY <2>2, <2>7, FlexPlaces
  <2>9. ASSUME NEW j \in i + 1 .. n
        PROVE  Apart(ChildRect(w, c, rect, sizes, i), ChildRect(w, c, rect, sizes, j), w.axis)
    <3>1. j \in 1 .. n
      OBVIOUS
    <3> QED BY <2>4, <2>8, <3>1 DEF Apart
  <2> QED BY <2>4, <2>8, <2>9
<1>7. CASE w.kind = "wrap"
  <2> DEFINE limit == c.max[w.axis]
             runs == Runs(w.axis, sizes, limit)
  <2>1. w.axis \in Axes
    BY <1>7 DEF WidgetOK, Through, Bordered
  <2>2. \A j \in 1 .. n : ChildCons(w, c, j, sizes) = WrapCons(c, w.axis)
    BY <1>7 DEF ChildCons, Through, Bordered
  <2>3. /\ WidgetSize(w, c, sizes) = WrapSize(c, w.axis, sizes)
        /\ \A j \in 1 .. n : ChildRect(w, c, rect, sizes, j) = WrapRect(rect, c, w.axis, sizes, j)
    BY <1>7 DEF WidgetSize, ChildRect, Through, Bordered
  <2>4. \A a \in Axes : WrapTotal(w.axis, runs)[a] <= c.max[a] /\ WrapTotal(w.axis, runs)[a] < Unbound
    BY <1>7 DEF HasRoom
  <2>5. \A j \in 1 .. n : SizeOK(WrapCons(c, w.axis), sizes[j])
    BY <2>2 DEF Kept
  <2>6. runs = Runs(w.axis, sizes, c.max[w.axis]) /\ limit = c.max[w.axis] /\ runs = Runs(w.axis, sizes, limit)
    OBVIOUS
  <2>7. limit \in Int
    BY <2>1, ConsIs
  <2> HIDE DEF runs, limit
  <2>8. /\ SizeOK(c, WrapSize(c, w.axis, sizes)) /\ sizes \in [1 .. n -> Positive]
        /\ \A a \in Axes : WrapTotal(w.axis, runs)[a] <= WrapSize(c, w.axis, sizes)[a]
    BY <2>1, <2>4, <2>5, <2>6, WrapOK
  <2>9. SizeOf(rect)[w.axis] <= limit
    BY <2>1, <2>3, <2>6, <2>8, SizeIs
  <2>10. WrapRoom(rect, w.axis, runs, limit)
    BY <2>3, <2>8, <2>9 DEF WrapRoom
  <2>11. /\ Put(WrapRect(rect, c, w.axis, sizes, i), sizes[i], rect)
         /\ \A j \in i + 1 .. n :
              Apart(WrapRect(rect, c, w.axis, sizes, i), WrapRect(rect, c, w.axis, sizes, j), w.axis)
    BY <2>1, <2>6, <2>7, <2>8, <2>10, WrapPlaces
  <2>12. ASSUME NEW j \in i + 1 .. n
         PROVE  Apart(ChildRect(w, c, rect, sizes, i), ChildRect(w, c, rect, sizes, j), w.axis)
    <3>1. j \in 1 .. n
      OBVIOUS
    <3> QED BY <2>3, <2>11, <3>1
  <2> QED BY <2>3, <2>11, <2>12
<1>8. CASE n = 0
  BY <1>8
<1> QED BY <1>1, <1>2, <1>3, <1>4, <1>5, <1>6, <1>7, <1>8 DEF WidgetOK


------------------------------------------------------------------------------
(* Trees.  An object is any member of N, with its widget w[n], the sequence   *)
(* of its children kids[n], the constraints it was given, its size, and the   *)
(* rectangle it is drawn in.                                                  *)

\* Every object has a level, its children the next; all but the root are children.
Tree(N, root, bottom, level, kids) ==
  /\ root \in N /\ bottom \in Nat /\ level \in [N -> 0 .. bottom] /\ kids \in [N -> Seq(N)]
  /\ \A n \in N : \A i \in DOMAIN kids[n] : level[kids[n][i]] = level[n] + 1
  /\ \A n \in N \ {root} : \E p \in N : \E i \in DOMAIN kids[p] : kids[p][i] = n

OfKids(f, kids, n) == [i \in DOMAIN kids[n] |-> f[kids[n][i]]]

\* Every object was laid out: what the run of RenderTree checks of each object after a frame.
LaidOutTree(N, w, kids, cons, size) ==
  /\ size \in [N -> Dims]
  /\ \A n \in N :
       /\ WidgetOK(w[n], Len(kids[n])) /\ HasRoom(w[n], cons[n], OfKids(size, kids, n))
       /\ LaidOut(w[n], cons[n], size[n], OfKids(cons, kids, n), OfKids(size, kids, n))

\* Every object is drawn where its parent puts it, the root in a rectangle of its size.
DrawnTree(N, root, w, kids, cons, size, rect) ==
  /\ rect[root] \in Rects /\ SizeOf(rect[root]) = size[root]
  /\ \A n \in N : \A i \in DOMAIN kids[n] :
       rect[kids[n][i]] = ChildRect(w[n], cons[n], rect[n], OfKids(size, kids, n), i)

\* The children of an object, if each of them keeps what it was asked.
LEMMA KidsKeep ==
  ASSUME NEW N, NEW root, NEW bottom, NEW level, NEW kids, NEW w, NEW cons, NEW size,
         Tree(N, root, bottom, level, kids), LaidOutTree(N, w, kids, cons, size),
         NEW n \in N, ConsOK(cons[n]),
         \A i \in DOMAIN kids[n] : ConsOK(cons[kids[n][i]]) => SizeOK(cons[kids[n][i]], size[kids[n][i]])
  PROVE  /\ Len(kids[n]) \in Nat /\ DOMAIN kids[n] = 1 .. Len(kids[n])
         /\ OfKids(size, kids, n) \in [1 .. Len(kids[n]) -> Dims]
         /\ Kept(w[n], cons[n], OfKids(size, kids, n)) /\ SizeOK(cons[n], size[n])
         /\ \A i \in DOMAIN kids[n] : ConsOK(cons[kids[n][i]])
<1> DEFINE m == Len(kids[n])
           sizes == OfKids(size, kids, n)
           x == w[n]
           c == cons[n]
<1>1. kids[n] \in Seq(N)
  BY DEF Tree
<1>2. m \in Nat /\ DOMAIN kids[n] = 1 .. m /\ kids[n] \in [1 .. m -> N]
  BY <1>1, LenProperties
<1>3. sizes \in [1 .. m -> Dims] /\ \A i \in 1 .. m : sizes[i] = size[kids[n][i]]
  BY <1>2 DEF OfKids, LaidOutTree
<1>4. WidgetOK(x, m) /\ HasRoom(x, c, sizes) /\ LaidOut(x, c, size[n], OfKids(cons, kids, n), sizes)
  BY DEF LaidOutTree
<1>5. size[n] = WidgetSize(x, c, sizes) /\ \A i \in 1 .. m : cons[kids[n][i]] = ChildCons(x, c, i, sizes)
  BY <1>2, <1>3, <1>4 DEF LaidOut, OfKids
<1>6. \A i \in 1 .. m : ConsOK(ChildCons(x, c, i, sizes)) => SizeOK(ChildCons(x, c, i, sizes), sizes[i])
  BY <1>2, <1>3, <1>5
<1>7. DOMAIN sizes = 1 .. m
  BY <1>3
<1>8. ConsOK(c)
  OBVIOUS
<1> HIDE DEF m, sizes, x, c
<1>9. KeptAlone(x, c, sizes)
  <2>1. ASSUME NEW i \in 1 .. m, Alone(x, i) PROVE SizeOK(ChildCons(x, c, i, sizes), sizes[i])
    <3>1. ConsOK(ChildCons(x, c, i, sizes))
      BY <1>2, <1>3, <1>4, <1>8, <2>1, ChildConsAlone
    <3> QED BY <1>6, <3>1
  <2> QED BY <1>7, <2>1 DEF KeptAlone
<1>10. \A i \in 1 .. m : ConsOK(ChildCons(x, c, i, sizes))
  BY <1>2, <1>3, <1>4, <1>8, <1>9, ChildConsShared
<1>11. Kept(x, c, sizes)
  BY <1>6, <1>7, <1>10 DEF Kept
<1>12. SizeOK(c, size[n])
  BY <1>2, <1>3, <1>4, <1>5, <1>8, <1>11, WidgetSizeOK
<1> QED BY <1>2, <1>3, <1>5, <1>10, <1>11, <1>12 DEF m, sizes, x, c

\* From the leaves to the root: what is asked soundly is kept.
LEMMA SizesKeep ==
  ASSUME NEW N, NEW root, NEW bottom, NEW level, NEW kids, NEW w, NEW cons, NEW size,
         Tree(N, root, bottom, level, kids), LaidOutTree(N, w, kids, cons, size)
  PROVE  \A n \in N : ConsOK(cons[n]) => SizeOK(cons[n], size[n])
<1> DEFINE Keeps(n) == ConsOK(cons[n]) => SizeOK(cons[n], size[n])
           T == {j \in 0 .. bottom + 1 : \A n \in N : level[n] > bottom - j => Keeps(n)}
<1>1. bottom \in Nat /\ \A n \in N : level[n] \in 0 .. bottom
  BY DEF Tree
<1>2. 0 \in T
  BY <1>1
<1>3. ASSUME NEW j \in 1 .. bottom + 1, j - 1 \in T PROVE j \in T
  <2>1. ASSUME NEW n \in N, level[n] > bottom - j PROVE Keeps(n)
    <3> SUFFICES ASSUME ConsOK(cons[n]) PROVE SizeOK(cons[n], size[n])
      OBVIOUS
    <3>1. ASSUME NEW i \in DOMAIN kids[n] PROVE Keeps(kids[n][i])
      <4>1. kids[n][i] \in N /\ level[kids[n][i]] = level[n] + 1
        BY DEF Tree
      <4>2. level[kids[n][i]] > bottom - (j - 1)
        BY <1>1, <2>1, <4>1
      <4> QED BY <1>3, <4>1, <4>2
    <3> QED BY <3>1, KidsKeep
  <2> QED BY <2>1
<1>4. 0 .. bottom + 1 \subseteq T
  <2>1. bottom + 1 \in Nat
    BY <1>1
  <2> HIDE DEF T
  <2> QED BY <1>2, <1>3, <2>1, Ascends
<1>5. ASSUME NEW n \in N PROVE Keeps(n)
  <2>1. bottom + 1 \in T /\ level[n] > bottom - (bottom + 1)
    BY <1>1, <1>4
  <2> QED BY <2>1
<1> QED BY <1>5

\* From the root to the leaves: every object is asked soundly.
LEMMA ConsKeep ==
  ASSUME NEW N, NEW root, NEW bottom, NEW level, NEW kids, NEW w, NEW cons, NEW size,
         Tree(N, root, bottom, level, kids), LaidOutTree(N, w, kids, cons, size), ConsOK(cons[root])
  PROVE  \A n \in N : ConsOK(cons[n])
<1> DEFINE T == {j \in 0 .. bottom : \A n \in N : level[n] <= j => ConsOK(cons[n])}
<1>1. bottom \in Nat /\ \A n \in N : level[n] \in 0 .. bottom
  BY DEF Tree
<1>2. ASSUME NEW n \in N, n # root
      PROVE  \E p \in N : \E i \in DOMAIN kids[p] : kids[p][i] = n /\ level[n] = level[p] + 1
  BY <1>2 DEF Tree
<1>3. ASSUME NEW j \in 0 .. bottom, \A p \in N : level[p] <= j - 1 => ConsOK(cons[p]),
             NEW n \in N, level[n] <= j
      PROVE  ConsOK(cons[n])
  <2>1. CASE n = root
    BY <2>1
  <2>2. CASE n # root
    <3>0. PICK p \in N : \E i \in DOMAIN kids[p] : kids[p][i] = n /\ level[n] = level[p] + 1
      BY <1>2, <2>2
    <3>1. PICK i \in DOMAIN kids[p] : kids[p][i] = n /\ level[n] = level[p] + 1
      BY <3>0
    <3>2. level[p] <= j - 1
      BY <1>1, <1>3, <3>1
    <3>3. ConsOK(cons[p])
      BY <1>3, <3>2
    <3>4. \A k \in DOMAIN kids[p] : ConsOK(cons[kids[p][k]]) => SizeOK(cons[kids[p][k]], size[kids[p][k]])
      <4>1. \A k \in DOMAIN kids[p] : kids[p][k] \in N
        BY DEF Tree
      <4> QED BY <4>1, SizesKeep
    <3>5. \A k \in DOMAIN kids[p] : ConsOK(cons[kids[p][k]])
      BY <3>3, <3>4, KidsKeep
    <3> QED BY <3>1, <3>5
  <2> QED BY <2>1, <2>2
<1>4. 0 \in T
  <2>1. \A p \in N : level[p] <= 0 - 1 => ConsOK(cons[p])
    BY <1>1
  <2> QED BY <1>1, <1>3, <2>1
<1>5. ASSUME NEW j \in 1 .. bottom, j - 1 \in T PROVE j \in T
  <2>1. \A p \in N : level[p] <= j - 1 => ConsOK(cons[p])
    BY <1>5
  <2>2. j \in 0 .. bottom
    OBVIOUS
  <2> QED BY <1>3, <2>1, <2>2
<1>6. 0 .. bottom \subseteq T
  <2> HIDE DEF T
  <2> QED BY <1>1, <1>4, <1>5, Ascends
<1>7. ASSUME NEW n \in N PROVE ConsOK(cons[n])
  <2>1. bottom \in T /\ level[n] <= bottom
    BY <1>1, <1>6
  <2> QED BY <2>1
<1> QED BY <1>7

\* Whatever the tree of widgets: the size of every object keeps the constraints its parent
\* gave it, and is never the one that stands for no limit, when every flex and wrap has room
\* for its children.  These are the assertions of RenderObject::layout, which the debug
\* build checks for the trees that happen to be laid out.
THEOREM LayoutKeepsConstraints ==
  ASSUME NEW N, NEW root, NEW bottom, NEW level, NEW kids, NEW w, NEW cons, NEW size,
         Tree(N, root, bottom, level, kids), LaidOutTree(N, w, kids, cons, size), ConsOK(cons[root])
  PROVE  \A n \in N : ConsOK(cons[n]) /\ SizeKept(cons[n], size[n])
<1>1. \A n \in N : ConsOK(cons[n]) /\ SizeOK(cons[n], size[n])
  BY SizesKeep, ConsKeep
<1>2. ASSUME NEW n \in N PROVE SizeKept(cons[n], size[n])
  <2>1. \A a \in Axes : size[n][a] # Unbound
    <3>1. ASSUME NEW a \in Axes PROVE size[n][a] # Unbound
      BY <1>1, SizeIs, UnboundIs
    <3> QED BY <3>1
  <2> QED BY <1>1, <2>1 DEF SizeKept, SizeOK
<1> QED BY <1>1, <1>2

\* Where the children of an object are drawn, if it is drawn in its own size.
LEMMA KidsRects ==
  ASSUME NEW N, NEW root, NEW bottom, NEW level, NEW kids, NEW w, NEW cons, NEW size, NEW rect,
         Tree(N, root, bottom, level, kids), LaidOutTree(N, w, kids, cons, size), ConsOK(cons[root]),
         DrawnTree(N, root, w, kids, cons, size, rect),
         NEW n \in N, rect[n] \in Rects, SizeOf(rect[n]) = size[n], NEW i \in DOMAIN kids[n]
  PROVE  /\ Put(rect[kids[n][i]], size[kids[n][i]], rect[n])
         /\ w[n].kind \in {"flex", "wrap"} =>
              \A j \in i + 1 .. Len(kids[n]) : Apart(rect[kids[n][i]], rect[kids[n][j]], w[n].axis)
<1> DEFINE m == Len(kids[n])
           sizes == OfKids(size, kids, n)
           x == w[n]
           c == cons[n]
           r == rect[n]
<1>1. ConsOK(c)
  BY ConsKeep
<1>2. \A k \in DOMAIN kids[n] : ConsOK(cons[kids[n][k]]) => SizeOK(cons[kids[n][k]], size[kids[n][k]])
  <2>1. \A k \in DOMAIN kids[n] : kids[n][k] \in N
    BY DEF Tree
  <2> QED BY <2>1, SizesKeep
<1>3. m \in Nat /\ DOMAIN kids[n] = 1 .. m /\ sizes \in [1 .. m -> Dims] /\ Kept(x, c, sizes)
  BY <1>1, <1>2, KidsKeep
<1>4. WidgetOK(x, m) /\ HasRoom(x, c, sizes) /\ SizeOf(r) = WidgetSize(x, c, sizes) /\ r \in Rects
  BY DEF LaidOutTree, LaidOut
<1>5. \A k \in 1 .. m : rect[kids[n][k]] = ChildRect(x, c, r, sizes, k) /\ sizes[k] = size[kids[n][k]]
  BY <1>3 DEF DrawnTree, OfKids
<1>6. i \in 1 .. m
  BY <1>3
<1> HIDE DEF m, sizes, x, c, r
<1>7. /\ Put(ChildRect(x, c, r, sizes, i), sizes[i], r)
      /\ x.kind \in {"flex", "wrap"} =>
           \A j \in i + 1 .. m : Apart(ChildRect(x, c, r, sizes, i), ChildRect(x, c, r, sizes, j), x.axis)
  BY <1>1, <1>3, <1>4, <1>6, ChildRectOK
<1>8. Put(rect[kids[n][i]], size[kids[n][i]], r)
  BY <1>5, <1>6, <1>7
<1>9. ASSUME x.kind \in {"flex", "wrap"}, NEW j \in i + 1 .. m
      PROVE  Apart(rect[kids[n][i]], rect[kids[n][j]], x.axis)
  <2>1. j \in 1 .. m
    BY <1>6
  <2> QED BY <1>5, <1>6, <1>7, <1>9, <2>1
<1> QED BY <1>8, <1>9 DEF m, x, r

\* What is within a rectangle is within those around it.
LEMMA WithinTransitive ==
  ASSUME NEW r \in Rects, NEW s \in Rects, NEW t \in Rects, Within(r, s), Within(s, t)
  PROVE  Within(r, t)
<1>1. ASSUME NEW a \in Axes PROVE t.tl[a] <= r.tl[a] /\ r.br[a] <= t.br[a]
  <2>1. s.tl[a] <= r.tl[a] /\ r.br[a] <= s.br[a] /\ t.tl[a] <= s.tl[a] /\ s.br[a] <= t.br[a]
    BY DEF Within
  <2>2. r.tl[a] \in Int /\ r.br[a] \in Int /\ s.tl[a] \in Int /\ s.br[a] \in Int /\ t.tl[a] \in Int /\ t.br[a] \in Int
    BY SizeOfAt
  <2> QED BY <2>1, <2>2
<1> QED BY <1>1 DEF Within

\* Whatever the tree of widgets: every object is drawn in a rectangle of the size the layout
\* gave it, within its parent's and so within the root's.  No draw leaves the frame buffer,
\* as Canvas.h asserts, when the root does not, and a touch that an object gets is in its parent.
THEOREM DrawnWithinParents ==
  ASSUME NEW N, NEW root, NEW bottom, NEW level, NEW kids, NEW w, NEW cons, NEW size, NEW rect,
         Tree(N, root, bottom, level, kids), LaidOutTree(N, w, kids, cons, size), ConsOK(cons[root]),
         DrawnTree(N, root, w, kids, cons, size, rect)
  PROVE  \A n \in N : /\ Put(rect[n], size[n], rect[root])
                      /\ \A i \in DOMAIN kids[n] : Within(rect[kids[n][i]], rect[n])
<1> DEFINE Placing(n) == Put(rect[n], size[n], rect[root])
           T == {j \in 0 .. bottom : \A n \in N : level[n] <= j => Placing(n)}
<1>1. bottom \in Nat /\ root \in N /\ \A n \in N : level[n] \in 0 .. bottom
  BY DEF Tree
<1>2. ASSUME NEW n \in N, n # root
      PROVE  \E p \in N : \E i \in DOMAIN kids[p] : kids[p][i] = n /\ level[n] = level[p] + 1
  BY <1>2 DEF Tree
<1>3. rect[root] \in Rects /\ SizeOf(rect[root]) = size[root]
  BY DEF DrawnTree
<1>4. Placing(root)
  BY <1>3, WithinItself
<1>5. ASSUME NEW n \in N, Placing(n), NEW i \in DOMAIN kids[n]
      PROVE  Placing(kids[n][i]) /\ Within(rect[kids[n][i]], rect[n])
  <2>1. rect[n] \in Rects /\ SizeOf(rect[n]) = size[n] /\ Within(rect[n], rect[root])
    BY <1>5 DEF Put
  <2>2. Put(rect[kids[n][i]], size[kids[n][i]], rect[n])
    BY <2>1, KidsRects
  <2>3. /\ rect[kids[n][i]] \in Rects /\ SizeOf(rect[kids[n][i]]) = size[kids[n][i]]
        /\ Within(rect[kids[n][i]], rect[n])
    BY <2>2 DEF Put
  <2>4. Within(rect[kids[n][i]], rect[root])
    BY <1>3, <2>1, <2>3, WithinTransitive
  <2> QED BY <2>3, <2>4 DEF Put
<1>6. ASSUME NEW j \in 0 .. bottom, \A p \in N : level[p] <= j - 1 => Placing(p),
             NEW n \in N, level[n] <= j
      PROVE  Placing(n)
  <2>1. CASE n = root
    BY <1>4, <2>1
  <2>2. CASE n # root
    <3>0. PICK p \in N : \E i \in DOMAIN kids[p] : kids[p][i] = n /\ level[n] = level[p] + 1
      BY <1>2, <2>2
    <3>1. PICK i \in DOMAIN kids[p] : kids[p][i] = n /\ level[n] = level[p] + 1
      BY <3>0
    <3>2. level[p] <= j - 1
      BY <1>1, <1>6, <3>1
    <3>3. Placing(p)
      BY <1>6, <3>2
    <3>4. Placing(kids[p][i])
      BY <1>5, <3>3
    <3> QED BY <3>1, <3>4
  <2> QED BY <2>1, <2>2
<1> HIDE DEF Placing
<1>7. 0 \in T
  <2>1. \A p \in N : level[p] <= 0 - 1 => Placing(p)
    BY <1>1
  <2> QED BY <1>1, <1>6, <2>1
<1>8. ASSUME NEW j \in 1 .. bottom, j - 1 \in T PROVE j \in T
  <2>1. \A p \in N : level[p] <= j - 1 => Placing(p)
    BY <1>8
  <2>2. j \in 0 .. bottom
    OBVIOUS
  <2> QED BY <1>6, <2>1, <2>2
<1>9. 0 .. bottom \subseteq T
  <2> HIDE DEF T
  <2> QED BY <1>1, <1>7, <1>8, Ascends
<1>10. ASSUME NEW n \in N PROVE Placing(n)
  <2>1. bottom \in T /\ level[n] <= bottom
    BY <1>1, <1>9
  <2> QED BY <2>1
<1> QED BY <1>5, <1>10 DEF Placing

\* Whatever the tree of widgets: no cell belongs to two children of a Flex, or of a Wrap.  A
\* touch reaches one of them, and what one draws does not spoil the other.  For Wrap this says
\* that its draw finds the ends of the runs where its layout had put them (Wrap.h computes
\* them twice, by the constraints and by the rectangle).
THEOREM SiblingsApart ==
  ASSUME NEW N, NEW root, NEW bottom, NEW level, NEW kids, NEW w, NEW cons, NEW size, NEW rect,
         Tree(N, root, bottom, level, kids), LaidOutTree(N, w, kids, cons, size), ConsOK(cons[root]),
         DrawnTree(N, root, w, kids, cons, size, rect),
         NEW n \in N, w[n].kind \in {"flex", "wrap"}, NEW i \in DOMAIN kids[n], NEW j \in DOMAIN kids[n], i < j,
         NEW point \in Dims
  PROVE  ~(Covers(rect[kids[n][i]], point) /\ Covers(rect[kids[n][j]], point))
<1> DEFINE p == kids[n][i]
           q == kids[n][j]
<1>1. kids \in [N -> Seq(N)] /\ kids[n] \in Seq(N)
  BY DEF Tree
<1>2. Len(kids[n]) \in Nat /\ DOMAIN kids[n] = 1 .. Len(kids[n]) /\ p \in N /\ q \in N
  BY <1>1, LenProperties
<1>3. j \in i + 1 .. Len(kids[n])
  BY <1>2
<1>4. \A o \in N : Put(rect[o], size[o], rect[root])
  BY DrawnWithinParents
<1>5. \A o \in N : rect[o] \in Rects /\ SizeOf(rect[o]) = size[o]
  BY <1>4 DEF Put
<1>6. Apart(rect[p], rect[q], w[n].axis)
  BY <1>3, <1>5, KidsRects
<1>7. WidgetOK(w[n], Len(kids[n]))
  BY DEF LaidOutTree
<1>8. w[n].axis \in Axes
  BY <1>7 DEF WidgetOK, Through, Bordered
<1> HIDE DEF p, q
<1>9. PICK a \in Axes : rect[p].br[a] < rect[q].tl[a]
  BY <1>6, <1>8, AxisIs DEF Apart
<1>10. rect[p].br[a] \in Int /\ rect[q].tl[a] \in Int /\ point[a] \in Int
  BY <1>2, <1>5, SizeOfAt, AxisIs
<1> SUFFICES ASSUME Covers(rect[p], point), Covers(rect[q], point) PROVE FALSE
  BY DEF p, q
<1>11. point[a] <= rect[p].br[a] /\ rect[q].tl[a] <= point[a]
  BY DEF Covers
<1> QED BY <1>9, <1>10, <1>11

(***************************************************************************)
(* PART 2: THE LOCK SCREEN AND THE VIEWER OF SCREENSHOTS                   *)
(***************************************************************************)

(* The lock screen's counter is the number of wrong codes, and the device    *)
(* goes off with the fifth.                                                  *)
Counted ==
  /\ attempts = wrong
  /\ ~poweroff => wrong < MaxAttempts

(* What the tree of the last build still says of the viewer.                 *)
Shown ==
  /\ built.dialog <=> ~built.selecting
  /\ taps.count = 0 =>
       /\ built.selecting <=> isSelecting
       /\ built.confirmation <=> isShowingConfirmation
       /\ simulated = confirmation_dialog
  /\ ~taps.raced /\ isShowingConfirmation => ~isSelecting

(* The dialog comes up with the choices its spins start with.                *)
Fresh ==
  /\ ~isSelecting /\ built.selecting =>
       chosen["quality"] = 0 /\ chosen["mode"] = 0 /\ chosen["notebook"] = None
  /\ ~isSelecting /\ ~built.selecting =>
       \A spin \in Spins : chosen[spin] = spins[spin] \/ (spin = "notebook" /\ chosen[spin] = None)

ViewerInv == TypeOK /\ Counted /\ Shown /\ Fresh /\ CropIsSelection

------------------------------------------------------------------------------
(* Types                                                                      *)

Rectangles == [x : Nat, y : Nat, width : Nat, height : Nat]

LEMMA AreaType ==
  ASSUME NEW from \in [x : Nat, y : Nat], NEW to \in [x : Nat, y : Nat]
  PROVE  Area(from, to) \in Rectangles
BY DEF Area, Rectangles

LEMMA ClampType ==
  ASSUME NEW spin \in Spins, NEW value \in Int
  PROVE  Clamp(spin, value) \in 0 .. Top[spin] /\ Clamp(spin, value) \in Nat
BY ScreensAssumption DEF Clamp

(* A value of a spin changes that spin's and the others stay. *)
LEMMA SpinType ==
  ASSUME NEW spin \in Spins, NEW difference \in Int, spins \in [Spins -> Nat]
  PROVE  Clamp(spin, spins[spin] + difference) \in 0 .. Top[spin]
<1>1. spins[spin] + difference \in Int
  OBVIOUS
<1> QED BY <1>1, ClampType

LEMMA ScreensInit == Init => ViewerInv
<1> SUFFICES ASSUME Init PROVE ViewerInv
  OBVIOUS
<1>1. TypeOK
  <2>1. 0 \in 0 .. MaxAttempts /\ \A spin \in Spins : 0 \in 0 .. Top[spin]
    BY ScreensAssumption DEF MaxAttempts
  <2>2. /\ built \in [selecting : BOOLEAN, valid : BOOLEAN, dialog : BOOLEAN, confirmation : BOOLEAN]
        /\ taps \in [count : {0, 1}, raced : BOOLEAN]
        /\ touchDownPoint \in [x : Nat, y : Nat]
    BY DEF Init
  <2>3. selection \in Rectangles /\ crop \in Rectangles
    BY DEF Init, NoSelection, Rectangles
  <2>4. spins \in [Spins -> Nat] /\ chosen \in [Spins -> Nat \cup {None}]
    BY DEF Init, NoChoice
  <2>5. \A spin \in Spins : spins[spin] \in 0 .. Top[spin] /\ chosen[spin] \in {None} \cup 0 .. Top[spin]
    BY <2>1 DEF Init, NoChoice
  <2>6. passcode \in Seq(Digits) /\ xochitlPasscode \in Codes \cup {<<>>}
    BY DEF Init
  <2> QED BY <2>1, <2>2, <2>3, <2>4, <2>5, <2>6 DEF Init, TypeOK, Rectangles
<1>2. Counted /\ Shown /\ Fresh /\ CropIsSelection
  BY DEF Init, Counted, Shown, Fresh, CropIsSelection, MaxAttempts, confirmation_dialog, NoChoice
<1> QED BY <1>1, <1>2 DEF ViewerInv

(* The lock screen. *)
LEMMA LockStep ==
  ASSUME ViewerInv, (\E digit \in Digits : typePasscode(digit)) \/ Clear
  PROVE  ViewerInv'
<1> USE DEF launcher, touch, dialog, viewer
<1>0. /\ TypeOK /\ Counted /\ Shown /\ Fresh /\ CropIsSelection
      /\ passcode \in Seq(Digits) /\ wrong \in 0 .. MaxAttempts /\ MaxAttempts = 5
      /\ poweroff \in BOOLEAN /\ isUnlocked \in BOOLEAN
  BY DEF ViewerInv, TypeOK, MaxAttempts
<1>1. /\ passcode' \in Seq(Digits) /\ isUnlocked' \in BOOLEAN /\ poweroff' \in BOOLEAN
      /\ attempts' = wrong' /\ wrong' \in 0 .. MaxAttempts /\ (~poweroff' => wrong' < MaxAttempts)
      /\ UNCHANGED <<shown, isViewingScreenshot, asleep, file, xochitlPasscode, touch, dialog, viewer>>
  <2>1. ASSUME NEW digit \in Digits, typePasscode(digit) PROVE <1>1!:
    <3>1. Append(passcode, digit) \in Seq(Digits) /\ <<>> \in Seq(Digits)
      BY <1>0
    <3>2. passcode' \in Seq(Digits) /\ isUnlocked' \in BOOLEAN /\ poweroff' \in BOOLEAN
      BY <1>0, <2>1, <3>1 DEF typePasscode
    <3>3. attempts' = wrong'
      BY <1>0, <2>1 DEF typePasscode, Counted
    <3>4. wrong' \in 0 .. MaxAttempts /\ (~poweroff' => wrong' < MaxAttempts)
      <4> DEFINE typed == Append(passcode, digit)
                 complete == Len(typed) >= Len(xochitlPasscode)
                 good == typed = xochitlPasscode
      <4>1. ~poweroff /\ wrong < MaxAttempts /\ attempts = wrong
        BY <1>0, <2>1 DEF typePasscode, Counted
      <4>2. CASE complete /\ good
        BY <1>0, <2>1, <4>1, <4>2 DEF typePasscode
      <4>3. CASE complete /\ ~good
        <5>1. wrong' = wrong + 1 /\ (poweroff' <=> wrong + 1 >= MaxAttempts)
          BY <2>1, <4>1, <4>3 DEF typePasscode
        <5> QED BY <1>0, <4>1, <5>1
      <4>4. CASE ~complete
        BY <1>0, <2>1, <4>1, <4>4 DEF typePasscode
      <4> QED BY <4>2, <4>3, <4>4
    <3> QED BY <2>1, <3>2, <3>3, <3>4 DEF typePasscode
  <2>2. CASE Clear
    <3>1. SubSeq(passcode, 1, Len(passcode) - 1) \in Seq(Digits)
      BY <1>0, <2>2 DEF Clear
    <3> QED BY <1>0, <2>2, <3>1 DEF Clear, Counted
  <2> QED BY <2>1, <2>2
<1>2. TypeOK'
  BY <1>0, <1>1 DEF TypeOK
<1>3. Counted' /\ Shown' /\ Fresh' /\ CropIsSelection'
  BY <1>0, <1>1 DEF Counted, Shown, Fresh, CropIsSelection, confirmation_dialog
<1> QED BY <1>2, <1>3 DEF ViewerInv

(* The launcher around the two screens. *)
LEMMA LauncherStep ==
  ASSUME ViewerInv, Sleep \/ ViewScreenshot \/ ChangeCode \/ UNCHANGED vars
  PROVE  ViewerInv'
<1> USE DEF launcher, lock, touch, dialog, viewer, vars
<1>1. /\ isViewingScreenshot' \in BOOLEAN /\ asleep' \in BOOLEAN /\ isUnlocked' \in BOOLEAN /\ file' \in Codes
      /\ UNCHANGED <<shown, xochitlPasscode, passcode, attempts, wrong, poweroff, touch, dialog, viewer>>
  BY DEF Sleep, ViewScreenshot, ChangeCode, ViewerInv, TypeOK
<1>2. TypeOK'
  BY <1>1 DEF ViewerInv, TypeOK
<1>3. Counted' /\ Shown' /\ Fresh' /\ CropIsSelection'
  BY <1>1 DEF ViewerInv, Counted, Shown, Fresh, CropIsSelection, confirmation_dialog
<1> QED BY <1>2, <1>3 DEF ViewerInv

(* The finger on the screenshot. *)
LEMMA TouchStep ==
  ASSUME ViewerInv,
         TouchUp \/ \E position \in Positions : TouchDown(position) \/ TouchMove(position)
  PROVE  ViewerInv'
<1> USE DEF launcher, lock, dialog, viewer
<1>1. /\ finger' \in BOOLEAN /\ touchDownPoint' \in [x : Nat, y : Nat] /\ selection' \in Rectangles
      /\ ~isSelecting => selection' = selection
      /\ UNCHANGED <<launcher, lock, dialog, viewer>>
  <2>1. ASSUME NEW position \in Positions, TouchDown(position) PROVE <1>1!:
    BY <2>1, ScreensAssumption DEF TouchDown, ViewerInv, TypeOK, Rectangles
  <2>2. ASSUME NEW position \in Positions, TouchMove(position) PROVE <1>1!:
    <3>1. Area(touchDownPoint, position) \in Rectangles
      BY AreaType, ScreensAssumption DEF ViewerInv, TypeOK
    <3> QED BY <2>2, <3>1 DEF TouchMove, Selects, ViewerInv, TypeOK, Rectangles
  <2>3. CASE TouchUp
    BY <2>3 DEF TouchUp, ViewerInv, TypeOK, Rectangles
  <2> QED BY <2>1, <2>2, <2>3
<1>2. TypeOK'
  BY <1>1 DEF ViewerInv, TypeOK, Rectangles
<1>3. Counted' /\ Shown' /\ Fresh' /\ CropIsSelection'
  BY <1>1 DEF ViewerInv, Counted, Shown, Fresh, CropIsSelection, confirmation_dialog
<1> QED BY <1>2, <1>3 DEF ViewerInv

(* The build of the launcher. *)
LEMMA BuildStep ==
  ASSUME ViewerInv, Build
  PROVE  ViewerInv'
<1> USE DEF launcher, lock, touch, dialog, viewer
<1>0. TypeOK /\ Counted /\ Shown /\ Fresh /\ CropIsSelection
  BY DEF ViewerInv
<1> DEFINE unlocked == isUnlocked \/ (~isViewingScreenshot /\ ~asleep /\ file = <<>>)
           next == Shows(unlocked)
           anew == next # shown
<1>1. /\ shown' = next /\ (isUnlocked' <=> unlocked)
      /\ xochitlPasscode' = (IF next = "lock" THEN file ELSE <<>>)
      /\ attempts' = init(anew \/ next # "lock")
      /\ taps' = [count |-> 0, raced |-> taps.raced /\ ~anew]
      /\ UNCHANGED <<isViewingScreenshot, asleep, file, poweroff, crop>>
  BY DEF Build
<1>2. \/ UNCHANGED <<passcode, wrong, attempts>>
      \/ passcode' = <<>> /\ wrong' = 0 /\ attempts' = 0
  BY <1>1 DEF Build, init
<1>3. \/ /\ built' = Built /\ simulated' = confirmation_dialog /\ spins' = copy_dialog
         /\ UNCHANGED <<touch, isSelecting, isShowingConfirmation, chosen>>
         /\ ~anew
      \/ /\ NewViewer
         /\ built' = [selecting |-> TRUE, valid |-> FALSE, dialog |-> FALSE, confirmation |-> FALSE]
         /\ simulated' = NoChoice /\ spins' = [s \in Spins |-> 0]
  BY DEF Build
<1> HIDE DEF next, anew, unlocked
<1>4. /\ built' \in [selecting : BOOLEAN, valid : BOOLEAN, dialog : BOOLEAN, confirmation : BOOLEAN]
      /\ taps' \in [count : {0, 1}, raced : BOOLEAN]
      /\ spins' \in [Spins -> Nat] /\ chosen' \in [Spins -> Nat \cup {None}]
      /\ \A spin \in Spins : spins'[spin] \in 0 .. Top[spin] /\ chosen'[spin] \in {None} \cup 0 .. Top[spin]
      /\ finger' \in BOOLEAN /\ isSelecting' \in BOOLEAN /\ isShowingConfirmation' \in BOOLEAN
      /\ touchDownPoint' \in [x : Nat, y : Nat] /\ selection' \in Rectangles
      /\ Shown' /\ Fresh'
  <2>a. CASE /\ built' = Built /\ simulated' = confirmation_dialog /\ spins' = copy_dialog
             /\ UNCHANGED <<touch, isSelecting, isShowingConfirmation, chosen>> /\ ~anew
    <3>1. /\ built'.selecting = isSelecting /\ built'.dialog = ~isSelecting
          /\ built'.confirmation = isShowingConfirmation
          /\ built' \in [selecting : BOOLEAN, valid : BOOLEAN, dialog : BOOLEAN, confirmation : BOOLEAN]
      BY <1>0, <2>a DEF Built, isValidSelection, TypeOK
    <3>2. taps'.count = 0 /\ (taps'.raced <=> taps.raced) /\ taps' \in [count : {0, 1}, raced : BOOLEAN]
      BY <1>0, <1>1, <2>a DEF TypeOK
    <3>3. /\ spins' \in [Spins -> Nat] /\ chosen' \in [Spins -> Nat \cup {None}]
          /\ \A spin \in Spins : spins'[spin] \in 0 .. Top[spin] /\ chosen'[spin] \in {None} \cup 0 .. Top[spin]
      BY <1>0, <2>a, ScreensAssumption DEF copy_dialog, TypeOK
    <3>4. Shown'
      <4>1. ~taps'.raced /\ isShowingConfirmation' => ~isSelecting'
        BY <1>0, <2>a, <3>2 DEF Shown
      <4>2. simulated' = (confirmation_dialog)'
        BY <2>a DEF confirmation_dialog, NoChoice
      <4>3. /\ built'.dialog <=> ~built'.selecting
            /\ built'.selecting <=> isSelecting'
            /\ built'.confirmation <=> isShowingConfirmation'
        BY <2>a, <3>1
      <4> QED BY <4>1, <4>2, <4>3 DEF Shown
    <3>5. Fresh'
      <4>1. CASE isSelecting
        BY <2>a, <4>1 DEF Fresh
      <4>2. CASE ~isSelecting /\ built.dialog
        <5>1. spins' = spins /\ ~built.selecting /\ ~built'.selecting
          BY <1>0, <2>a, <3>1, <4>2 DEF copy_dialog, Shown
        <5> QED BY <1>0, <2>a, <4>2, <5>1 DEF Fresh
      <4>3. CASE ~isSelecting /\ ~built.dialog
        <5>1. spins' = [s \in Spins |-> 0] /\ built.selecting /\ ~built'.selecting
          BY <1>0, <2>a, <3>1, <4>3 DEF copy_dialog, Shown
        <5>2. chosen["quality"] = 0 /\ chosen["mode"] = 0 /\ chosen["notebook"] = None
          BY <1>0, <4>3, <5>1 DEF Fresh
        <5> QED BY <2>a, <5>1, <5>2, ScreensAssumption DEF Fresh
      <4> QED BY <4>1, <4>2, <4>3
    <3> QED BY <1>0, <2>a, <3>1, <3>2, <3>3, <3>4, <3>5 DEF TypeOK, Rectangles
  <2>b. CASE /\ NewViewer
             /\ built' = [selecting |-> TRUE, valid |-> FALSE, dialog |-> FALSE, confirmation |-> FALSE]
             /\ simulated' = NoChoice /\ spins' = [s \in Spins |-> 0]
    <3>1. taps'.count = 0 /\ taps' \in [count : {0, 1}, raced : BOOLEAN]
      BY <1>0, <1>1 DEF TypeOK
    <3>2. Shown' /\ Fresh'
      BY <2>b DEF NewViewer, Shown, Fresh, confirmation_dialog
    <3>3. built' \in [selecting : BOOLEAN, valid : BOOLEAN, dialog : BOOLEAN, confirmation : BOOLEAN]
      BY <2>b
    <3>4. /\ spins' \in [Spins -> Nat] /\ chosen' \in [Spins -> Nat \cup {None}]
          /\ \A spin \in Spins : spins'[spin] \in 0 .. Top[spin] /\ chosen'[spin] \in {None} \cup 0 .. Top[spin]
      BY <2>b, ScreensAssumption DEF NewViewer, NoChoice
    <3>5. touchDownPoint' \in [x : Nat, y : Nat] /\ selection' \in Rectangles
      BY <2>b DEF NewViewer, NoSelection, Rectangles
    <3> QED BY <2>b, <3>1, <3>2, <3>3, <3>4, <3>5 DEF NewViewer
  <2> QED BY <1>3, <2>a, <2>b
<1>5. Counted'
  BY <1>0, <1>1, <1>2 DEF Counted, MaxAttempts
<1>6. TypeOK'
  <2>1. next \in {"lock", "asleep", "screenshot", "launcher"} /\ unlocked \in BOOLEAN
    BY DEF next, unlocked, Shows
  <2>4. passcode' \in Seq(Digits) /\ attempts' \in Nat /\ wrong' \in 0 .. MaxAttempts
    <3>1. <<>> \in Seq(Digits) /\ 0 \in 0 .. MaxAttempts
      BY DEF MaxAttempts
    <3>2. passcode \in Seq(Digits) /\ attempts \in Nat /\ wrong \in 0 .. MaxAttempts /\ 0 \in Nat
      BY <1>0 DEF TypeOK
    <3>3. CASE UNCHANGED <<passcode, wrong, attempts>>
      BY <3>2, <3>3
    <3>4. CASE passcode' = <<>> /\ wrong' = 0 /\ attempts' = 0
      BY <3>1, <3>2, <3>4
    <3> QED BY <1>2, <3>3, <3>4
  <2>5. xochitlPasscode' \in Codes \cup {<<>>}
    BY <1>0, <1>1 DEF TypeOK
  <2>3. isUnlocked' \in BOOLEAN
    BY <1>1, <2>1 DEF Build
  <2> QED BY <1>0, <1>1, <1>4, <2>1, <2>3, <2>4, <2>5 DEF TypeOK, Rectangles
<1>8. CropIsSelection'
  BY <1>0, <1>1, <1>3 DEF CropIsSelection, NewViewer
<1> QED BY <1>4, <1>5, <1>6, <1>8 DEF ViewerInv

(* A tap is counted since the build whose tree handled it. *)
LEMMA TapCounts ==
  ASSUME taps \in [count : {0, 1}, raced : BOOLEAN], Tap
  PROVE  /\ taps' \in [count : {0, 1}, raced : BOOLEAN] /\ taps'.count = 1
         /\ taps'.raced <=> taps.raced \/ taps.count = 1
<1>1. taps' = [count |-> 1, raced |-> taps.raced \/ taps.count > 0]
  BY DEF Tap
<1>2. taps.count \in {0, 1} /\ taps.raced \in BOOLEAN
  OBVIOUS
<1>3. (taps.raced \/ taps.count > 0) \in BOOLEAN /\ (taps.count > 0 <=> taps.count = 1)
  BY <1>2
<1>4. taps'.count = 1 /\ taps'.raced = (taps.raced \/ taps.count > 0)
  BY <1>1
<1> QED BY <1>1, <1>3, <1>4

(* The buttons of the viewer: each belongs to the tree of the last build. *)
LEMMA ButtonStep ==
  ASSUME ViewerInv,
         copyButton \/ closeButton \/ DialogCancel \/ DialogCopy \/ ConfirmationCancel \/ Confirm
  PROVE  ViewerInv'
<1> USE DEF launcher, lock, touch, dialog, viewer
<1>0. /\ TypeOK /\ Counted /\ Shown /\ Fresh /\ CropIsSelection
      /\ taps \in [count : {0, 1}, raced : BOOLEAN]
  BY DEF ViewerInv, TypeOK
<1>1. /\ taps' \in [count : {0, 1}, raced : BOOLEAN] /\ taps'.count = 1
      /\ taps'.raced <=> taps.raced \/ taps.count = 1
      /\ UNCHANGED <<lock, built>>
  <2>1. Tap
    BY DEF copyButton, closeButton, DialogCancel, DialogCopy, ConfirmationCancel, Confirm
  <2>2. UNCHANGED <<lock, built>>
    BY DEF copyButton, closeButton, DialogCancel, DialogCopy, ConfirmationCancel, Confirm
  <2> QED BY <1>0, <2>1, <2>2, TapCounts
<1>2. Counted'
  BY <1>0, <1>1 DEF Counted
<1>3. built.selecting \/ (built.dialog <=> ~built.selecting)
  BY <1>0 DEF Shown
<1>4. CASE copyButton
  <2>1. /\ crop' = selection /\ selection' = selection /\ isSelecting' = FALSE
        /\ built.selecting /\ chosen' = Chosen
    BY <1>4 DEF copyButton, Reached
  <2>2. /\ chosen' \in [Spins -> Nat \cup {None}]
        /\ \A spin \in Spins : chosen'[spin] \in {None} \cup 0 .. Top[spin]
        /\ chosen'["quality"] = 0 /\ chosen'["mode"] = 0 /\ chosen'["notebook"] = None
    <3>1. /\ chosen \in [Spins -> Nat \cup {None}]
          /\ \A spin \in Spins : chosen[spin] \in {None} \cup 0 .. Top[spin]
          /\ Spins = {"quality", "notebook", "mode"}
          /\ \A spin \in Spins : 0 \in 0 .. Top[spin]
      BY <1>0, ScreensAssumption DEF TypeOK
    <3> QED BY <2>1, <3>1 DEF Chosen
  <2>3. Shown' /\ Fresh' /\ CropIsSelection'
    BY <1>0, <1>1, <1>4, <2>1, <2>2 DEF copyButton, Shown, Fresh, CropIsSelection
  <2>4. TypeOK'
    BY <1>0, <1>1, <1>4, <2>1, <2>2 DEF copyButton, TypeOK
  <2> QED BY <1>2, <2>3, <2>4 DEF ViewerInv
<1>5. CASE closeButton \/ Confirm
  <2>1. isViewingScreenshot' = FALSE /\ UNCHANGED <<shown, isUnlocked, asleep, lock, touch, dialog, built, simulated, crop>>
    BY <1>5 DEF closeButton, Confirm, onClose
  <2>2. Shown' /\ Fresh' /\ CropIsSelection'
    BY <1>0, <1>1, <2>1 DEF Shown, Fresh, CropIsSelection
  <2>3. TypeOK'
    BY <1>0, <1>1, <2>1 DEF TypeOK
  <2> QED BY <1>2, <2>2, <2>3 DEF ViewerInv
<1>6. CASE DialogCancel \/ ConfirmationCancel
  <2>1. /\ isSelecting' = TRUE /\ selection' = NoSelection
        /\ UNCHANGED <<launcher, lock, finger, touchDownPoint, chosen, spins, built, simulated, crop>>
    BY <1>6 DEF DialogCancel, ConfirmationCancel, resetSelection
  <2>2. isShowingConfirmation' \in BOOLEAN
    BY <1>0, <1>6 DEF DialogCancel, ConfirmationCancel, TypeOK
  <2>3. isShowingConfirmation' => taps'.raced
    <3>1. CASE ConfirmationCancel
      BY <3>1 DEF ConfirmationCancel
    <3>2. CASE DialogCancel
      <4>1. ~built.confirmation
        BY <1>0, <3>2 DEF DialogCancel, Reached
      <4> QED BY <1>0, <1>1, <3>2, <4>1 DEF DialogCancel, Shown
    <3> QED BY <1>6, <3>1, <3>2
  <2>4. Shown' /\ Fresh' /\ CropIsSelection'
    BY <1>0, <1>1, <2>1, <2>3 DEF Shown, Fresh, CropIsSelection
  <2>5. selection' \in Rectangles
    BY <2>1 DEF NoSelection, Rectangles
  <2>6. TypeOK'
    BY <1>0, <1>1, <2>1, <2>2, <2>5 DEF TypeOK, Rectangles
  <2> QED BY <1>2, <2>4, <2>6 DEF ViewerInv
<1>7. CASE DialogCopy
  <2>1. /\ isShowingConfirmation' = TRUE
        /\ UNCHANGED <<launcher, lock, touch, isSelecting, chosen, spins, built, simulated, crop>>
    BY <1>7 DEF DialogCopy
  <2>2. ~built.selecting
    BY <1>7 DEF DialogCopy, Reached
  <2>3. Shown' /\ Fresh' /\ CropIsSelection'
    BY <1>0, <1>1, <2>1, <2>2 DEF Shown, Fresh, CropIsSelection
  <2>4. TypeOK'
    BY <1>0, <1>1, <2>1 DEF TypeOK
  <2> QED BY <1>2, <2>3, <2>4 DEF ViewerInv
<1> QED BY <1>4, <1>5, <1>6, <1>7

(* The spins. *)
LEMMA SpinStep ==
  ASSUME ViewerInv, NEW spin \in Spins, NEW difference \in Int, changeValue(spin, difference)
  PROVE  ViewerInv'
<1> USE DEF launcher, lock, touch, viewer
<1>0. /\ TypeOK /\ Counted /\ Shown /\ Fresh /\ CropIsSelection
      /\ taps \in [count : {0, 1}, raced : BOOLEAN]
      /\ spins \in [Spins -> Nat] /\ chosen \in [Spins -> Nat \cup {None}]
  BY DEF ViewerInv, TypeOK
<1> DEFINE value == Clamp(spin, spins[spin] + difference)
<1>1. /\ spins' = [spins EXCEPT ![spin] = value] /\ chosen' = [chosen EXCEPT ![spin] = value]
      /\ taps' \in [count : {0, 1}, raced : BOOLEAN] /\ taps'.count = 1
      /\ taps'.raced <=> taps.raced \/ taps.count = 1
      /\ ~built.selecting
      /\ UNCHANGED <<launcher, lock, touch, isSelecting, isShowingConfirmation, built, simulated, crop>>
  <2>1. Tap /\ ~built.selecting
    BY DEF changeValue, Reached
  <2>2. taps' \in [count : {0, 1}, raced : BOOLEAN] /\ taps'.count = 1
        /\ (taps'.raced <=> taps.raced \/ taps.count = 1)
    BY <1>0, <2>1, TapCounts
  <2> QED BY <2>1, <2>2 DEF changeValue
<1>2. value \in 0 .. Top[spin] /\ value \in Nat
  <2>1. value \in 0 .. Top[spin] /\ Top[spin] \in Nat
    BY <1>0, SpinType, ScreensAssumption
  <2> QED BY <2>1
<1> HIDE DEF value
<1>3. TypeOK'
  BY <1>0, <1>1, <1>2 DEF TypeOK
<1>4. Counted' /\ Shown' /\ CropIsSelection'
  BY <1>0, <1>1 DEF Counted, Shown, CropIsSelection
<1>5. Fresh'
  BY <1>0, <1>1, <1>2 DEF Fresh
<1> QED BY <1>3, <1>4, <1>5 DEF ViewerInv

LEMMA ScreensStep == ViewerInv /\ [Next]_vars => ViewerInv'
<1> SUFFICES ASSUME ViewerInv, [Next]_vars PROVE ViewerInv'
  OBVIOUS
<1>1. {-Jump, -1, 1, Jump} \subseteq Int
  BY ScreensAssumption
<1> QED BY <1>1, LockStep, LauncherStep, TouchStep, BuildStep, ButtonStep, SpinStep DEF Next

------------------------------------------------------------------------------

(* Five wrong codes on one lock screen power the device off, however builds of the     *)
(* launcher, a new code in the file and deleted digits come between them. *)
THEOREM FiveWrongCodesPowerOff == Spec => []OffAfterFive
<1>1. ViewerInv => OffAfterFive
  BY DEF ViewerInv, Counted, OffAfterFive, TypeOK, MaxAttempts
<1> QED BY <1>1, ScreensInit, ScreensStep, PTL DEF Spec

(* What the viewer copies is what it shows: the crop is the selection, the choices are *)
(* those of the spins, and the confirmation names them, however touches come before    *)
(* the builds that show them. *)
THEOREM ScreenshotIsAsShown == Spec => []ShownIsCopied
<1>1. ViewerInv => ShownIsCopied
  <2> SUFFICES ASSUME ViewerInv PROVE SpinsMatch /\ CopyIsWhatIsShown
    BY DEF ViewerInv, ShownIsCopied
  <2>1. Shown /\ Fresh /\ CropIsSelection
    BY DEF ViewerInv
  <2>2. SpinsMatch
    BY <2>1 DEF SpinsMatch, Shown, Fresh
  <2>3. CopyIsWhatIsShown
    BY <2>1 DEF CopyIsWhatIsShown, Shown, Reached, CropIsSelection, confirmation_dialog, buildCopyCommand
  <2> QED BY <2>2, <2>3
<1> QED BY <1>1, ScreensInit, ScreensStep, PTL DEF Spec

=============================================================================
