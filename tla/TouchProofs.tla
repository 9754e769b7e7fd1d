----------------------------- MODULE TouchProofs -----------------------------
(***************************************************************************)
(* Theorems about touches, for any devices, setups, places, tracking ids   *)
(* and any size of the kernel's buffers: what the app knows is what the    *)
(* kernel knows, and a touch that came down leaves.                        *)
(***************************************************************************)
EXTENDS Touch, SequenceTheorems, WellFoundedInduction, TLAPS

------------------------------------------------------------------------------
(* Recursive definitions                                                      *)

LEMMA InductionOverSet ==
  ASSUME NEW S, 0 \in S, \A n \in Nat : n \in S => n + 1 \in S
  PROVE  Nat \subseteq S
<1> DEFINE T == Nat \ S
<1> SUFFICES ASSUME T # {} PROVE FALSE
  OBVIOUS
<1>1. \A x \in Nat, y \in Nat : y < x => <<y, x>> \in OpToRel(<, Nat)
  BY DEF OpToRel
<1>2. PICK x \in T : \A y \in T : ~ (<<y, x>> \in OpToRel(<, Nat))
  <2>1. T \subseteq Nat
    OBVIOUS
  <2> HIDE DEF T
  <2> QED BY <2>1, NatLessThanWellFounded, WFMin
<1>3. x \in Nat /\ x # 0 /\ x \notin S
  OBVIOUS
<1>4. x - 1 \in Nat /\ x - 1 < x /\ x - 1 + 1 = x
  BY <1>3
<1>5. x - 1 \in S
  BY <1>1, <1>2, <1>3, <1>4
<1> QED BY <1>3, <1>4, <1>5

LEMMA Ascends ==
  ASSUME NEW m \in Nat, NEW S, 0 \in S, \A j \in 1 .. m : j - 1 \in S => j \in S
  PROVE  0 .. m \subseteq S
<1> DEFINE T == {k \in Nat : k <= m => k \in S}
<1>1. 0 \in T
  OBVIOUS
<1>2. ASSUME NEW k \in Nat, k \in T PROVE k + 1 \in T
  <2> SUFFICES ASSUME k + 1 <= m PROVE k + 1 \in S
    OBVIOUS
  <2>1. PICK j \in 1 .. m : j = k + 1
    OBVIOUS
  <2>2. j - 1 = k
    BY <2>1
  <2> QED BY <1>2, <2>1, <2>2
<1>3. Nat \subseteq T
  <2> HIDE DEF T
  <2> QED BY <1>1, <1>2, InductionOverSet
<1> QED BY <1>3

\* The recursive definitions define functions.
LEMMA WrittenUpToDef ==
  ASSUME NEW d, NEW writes, Len(writes) \in Nat
  PROVE  /\ WrittenUpTo(d, writes)[0] = [k |-> kernel[d], out |-> <<>>]
         /\ \A i \in 1 .. Len(writes) : WrittenUpTo(d, writes)[i] = Write(d, WrittenUpTo(d, writes)[i - 1], writes[i])
<1> DEFINE Base == [k |-> kernel[d], out |-> <<>>]
           Step(x, i) == Write(d, x, writes[i])
           Defines(r, n) == r = [i \in 0 .. n |-> IF i = 0 THEN Base ELSE Step(r[i - 1], i)]
           S == {n \in Nat : \E r : Defines(r, n)}
<1>5. WrittenUpTo(d, writes) = CHOOSE r : Defines(r, Len(writes))
  BY DEF WrittenUpTo
<1> HIDE DEF Base, Step
<1>1. 0 \in S
  <2>1. Defines([i \in 0 .. 0 |-> Base], 0)
    OBVIOUS
  <2> QED BY <2>1
<1>2. ASSUME NEW n \in Nat, n \in S PROVE n + 1 \in S
  <2>1. PICK r : Defines(r, n)
    BY <1>2
  <2> DEFINE s == [i \in 0 .. n + 1 |-> IF i = n + 1 THEN Step(r[n], n + 1) ELSE r[i]]
  <2>2. ASSUME NEW i \in 0 .. n + 1 PROVE s[i] = IF i = 0 THEN Base ELSE Step(s[i - 1], i)
    <3>1. CASE i = n + 1
      <4>1. i # 0 /\ i - 1 = n /\ n \in 0 .. n + 1 /\ n # n + 1
        BY <3>1
      <4> QED BY <3>1, <4>1
    <3>2. CASE i = 0
      BY <2>1, <3>2
    <3>3. CASE i # 0 /\ i # n + 1
      <4>1. i \in 0 .. n /\ i - 1 \in 0 .. n + 1 /\ i - 1 # n + 1
        BY <3>3
      <4> QED BY <2>1, <3>3, <4>1
    <3> QED BY <3>1, <3>2, <3>3
  <2>3. Defines(s, n + 1)
    BY <2>2
  <2>4. n + 1 \in Nat
    OBVIOUS
  <2> HIDE DEF Defines, s
  <2> QED BY <2>3, <2>4
<1>3. Nat \subseteq S
  <2> HIDE DEF S
  <2> QED BY <1>1, <1>2, InductionOverSet
<1>4. \E r : Defines(r, Len(writes))
  BY <1>3
<1> HIDE DEF Defines
<1>6. Defines(WrittenUpTo(d, writes), Len(writes))
  BY <1>4, <1>5
<1> DEFINE r == WrittenUpTo(d, writes)
<1>7. r[0] = Base /\ \A i \in 1 .. Len(writes) : r[i] = Step(r[i - 1], i)
  <2> HIDE DEF r
  <2>1. r = [i \in 0 .. Len(writes) |-> IF i = 0 THEN Base ELSE Step(r[i - 1], i)]
    BY <1>6 DEF Defines, r
  <2> QED BY <2>1
<1> HIDE DEF r
<1> QED BY <1>7 DEF Base, Step, r

LEMMA ReadUpToDef ==
  ASSUME NEW d, NEW view, NEW t, NEW report, Len(report) \in Nat
  PROVE  /\ ReadUpTo(d, view, t, report)[0].view = view /\ ReadUpTo(d, view, t, report)[0].t = t
         /\ \A i \in 1 .. Len(report) :
              /\ ReadUpTo(d, view, t, report)[i].view = After(ReadUpTo(d, view, t, report)[i - 1].view, report[i])
              /\ ReadUpTo(d, view, t, report)[i].t = Handle(d, ReadUpTo(d, view, t, report)[i - 1].t, report[i])
<1> DEFINE Base == [view |-> view, t |-> t]
           Step(x, i) == [view |-> After(x.view, report[i]), t |-> Handle(d, x.t, report[i])]
           Defines(r, n) == r = [i \in 0 .. n |-> IF i = 0 THEN Base ELSE Step(r[i - 1], i)]
           S == {n \in Nat : \E r : Defines(r, n)}
<1>5. ReadUpTo(d, view, t, report) = CHOOSE r : Defines(r, Len(report))
  BY DEF ReadUpTo
<1> HIDE DEF Base, Step
<1>1. 0 \in S
  <2>1. Defines([i \in 0 .. 0 |-> Base], 0)
    OBVIOUS
  <2> QED BY <2>1
<1>2. ASSUME NEW n \in Nat, n \in S PROVE n + 1 \in S
  <2>1. PICK r : Defines(r, n)
    BY <1>2
  <2> DEFINE s == [i \in 0 .. n + 1 |-> IF i = n + 1 THEN Step(r[n], n + 1) ELSE r[i]]
  <2>2. ASSUME NEW i \in 0 .. n + 1 PROVE s[i] = IF i = 0 THEN Base ELSE Step(s[i - 1], i)
    <3>1. CASE i = n + 1
      <4>1. i # 0 /\ i - 1 = n /\ n \in 0 .. n + 1 /\ n # n + 1
        BY <3>1
      <4> QED BY <3>1, <4>1
    <3>2. CASE i = 0
      BY <2>1, <3>2
    <3>3. CASE i # 0 /\ i # n + 1
      <4>1. i \in 0 .. n /\ i - 1 \in 0 .. n + 1 /\ i - 1 # n + 1
        BY <3>3
      <4> QED BY <2>1, <3>3, <4>1
    <3> QED BY <3>1, <3>2, <3>3
  <2>3. Defines(s, n + 1)
    BY <2>2
  <2>4. n + 1 \in Nat
    OBVIOUS
  <2> HIDE DEF Defines, s
  <2> QED BY <2>3, <2>4
<1>3. Nat \subseteq S
  <2> HIDE DEF S
  <2> QED BY <1>1, <1>2, InductionOverSet
<1>4. \E r : Defines(r, Len(report))
  BY <1>3
<1> HIDE DEF Defines
<1>6. Defines(ReadUpTo(d, view, t, report), Len(report))
  BY <1>4, <1>5
<1> DEFINE r == ReadUpTo(d, view, t, report)
<1>7. r[0] = Base /\ \A i \in 1 .. Len(report) : r[i] = Step(r[i - 1], i)
  <2> HIDE DEF r
  <2>1. r = [i \in 0 .. Len(report) |-> IF i = 0 THEN Base ELSE Step(r[i - 1], i)]
    BY <1>6 DEF Defines, r
  <2> QED BY <2>1
<1> HIDE DEF r
<1>8. r[0].view = view /\ r[0].t = t
  BY <1>7 DEF Base
<1>9. ASSUME NEW i \in 1 .. Len(report)
      PROVE  /\ r[i].view = After(r[i - 1].view, report[i])
             /\ r[i].t = Handle(d, r[i - 1].t, report[i])
  <2>1. r[i] = [view |-> After(r[i - 1].view, report[i]), t |-> Handle(d, r[i - 1].t, report[i])]
    BY <1>7 DEF Step
  <2> QED BY ONLY <2>1
<1> QED BY <1>8, <1>9 DEF r

Received == [down |-> down, paired |-> paired, current |-> current, keys |-> keys,
             pressed |-> pressed, mouse |-> mouse, unseen |-> unseen]

LEMMA ReceivedUpToDef ==
  ASSUME NEW evs, Len(evs) \in Nat
  PROVE  /\ ReceivedUpTo(evs)[0] = Received
         /\ \A i \in 1 .. Len(evs) : ReceivedUpTo(evs)[i] = Receive(ReceivedUpTo(evs)[i - 1], evs[i])
<1> DEFINE Base == Received
           Step(x, i) == Receive(x, evs[i])
           Defines(r, n) == r = [i \in 0 .. n |-> IF i = 0 THEN Base ELSE Step(r[i - 1], i)]
           S == {n \in Nat : \E r : Defines(r, n)}
<1>5. ReceivedUpTo(evs) = CHOOSE r : Defines(r, Len(evs))
  BY DEF ReceivedUpTo, Received
<1> HIDE DEF Base, Step
<1>1. 0 \in S
  <2>1. Defines([i \in 0 .. 0 |-> Base], 0)
    OBVIOUS
  <2> QED BY <2>1
<1>2. ASSUME NEW n \in Nat, n \in S PROVE n + 1 \in S
  <2>1. PICK r : Defines(r, n)
    BY <1>2
  <2> DEFINE s == [i \in 0 .. n + 1 |-> IF i = n + 1 THEN Step(r[n], n + 1) ELSE r[i]]
  <2>2. ASSUME NEW i \in 0 .. n + 1 PROVE s[i] = IF i = 0 THEN Base ELSE Step(s[i - 1], i)
    <3>1. CASE i = n + 1
      <4>1. i # 0 /\ i - 1 = n /\ n \in 0 .. n + 1 /\ n # n + 1
        BY <3>1
      <4> QED BY <3>1, <4>1
    <3>2. CASE i = 0
      BY <2>1, <3>2
    <3>3. CASE i # 0 /\ i # n + 1
      <4>1. i \in 0 .. n /\ i - 1 \in 0 .. n + 1 /\ i - 1 # n + 1
        BY <3>3
      <4> QED BY <2>1, <3>3, <4>1
    <3> QED BY <3>1, <3>2, <3>3
  <2>3. Defines(s, n + 1)
    BY <2>2
  <2>4. n + 1 \in Nat
    OBVIOUS
  <2> HIDE DEF Defines, s
  <2> QED BY <2>3, <2>4
<1>3. Nat \subseteq S
  <2> HIDE DEF S
  <2> QED BY <1>1, <1>2, InductionOverSet
<1>4. \E r : Defines(r, Len(evs))
  BY <1>3
<1> HIDE DEF Defines
<1>6. Defines(ReceivedUpTo(evs), Len(evs))
  BY <1>4, <1>5
<1> DEFINE r == ReceivedUpTo(evs)
<1>7. r[0] = Base /\ \A i \in 1 .. Len(evs) : r[i] = Step(r[i - 1], i)
  <2> HIDE DEF r
  <2>1. r = [i \in 0 .. Len(evs) |-> IF i = 0 THEN Base ELSE Step(r[i - 1], i)]
    BY <1>6 DEF Defines, r
  <2> QED BY <2>1
<1> HIDE DEF r
<1> QED BY <1>7 DEF Base, Step, r

------------------------------------------------------------------------------
(* Paths: the states between x and y, one for each element of a sequence.     *)

Path(R, x, f, y) ==
  \E p : p[0] = x /\ p[Len(f)] = y /\ \A n \in 1 .. Len(f) : <<p[n - 1], f[n], p[n]>> \in R

LEMMA PathNone ==
  ASSUME NEW R, NEW x
  PROVE  Path(R, x, <<>>, x)
<1> DEFINE p == [n \in 0 .. 0 |-> x]
<1>1. p[0] = x /\ Len(<<>>) = 0 /\ 1 .. 0 = {}
  OBVIOUS
<1> QED BY <1>1 DEF Path

LEMMA PathOne ==
  ASSUME NEW R, NEW x, NEW e, NEW y, <<x, e, y>> \in R
  PROVE  Path(R, x, <<e>>, y)
<1> DEFINE p == [n \in 0 .. 1 |-> IF n = 0 THEN x ELSE y]
           f == <<e>>
<1>1. p[0] = x /\ p[1] = y /\ Len(f) = 1 /\ f[1] = e
  OBVIOUS
<1> HIDE DEF p, f
<1>2. \A n \in 1 .. Len(f) : <<p[n - 1], f[n], p[n]>> \in R
  <2>1. \A n \in 1 .. Len(f) : n = 1 /\ n - 1 = 0
    BY <1>1
  <2> QED BY <1>1, <2>1
<1>3. Path(R, x, f, y)
  BY <1>1, <1>2 DEF Path
<1> QED BY <1>3 DEF f

LEMMA PathConcat ==
  ASSUME NEW R, NEW S, NEW f \in Seq(S), NEW g \in Seq(S), NEW x, NEW y, NEW z,
         Path(R, x, f, y), Path(R, y, g, z)
  PROVE  Path(R, x, f \o g, z) /\ f \o g \in Seq(S)
<1>1. PICK p : p[0] = x /\ p[Len(f)] = y /\ \A n \in 1 .. Len(f) : <<p[n - 1], f[n], p[n]>> \in R
  BY DEF Path
<1>2. PICK q : q[0] = y /\ q[Len(g)] = z /\ \A n \in 1 .. Len(g) : <<q[n - 1], g[n], q[n]>> \in R
  BY DEF Path
<1> DEFINE h == f \o g
           k == Len(f)
           m == Len(g)
           r == [n \in 0 .. k + m |-> IF n <= k THEN p[n] ELSE q[n - k]]
<1>3. /\ k \in Nat /\ m \in Nat /\ Len(h) = k + m /\ h \in Seq(S)
      /\ \A n \in 1 .. k : h[n] = f[n]
      /\ \A n \in k + 1 .. k + m : h[n] = g[n - k]
  BY ConcatProperties
<1> HIDE DEF h
<1>4. r[0] = x
  BY <1>1, <1>3
<1>5. r[Len(h)] = z
  <2>1. CASE m = 0
    BY <1>1, <1>2, <1>3, <2>1
  <2>2. CASE m # 0
    BY <1>2, <1>3, <2>2
  <2> QED BY <2>1, <2>2
<1>6. ASSUME NEW n \in 1 .. Len(h) PROVE <<r[n - 1], h[n], r[n]>> \in R
  <2>1. n \in 1 .. k + m /\ n \in 0 .. k + m /\ n - 1 \in 0 .. k + m
    BY <1>3
  <2>2. CASE n <= k
    <3>1. n \in 1 .. k /\ n - 1 <= k
      BY <1>3, <2>1, <2>2
    <3>2. r[n - 1] = p[n - 1] /\ r[n] = p[n] /\ h[n] = f[n]
      BY <1>3, <2>1, <2>2, <3>1
    <3> QED BY <1>1, <3>1, <3>2
  <2>3. CASE n > k
    <3>1. n \in k + 1 .. k + m /\ n - k \in 1 .. m /\ ~ (n <= k)
      BY <1>3, <2>1, <2>3
    <3>2. r[n] = q[n - k] /\ h[n] = g[n - k]
      BY <1>3, <2>1, <3>1
    <3>3. r[n - 1] = q[n - k - 1]
      <4>1. CASE n - 1 = k
        <5>1. r[n - 1] = p[k] /\ n - k - 1 = 0
          BY <1>3, <2>1, <4>1
        <5> QED BY <1>1, <1>2, <5>1
      <4>2. CASE n - 1 # k
        <5>1. ~ (n - 1 <= k) /\ n - 1 - k = n - k - 1
          BY <1>3, <3>1, <4>2
        <5> QED BY <2>1, <5>1
      <4> QED BY <4>1, <4>2
    <3> HIDE DEF k, m, r
    <3> QED BY <1>2, <3>1, <3>2, <3>3 DEF m
  <2> QED BY <1>3, <2>1, <2>2, <2>3
<1> HIDE DEF r
<1>7. Path(R, x, h, z)
  BY <1>4, <1>5, <1>6 DEF Path
<1> QED BY <1>3, <1>7 DEF h

\* What holds of the first state and is kept by every step holds of the last one.
LEMMA PathKeeps ==
  ASSUME NEW R, NEW S, NEW f \in Seq(S), NEW x, NEW y, Path(R, x, f, y), NEW r, NEW G, <<x, r[0]>> \in G,
         \A n \in 1 .. Len(f) : \A a, b : <<a, r[n - 1]>> \in G /\ <<a, f[n], b>> \in R => <<b, r[n]>> \in G
  PROVE  <<y, r[Len(f)]>> \in G
<1>1. PICK p : p[0] = x /\ p[Len(f)] = y /\ \A n \in 1 .. Len(f) : <<p[n - 1], f[n], p[n]>> \in R
  BY DEF Path
<1> DEFINE m == Len(f)
           T == {n \in 0 .. m : <<p[n], r[n]>> \in G}
<1>2. m \in Nat
  OBVIOUS
<1>3. 0 \in T
  BY <1>1, <1>2
<1>4. ASSUME NEW j \in 1 .. m, j - 1 \in T PROVE j \in T
  <2>1. <<p[j - 1], r[j - 1]>> \in G /\ <<p[j - 1], f[j], p[j]>> \in R
    BY <1>1, <1>4
  <2>2. <<p[j], r[j]>> \in G
    BY <2>1
  <2> QED BY <1>2, <2>2
<1>5. 0 .. m \subseteq T
  <2> HIDE DEF T, m
  <2> QED BY <1>2, <1>3, <1>4, Ascends
<1>6. m \in T
  BY <1>2, <1>5
<1> QED BY <1>1, <1>6

------------------------------------------------------------------------------
(* What is passed on                                                          *)

Tracks == Ids \union {None, FakeId, 1}
Views == [slot : Slot, tool : {0, 1}, track : [Slot -> Tracks], pos : [Slot -> Pos]]
Kernels == [slot : Slot, sent : Slot, tool : {0, 1}, track : [Slot -> Tracks], pos : [Slot -> Pos]]
Words ==
  ({"slot"} \X Slot) \union ({"track"} \X Tracks) \union ({"pos"} \X Pos)
    \union ({"tool"} \X {0, 1}) \union ({"dropped"} \X {0})

\* An event of a report that began at view v: a slot's touch, and the tool, change once in it,
\* the tool before the touch, and no touch takes the place of another.
Proper(d, v, u, ev) ==
  /\ ev[1] \in Codes(d) \union {"dropped"}
  /\ ev[1] = "track" => /\ u.track[u.slot] = v.track[u.slot] /\ ev[2] # v.track[u.slot]
                        /\ ev[2] = None \/ v.track[u.slot] = None
  /\ ev[1] = "tool" => u.tool = v.tool /\ ev[2] # v.tool /\ u.track = v.track

Steps(d, v) ==
  {x \in Views \X Words \X Views : Proper(d, v, x[1], x[2]) /\ x[3] = After(x[1], x[2])}

\* A report that leads from view v to view w
Leads(d, v, f, w) == f \in Seq(Words) /\ Path(Steps(d, v), v, f, w)

LEMMA WordKinds ==
  ASSUME NEW ev \in Words
  PROVE  /\ ev = <<ev[1], ev[2]>>
         /\ ev[1] \in {"slot", "track", "pos", "tool", "dropped"}
         /\ ev[1] = "slot" => ev[2] \in Slot
         /\ ev[1] = "track" => ev[2] \in Tracks
         /\ ev[1] = "pos" => ev[2] \in Pos
         /\ ev[1] = "tool" => ev[2] \in {0, 1}
BY DEF Words

\* What one event changes of a view
LEMMA AfterIs ==
  ASSUME NEW u \in Views, NEW ev \in Words
  PROVE  /\ After(u, ev) \in Views
         /\ After(u, ev).slot = IF ev[1] = "slot" THEN ev[2] ELSE u.slot
         /\ After(u, ev).tool = IF ev[1] = "tool" THEN ev[2] ELSE u.tool
         /\ \A s \in Slot : After(u, ev).track[s] = IF ev[1] = "track" /\ s = u.slot THEN ev[2] ELSE u.track[s]
         /\ \A s \in Slot : After(u, ev).pos[s] = IF ev[1] = "pos" /\ s = u.slot THEN ev[2] ELSE u.pos[s]
<1>1. CASE ev[1] = "slot"
  BY <1>1, WordKinds DEF After, Views
<1>2. CASE ev[1] = "track"
  BY <1>2, WordKinds DEF After, Views
<1>3. CASE ev[1] = "pos"
  BY <1>3, WordKinds DEF After, Views
<1>4. CASE ev[1] = "tool"
  BY <1>4, WordKinds DEF After, Views
<1>5. CASE ev[1] = "dropped"
  BY <1>5, WordKinds DEF After, Views
<1> QED BY <1>1, <1>2, <1>3, <1>4, <1>5, WordKinds

\* Views with the same parts are the same.
LEMMA SameView ==
  ASSUME NEW u \in Views, NEW w \in Views, u.slot = w.slot, u.tool = w.tool,
         \A s \in Slot : u.track[s] = w.track[s] /\ u.pos[s] = w.pos[s]
  PROVE  u = w
<1>1. u.track = w.track /\ u.pos = w.pos
  BY DEF Views
<1> QED BY <1>1 DEF Views

LEMMA OneStep ==
  ASSUME NEW d, NEW v, NEW u \in Views, NEW ev \in Words, Proper(d, v, u, ev)
  PROVE  <<u, ev, After(u, ev)>> \in Steps(d, v)
<1>1. After(u, ev) \in Views
  BY AfterIs
<1> QED BY <1>1 DEF Steps

LEMMA OneEvent ==
  ASSUME NEW d, NEW v, NEW u \in Views, NEW ev \in Words, Proper(d, v, u, ev)
  PROVE  Path(Steps(d, v), u, <<ev>>, After(u, ev)) /\ <<ev>> \in Seq(Words)
<1>1. <<u, ev, After(u, ev)>> \in Steps(d, v)
  BY OneStep, Zenon
<1>2. Path(Steps(d, v), u, <<ev>>, After(u, ev))
  BY <1>1, PathOne, Zenon
<1> QED BY <1>2

------------------------------------------------------------------------------
(* The kernel                                                                 *)

\* What was passed on so far tells a reader who knew v what it tells of k.
Passed(d, v, acc) ==
  /\ acc = [k |-> acc.k, out |-> acc.out]
  /\ acc.k \in Kernels /\ acc.out \in Seq(Words)
  /\ Path(Steps(d, v), v, acc.out, Told(acc.k))
  /\ d \notin TouchDevices => acc.k.sent = acc.k.slot

\* A write that a report may have: see Proper.
Allowed(d, v, k, w) ==
  /\ w \in Words /\ w[1] # "dropped"
  /\ w[1] = "track" => k.track[k.slot] = w[2] \/ ( /\ k.track[k.slot] = v.track[k.slot]
                                                   /\ w[2] = None \/ v.track[k.slot] = None)
  /\ w[1] = "tool" => k.tool = w[2] \/ (k.tool = v.tool /\ k.track = v.track)

\* What the kernel has after a write
Has(d, k, w, k2) ==
  /\ k2.slot = IF w[1] = "slot" THEN w[2] ELSE k.slot
  /\ k2.tool = IF w[1] = "tool" THEN w[2] ELSE k.tool
  /\ k2.track = IF w[1] = "track" THEN [k.track EXCEPT ![k.slot] = w[2]] ELSE k.track
  /\ k2.pos = IF w[1] = "pos" THEN [k.pos EXCEPT ![k.slot] = w[2]] ELSE k.pos

LEMMA ToldIs ==
  ASSUME NEW k \in Kernels
  PROVE  /\ Told(k) \in Views /\ Told(k).slot = k.sent /\ Told(k).tool = k.tool
         /\ Told(k).track = k.track /\ Told(k).pos = k.pos
BY DEF Told, Kernels, Views

\* One value is passed on, after its slot.
LEMMA PassOne ==
  ASSUME NEW d, NEW v, NEW acc, Passed(d, v, acc), NEW w \in Words, w[1] \in Codes(d) \ {"slot"},
         Allowed(d, v, acc.k, w), NEW k2 \in Kernels, Has(d, acc.k, w, k2), k2.sent = acc.k.slot,
         w[1] = "track" => acc.k.track[acc.k.slot] # w[2],
         w[1] = "tool" => acc.k.tool # w[2],
         "slot" \in Codes(d) \/ d \notin TouchDevices,
         NEW out, out = acc.out \o (IF acc.k.sent = acc.k.slot THEN <<>> ELSE << <<"slot", acc.k.slot>> >>) \o <<w>>
  PROVE  Passed(d, v, [k |-> k2, out |-> out])
<1> DEFINE k == acc.k
           s == acc.k.slot
           R == Steps(d, v)
           told == [Told(k) EXCEPT !.slot = s]
           slot == IF k.sent = s THEN <<>> ELSE << <<"slot", s>> >>
<1>1. /\ k \in Kernels /\ acc.out \in Seq(Words) /\ Path(R, v, acc.out, Told(k))
      /\ d \notin TouchDevices => k.sent = s
  BY DEF Passed
<1>2. /\ Told(k) \in Views /\ Told(k).slot = k.sent /\ Told(k).tool = k.tool
      /\ Told(k).track = k.track /\ Told(k).pos = k.pos
  BY <1>1, ToldIs
<1>3. /\ told \in Views /\ told.slot = s /\ told.tool = k.tool /\ told.track = k.track /\ told.pos = k.pos
      /\ s \in Slot
  BY <1>1, <1>2 DEF Views, Kernels
<1>4. Path(R, Told(k), slot, told) /\ slot \in Seq(Words)
  <2>1. CASE k.sent = s
    <3>1. told = Told(k)
      BY <1>2, <1>3, <2>1, SameView
    <3>2. slot = <<>> /\ <<>> \in Seq(Words)
      BY <2>1
    <3> HIDE DEF told, slot, R
    <3> QED BY <3>1, <3>2, PathNone
  <2>2. CASE k.sent # s
    <3> DEFINE ev == <<"slot", s>>
    <3>1. ev \in Words /\ ev[1] = "slot" /\ ev[2] = s
      BY <1>3 DEF Words
    <3>2. Proper(d, v, Told(k), ev)
      BY <1>1, <2>2, <3>1 DEF Proper
    <3>3. After(Told(k), ev) = told
      BY <3>1 DEF After
    <3>4. slot = <<ev>>
      BY <2>2
    <3> HIDE DEF ev, told, slot
    <3> QED BY <1>2, <3>1, <3>2, <3>3, <3>4, OneEvent
  <2> QED BY <2>1, <2>2
<1>5. Path(R, told, <<w>>, Told(k2)) /\ <<w>> \in Seq(Words)
  <2>1. Proper(d, v, told, w)
    BY <1>3 DEF Proper, Allowed
  <2>2. After(told, w) = Told(k2)
    <3>1. /\ Told(k2) \in Views /\ Told(k2).slot = s /\ Told(k2).tool = k2.tool
          /\ Told(k2).track = k2.track /\ Told(k2).pos = k2.pos
      BY ToldIs
    <3>2. /\ k2.tool = IF w[1] = "tool" THEN w[2] ELSE k.tool
          /\ k2.track = IF w[1] = "track" THEN [k.track EXCEPT ![s] = w[2]] ELSE k.track
          /\ k2.pos = IF w[1] = "pos" THEN [k.pos EXCEPT ![s] = w[2]] ELSE k.pos
      BY DEF Has
    <3>3. k.track \in [Slot -> Tracks] /\ k.pos \in [Slot -> Pos]
      BY <1>1 DEF Kernels
    <3>4. /\ After(told, w) \in Views
          /\ After(told, w).slot = s
          /\ After(told, w).tool = IF w[1] = "tool" THEN w[2] ELSE k.tool
          /\ \A o \in Slot : After(told, w).track[o] = IF w[1] = "track" /\ o = s THEN w[2] ELSE k.track[o]
          /\ \A o \in Slot : After(told, w).pos[o] = IF w[1] = "pos" /\ o = s THEN w[2] ELSE k.pos[o]
      <4> HIDE DEF told
      <4> QED BY <1>3, AfterIs
    <3>5. \A o \in Slot : /\ k2.track[o] = IF w[1] = "track" /\ o = s THEN w[2] ELSE k.track[o]
                          /\ k2.pos[o] = IF w[1] = "pos" /\ o = s THEN w[2] ELSE k.pos[o]
      BY <3>2, <3>3
    <3> DEFINE a == After(told, w)
               b == Told(k2)
    <3>6. a \in Views /\ b \in Views /\ a.slot = b.slot /\ a.tool = b.tool
      BY <3>1, <3>2, <3>4
    <3>7. \A o \in Slot : a.track[o] = b.track[o] /\ a.pos[o] = b.pos[o]
      BY <3>1, <3>4, <3>5
    <3> HIDE DEF a, b
    <3>8. a = b
      BY <3>6, <3>7, SameView
    <3> QED BY <3>8 DEF a, b
  <2> HIDE DEF told, R
  <2> QED BY <1>3, <2>1, <2>2, OneEvent DEF R
<1>6. Path(R, v, acc.out \o slot, told) /\ acc.out \o slot \in Seq(Words)
  <2> HIDE DEF told, R, slot
  <2> QED BY <1>1, <1>4, PathConcat
<1>7. Path(R, v, (acc.out \o slot) \o <<w>>, Told(k2)) /\ (acc.out \o slot) \o <<w>> \in Seq(Words)
  <2> HIDE DEF told, R, slot
  <2> QED BY <1>5, <1>6, PathConcat
<1>8. out = (acc.out \o slot) \o <<w>>
  OBVIOUS
<1>9. d \notin TouchDevices => k2.sent = k2.slot
  BY DEF Has
<1> DEFINE new == [k |-> k2, out |-> out]
<1>10. new.k = k2 /\ new.out = out /\ new = [k |-> new.k, out |-> new.out]
  OBVIOUS
<1> HIDE DEF new
<1>11. Passed(d, v, new)
  BY <1>7, <1>8, <1>9, <1>10 DEF Passed
<1> QED BY <1>11 DEF new

LEMMA SlotCodes ==
  ASSUME NEW d \in Device
  PROVE  /\ "slot" \in Codes(d) <=> d \in TouchDevices
         /\ "track" \in Codes(d) <=> d \notin KeyDevices
         /\ "pos" \in Codes(d) <=> d \notin KeyDevices
         /\ "tool" \in Codes(d) <=> d \notin TouchDevices
         /\ "dropped" \notin Codes(d)
         /\ Made(d) = IF d \in TouchDevices THEN "touch" ELSE IF d \in PenDevices THEN "pen" ELSE "key"
         /\ d \notin TouchDevices /\ d \notin PenDevices <=> d \in KeyDevices
         /\ ~ (d \in TouchDevices /\ d \in PenDevices)
BY TouchAssumption DEF Codes, TouchCodes, PenCodes, ButtonCodes, Made, Device

LEMMA WriteStep ==
  ASSUME NEW d \in Device, NEW v, NEW acc, Passed(d, v, acc), NEW w, Allowed(d, v, acc.k, w)
  PROVE  /\ Passed(d, v, Write(d, acc, w))
         /\ w[1] \in Codes(d) => Has(d, acc.k, w, Write(d, acc, w).k)
         /\ w[1] \notin Codes(d) => Write(d, acc, w).k = acc.k
<1> DEFINE k == acc.k
           s == acc.k.slot
<1>0. /\ w \in Words /\ w[1] \in {"slot", "track", "pos", "tool"}
      /\ w[1] = "slot" => w[2] \in Slot
      /\ w[1] = "track" => w[2] \in Tracks
      /\ w[1] = "pos" => w[2] \in Pos
      /\ w[1] = "tool" => w[2] \in {0, 1}
  BY WordKinds DEF Allowed
<1>1. /\ acc = [k |-> k, out |-> acc.out] /\ k \in Kernels /\ s \in Slot
      /\ k.track \in [Slot -> Tracks] /\ k.pos \in [Slot -> Pos]
  BY DEF Passed, Kernels
<1>2. CASE w[1] \notin Codes(d)
  <2>1. Write(d, acc, w) = acc
    BY <1>2 DEF Write
  <2> QED BY <1>2, <2>1
<1>3. CASE w[1] \in Codes(d) /\ w[1] = "slot"
  <2> DEFINE k2 == [k EXCEPT !.slot = w[2]]
  <2>1. Write(d, acc, w) = [k |-> k2, out |-> acc.out]
    BY <1>1, <1>3 DEF Write
  <2>2. k2 \in Kernels /\ Told(k2) = Told(k) /\ Has(d, k, w, k2)
    BY <1>0, <1>1, <1>3 DEF Kernels, Told, Has
  <2>3. d \in TouchDevices
    BY <1>3, SlotCodes
  <2> HIDE DEF k2
  <2>4. Passed(d, v, [k |-> k2, out |-> acc.out])
    BY <2>2, <2>3 DEF Passed
  <2> QED BY <1>3, <2>1, <2>2, <2>4
<1>4. CASE w[1] \in Codes(d) /\ w[1] # "slot" /\ (\/ w[1] = "track" /\ k.track[s] = w[2]
                                                  \/ w[1] = "pos" /\ k.pos[s] = w[2]
                                                  \/ w[1] = "tool" /\ k.tool = w[2])
  <2>1. Write(d, acc, w) = acc
    BY <1>4 DEF Write
  <2>2. Has(d, k, w, k)
    BY <1>1, <1>4 DEF Has
  <2> QED BY <1>4, <2>1, <2>2
<1>5. CASE w[1] \in Codes(d) /\ w[1] = "track" /\ k.track[s] # w[2]
  <2> DEFINE k1 == [k EXCEPT !.track[s] = w[2]]
             k2 == [k1 EXCEPT !.sent = s]
             out == acc.out \o (IF k.sent = s THEN <<>> ELSE << <<"slot", s>> >>) \o <<w>>
  <2>1. Write(d, acc, w) = [k |-> k2, out |-> out]
    BY <1>5 DEF Write
  <2>2. k2 \in Kernels /\ k2.sent = s /\ Has(d, k, w, k2)
    BY <1>0, <1>1, <1>5 DEF Kernels, Has
  <2>3. "slot" \in Codes(d) \/ d \notin TouchDevices
    BY SlotCodes
  <2>4. w[1] \in Codes(d) \ {"slot"} /\ w[1] # "tool"
    BY <1>5
  <2> DEFINE o == out
  <2>5. o = acc.out \o (IF k.sent = s THEN <<>> ELSE << <<"slot", s>> >>) \o <<w>>
    OBVIOUS
  <2> HIDE DEF k2, o
  <2>6. Passed(d, v, [k |-> k2, out |-> o])
    BY <1>0, <1>5, <2>2, <2>3, <2>4, <2>5, PassOne
  <2> QED BY <1>5, <2>1, <2>2, <2>6 DEF o
<1>6. CASE w[1] \in Codes(d) /\ w[1] = "pos" /\ k.pos[s] # w[2]
  <2> DEFINE k1 == [k EXCEPT !.pos[s] = w[2]]
             k2 == [k1 EXCEPT !.sent = s]
             out == acc.out \o (IF k.sent = s THEN <<>> ELSE << <<"slot", s>> >>) \o <<w>>
  <2>1. Write(d, acc, w) = [k |-> k2, out |-> out]
    BY <1>6 DEF Write
  <2>2. k2 \in Kernels /\ k2.sent = s /\ Has(d, k, w, k2)
    BY <1>0, <1>1, <1>6 DEF Kernels, Has
  <2>3. "slot" \in Codes(d) \/ d \notin TouchDevices
    BY SlotCodes
  <2>4. w[1] \in Codes(d) \ {"slot"} /\ w[1] # "tool" /\ w[1] # "track"
    BY <1>6
  <2> DEFINE o == out
  <2>5. o = acc.out \o (IF k.sent = s THEN <<>> ELSE << <<"slot", s>> >>) \o <<w>>
    OBVIOUS
  <2> HIDE DEF k2, o
  <2>6. Passed(d, v, [k |-> k2, out |-> o])
    BY <1>0, <2>2, <2>3, <2>4, <2>5, PassOne
  <2> QED BY <1>6, <2>1, <2>2, <2>6 DEF o
<1>7. CASE w[1] \in Codes(d) /\ w[1] = "tool" /\ k.tool # w[2]
  <2> DEFINE k1 == [k EXCEPT !.tool = w[2]]
             k2 == [k1 EXCEPT !.sent = s]
             out == acc.out \o (IF k.sent = s THEN <<>> ELSE << <<"slot", s>> >>) \o <<w>>
  <2>1. Write(d, acc, w) = [k |-> k2, out |-> out]
    BY <1>7 DEF Write
  <2>2. k2 \in Kernels /\ k2.sent = s /\ Has(d, k, w, k2)
    BY <1>0, <1>1, <1>7 DEF Kernels, Has
  <2>3. "slot" \in Codes(d) \/ d \notin TouchDevices
    BY SlotCodes
  <2>4. w[1] \in Codes(d) \ {"slot"} /\ w[1] # "track"
    BY <1>7
  <2> DEFINE o == out
  <2>5. o = acc.out \o (IF k.sent = s THEN <<>> ELSE << <<"slot", s>> >>) \o <<w>>
    OBVIOUS
  <2> HIDE DEF k2, o
  <2>6. Passed(d, v, [k |-> k2, out |-> o])
    BY <1>0, <1>7, <2>2, <2>3, <2>4, <2>5, PassOne
  <2> QED BY <1>7, <2>1, <2>2, <2>6 DEF o
<1> QED BY <1>0, <1>2, <1>3, <1>4, <1>5, <1>6, <1>7

\* What fits a device: a pen and a button have one slot, a viewer's touches are all in slot 1.
Fits(d, v) ==
  /\ d \notin TouchDevices => v.slot = 0 /\ v.track[1] = None /\ v.pos[1] = Off
  /\ d \in PenDevices => v.track[0] \in {None, 1}
  /\ d \in KeyDevices => v.track[0] = None /\ v.pos[0] = Off
  /\ d \in TouchDevices \ Remote => \A s \in Slot : v.track[s] \in Ids \union {None}
  /\ d \in TouchDevices \cap Remote => v.track[0] = None /\ v.track[1] \in {None, FakeId}

KernelOK(d) ==
  /\ kernel[d] \in Kernels /\ Fits(d, Told(kernel[d]))
  /\ d \notin TouchDevices => kernel[d].sent = kernel[d].slot

\* A touch that is new in k2 has an id nobody knows.
NewTouch(d, k2) ==
  d \in TouchDevices \ Remote =>
    \A s \in Slot :
      \/ k2.track[s] \in {None, kernel[d].track[s]}
      \/ /\ ~InUse(d, k2.track[s])
         /\ \A o \in Slot \ {s} : k2.track[o] = kernel[d].track[o]

\* What the writes of a report pass on
Passes(d, writes) ==
  LET r == WrittenUpTo(d, writes)[Len(writes)]
  IN Passed(d, Told(kernel[d]), r) /\ Fits(d, Told(r.k)) /\ NewTouch(d, r.k)

LEMMA WritesStart ==
  ASSUME NEW d \in Device, KernelOK(d), NEW writes, Len(writes) \in Nat
  PROVE  /\ Passed(d, Told(kernel[d]), WrittenUpTo(d, writes)[0])
         /\ WrittenUpTo(d, writes)[0].k = kernel[d]
<1> DEFINE acc == [k |-> kernel[d], out |-> <<>>]
           R == Steps(d, Told(kernel[d]))
<1>1. WrittenUpTo(d, writes)[0] = acc
  BY WrittenUpToDef, Zenon
<1>2. acc = [k |-> acc.k, out |-> acc.out] /\ acc.k = kernel[d] /\ acc.out = <<>>
  OBVIOUS
<1>3. <<>> \in Seq(Words)
  OBVIOUS
<1>4. Path(R, Told(kernel[d]), <<>>, Told(kernel[d]))
  BY PathNone, Zenon
<1> HIDE DEF acc
<1> QED BY <1>1, <1>2, <1>3, <1>4 DEF Passed, KernelOK

LEMMA WritesStep ==
  ASSUME NEW d \in Device, NEW writes, NEW v, Len(writes) \in Nat, NEW n \in 1 .. Len(writes),
         Passed(d, v, WrittenUpTo(d, writes)[n - 1]),
         Allowed(d, v, WrittenUpTo(d, writes)[n - 1].k, writes[n])
  PROVE  /\ Passed(d, v, WrittenUpTo(d, writes)[n])
         /\ writes[n][1] \in Codes(d) =>
              Has(d, WrittenUpTo(d, writes)[n - 1].k, writes[n], WrittenUpTo(d, writes)[n].k)
         /\ writes[n][1] \notin Codes(d) => WrittenUpTo(d, writes)[n].k = WrittenUpTo(d, writes)[n - 1].k
<1> DEFINE r == WrittenUpTo(d, writes)
<1>1. r[n] = Write(d, r[n - 1], writes[n])
  BY WrittenUpToDef, Zenon
<1> HIDE DEF r
<1>2. Passed(d, v, r[n - 1]) /\ Allowed(d, v, r[n - 1].k, writes[n])
  BY DEF r
<1>3. /\ Passed(d, v, Write(d, r[n - 1], writes[n]))
      /\ writes[n][1] \in Codes(d) => Has(d, r[n - 1].k, writes[n], Write(d, r[n - 1], writes[n]).k)
      /\ writes[n][1] \notin Codes(d) => Write(d, r[n - 1], writes[n]).k = r[n - 1].k
  <2> DEFINE acc == r[n - 1]
             w == writes[n]
  <2>1. Passed(d, v, acc) /\ Allowed(d, v, acc.k, w)
    BY <1>2
  <2> HIDE DEF acc, w
  <2>2. /\ Passed(d, v, Write(d, acc, w))
        /\ w[1] \in Codes(d) => Has(d, acc.k, w, Write(d, acc, w).k)
        /\ w[1] \notin Codes(d) => Write(d, acc, w).k = acc.k
    BY <2>1, WriteStep
  <2> QED BY <2>2 DEF acc, w
<1>4. /\ Passed(d, v, r[n])
      /\ writes[n][1] \in Codes(d) => Has(d, r[n - 1].k, writes[n], r[n].k)
      /\ writes[n][1] \notin Codes(d) => r[n].k = r[n - 1].k
  BY <1>1, <1>3, Zenon
<1> QED BY <1>4 DEF r

LEMMA FingerPasses ==
  ASSUME NEW d \in TouchDevices \ Remote, KernelOK(d), NEW s \in Slot, NEW i \in Ids, NEW p \in Pos,
         NEW act \in {"down", "move", "up"},
         act = "down" => kernel[d].track[s] = None /\ ~InUse(d, i)
  PROVE  Passes(d, FingerWrites(d, s, act, i, p))
<1> DEFINE v == Told(kernel[d])
           writes == FingerWrites(d, s, act, i, p)
           r == WrittenUpTo(d, writes)
           k == kernel[d]
<1>0. /\ d \in Device /\ "slot" \in Codes(d) /\ "track" \in Codes(d) /\ "pos" \in Codes(d)
      /\ d \notin KeyDevices /\ d \notin PenDevices
  BY TouchAssumption, SlotCodes DEF Device
<1>1. /\ k \in Kernels /\ k.track \in [Slot -> Tracks] /\ k.pos \in [Slot -> Pos]
      /\ v.track = k.track /\ v.tool = k.tool /\ Fits(d, v)
  BY ToldIs DEF KernelOK, Kernels
<1>2. Len(writes) \in {2, 3} /\ writes[1] = <<"slot", s>>
  BY DEF FingerWrites
<1>3. Passed(d, v, r[0]) /\ r[0].k = k
  BY <1>0, <1>2, WritesStart
<1>4. Allowed(d, v, r[0].k, writes[1])
  BY <1>2 DEF Allowed, Words
<1> HIDE DEF v, writes, r, k
<1>5. Passed(d, v, r[1]) /\ Has(d, r[0].k, writes[1], r[1].k)
  <2>1. 1 \in 1 .. Len(writes) /\ 1 - 1 = 0 /\ Len(writes) \in Nat
    BY <1>2
  <2>2. writes[1][1] \in Codes(d)
    BY <1>0, <1>2
  <2> QED BY <1>0, <1>3, <1>4, <2>1, <2>2, WritesStep DEF r
<1>6. r[1].k.slot = s /\ r[1].k.track = k.track /\ r[1].k.tool = k.tool
  BY <1>2, <1>3, <1>5 DEF Has
<1>7. writes[2] = IF act = "down" THEN <<"track", i>> ELSE IF act = "move" THEN <<"pos", p>> ELSE <<"track", None>>
  BY DEF FingerWrites, writes
<1>8. Allowed(d, v, r[1].k, writes[2])
  <2>1. writes[2] \in Words
    BY <1>7 DEF Words, Tracks
  <2> QED BY <1>1, <1>6, <1>7, <2>1 DEF Allowed, k
<1>9. Passed(d, v, r[2]) /\ Has(d, r[1].k, writes[2], r[2].k)
  <2>1. 2 \in 1 .. Len(writes) /\ 2 - 1 = 1 /\ Len(writes) \in Nat
    BY <1>2
  <2>2. writes[2][1] \in Codes(d)
    BY <1>0, <1>7
  <2> QED BY <1>0, <1>5, <1>8, <2>1, <2>2, WritesStep DEF r
<1>10. r[2].k.track = IF act = "down" THEN [k.track EXCEPT ![s] = i]
                      ELSE IF act = "move" THEN k.track ELSE [k.track EXCEPT ![s] = None]
  BY <1>6, <1>7, <1>9 DEF Has
<1>11. Passed(d, v, r[Len(writes)]) /\ r[Len(writes)].k.track = r[2].k.track
  <2>1. CASE act = "down"
    <3>1. writes[3] = <<"pos", p>> /\ Len(writes) = 3
      BY <2>1 DEF FingerWrites, writes
    <3>2. Allowed(d, v, r[2].k, writes[3])
      BY <3>1 DEF Allowed, Words
    <3>3. Passed(d, v, r[3]) /\ Has(d, r[2].k, writes[3], r[3].k)
      <4>1. 3 \in 1 .. Len(writes) /\ 3 - 1 = 2 /\ Len(writes) \in Nat /\ writes[3][1] \in Codes(d)
        BY <1>0, <3>1
      <4> QED BY <1>0, <1>9, <3>2, <4>1, WritesStep DEF r
    <3> QED BY <3>1, <3>3 DEF Has
  <2>2. CASE act # "down"
    <3>1. Len(writes) = 2
      BY <2>2 DEF FingerWrites, writes
    <3> QED BY <1>9, <3>1
  <2> QED BY <2>1, <2>2
<1> DEFINE k2 == r[Len(writes)].k
<1>12. k2 \in Kernels /\ Told(k2).track = k2.track
  BY <1>11, ToldIs DEF Passed
<1>13. Fits(d, Told(k2))
  BY <1>0, <1>1, <1>10, <1>11, <1>12 DEF Fits
<1>14. NewTouch(d, k2)
  BY <1>1, <1>10, <1>11 DEF NewTouch, k
<1> QED BY <1>11, <1>13, <1>14 DEF Passes, v, r, writes

LEMMA BothUpPasses ==
  ASSUME NEW d \in TouchDevices \ Remote, KernelOK(d)
  PROVE  Passes(d, FingerWrites(d, 0, "up", None, Off) \o FingerWrites(d, 1, "up", None, Off))
<1> DEFINE v == Told(kernel[d])
           writes == FingerWrites(d, 0, "up", None, Off) \o FingerWrites(d, 1, "up", None, Off)
           r == WrittenUpTo(d, writes)
           k == kernel[d]
<1>0. /\ d \in Device /\ "slot" \in Codes(d) /\ "track" \in Codes(d)
      /\ d \notin KeyDevices /\ d \notin PenDevices
  BY TouchAssumption, SlotCodes DEF Device
<1>1. /\ k \in Kernels /\ k.track \in [Slot -> Tracks] /\ k.pos \in [Slot -> Pos]
      /\ v.track = k.track /\ v.tool = k.tool /\ Fits(d, v)
  BY ToldIs DEF KernelOK, Kernels
<1>2. /\ Len(writes) = 4 /\ Len(writes) \in Nat
      /\ writes[1] = <<"slot", 0>> /\ writes[2] = <<"track", None>>
      /\ writes[3] = <<"slot", 1>> /\ writes[4] = <<"track", None>>
  BY DEF FingerWrites
<1>3. Passed(d, v, r[0]) /\ r[0].k = k
  BY <1>0, <1>2, WritesStart
<1>4. \A n \in 1 .. 4 : writes[n] \in Words /\ writes[n][1] # "dropped" /\ writes[n][1] # "tool"
  <2>1. <<"slot", 0>> \in Words /\ <<"slot", 1>> \in Words /\ <<"track", None>> \in Words
    BY DEF Words, Slot, Tracks
  <2>2. \A n \in 1 .. 4 : n \in {1, 2, 3, 4}
    OBVIOUS
  <2> HIDE DEF writes
  <2> QED BY <1>2, <2>1, <2>2
<1> HIDE DEF v, writes, r, k
<1>5. Passed(d, v, r[1]) /\ r[1].k.slot = 0 /\ r[1].k.track = k.track
  <2>1. 1 \in 1 .. Len(writes) /\ 1 - 1 = 0 /\ writes[1][1] \in Codes(d)
    BY <1>0, <1>2
  <2>2. Allowed(d, v, r[0].k, writes[1])
    BY <1>2, <1>4 DEF Allowed
  <2>3. Passed(d, v, r[1]) /\ Has(d, r[0].k, writes[1], r[1].k)
    BY <1>0, <1>2, <1>3, <2>1, <2>2, WritesStep DEF r
  <2> QED BY <1>2, <1>3, <2>3 DEF Has
<1>6. Passed(d, v, r[2]) /\ r[2].k.slot = 0 /\ r[2].k.track = [k.track EXCEPT ![0] = None]
  <2>1. 2 \in 1 .. Len(writes) /\ 2 - 1 = 1 /\ writes[2][1] \in Codes(d)
    BY <1>0, <1>2
  <2>2. Allowed(d, v, r[1].k, writes[2])
    BY <1>1, <1>2, <1>4, <1>5 DEF Allowed
  <2>3. Passed(d, v, r[2]) /\ Has(d, r[1].k, writes[2], r[2].k)
    BY <1>0, <1>2, <1>5, <2>1, <2>2, WritesStep DEF r
  <2> QED BY <1>2, <1>5, <2>3 DEF Has
<1>7. Passed(d, v, r[3]) /\ r[3].k.slot = 1 /\ r[3].k.track = [k.track EXCEPT ![0] = None]
  <2>1. 3 \in 1 .. Len(writes) /\ 3 - 1 = 2 /\ writes[3][1] \in Codes(d)
    BY <1>0, <1>2
  <2>2. Allowed(d, v, r[2].k, writes[3])
    BY <1>2, <1>4 DEF Allowed
  <2>3. Passed(d, v, r[3]) /\ Has(d, r[2].k, writes[3], r[3].k)
    BY <1>0, <1>2, <1>6, <2>1, <2>2, WritesStep DEF r
  <2> QED BY <1>2, <1>6, <2>3 DEF Has
<1>8. Passed(d, v, r[4]) /\ r[4].k.track = [r[3].k.track EXCEPT ![1] = None]
  <2>1. 4 \in 1 .. Len(writes) /\ 4 - 1 = 3 /\ writes[4][1] \in Codes(d)
    BY <1>0, <1>2
  <2>2. Allowed(d, v, r[3].k, writes[4])
    <3>1. r[3].k.track[1] = k.track[1]
      BY <1>1, <1>7
    <3> QED BY <1>1, <1>2, <1>4, <1>7, <3>1 DEF Allowed
  <2>3. Passed(d, v, r[4]) /\ Has(d, r[3].k, writes[4], r[4].k)
    BY <1>0, <1>2, <1>7, <2>1, <2>2, WritesStep DEF r
  <2> QED BY <1>2, <1>7, <2>3 DEF Has
<1>9. \A s \in Slot : r[4].k.track[s] = None
  BY <1>1, <1>7, <1>8 DEF Slot
<1>10. Fits(d, Told(r[4].k))
  <2>1. Told(r[4].k).track = r[4].k.track
    BY <1>8, ToldIs DEF Passed
  <2> QED BY <1>0, <1>9, <2>1 DEF Fits
<1>11. NewTouch(d, r[4].k)
  BY <1>9 DEF NewTouch
<1>12. Len(writes) = 4
  BY <1>2
<1> QED BY <1>8, <1>10, <1>11, <1>12 DEF Passes, v, r, writes

\* The writes of a viewer's touch, of a pen and of a button
TouchWrites(type, p) ==
  (CASE type = "Down" -> << <<"slot", FakeSlot>>, <<"track", FakeId>> >>
     [] type = "Up" -> << <<"track", None>>, <<"slot", 0>> >>
     [] type = "Move" -> <<>>) \o << <<"pos", p>> >>

LEMMA SendTouchPasses ==
  ASSUME NEW d \in TouchDevices \cap Remote, KernelOK(d), NEW type \in {"Down", "Up", "Move"}, NEW p \in Pos
  PROVE  Passes(d, TouchWrites(type, p))
<1> DEFINE v == Told(kernel[d])
           writes == TouchWrites(type, p)
           r == WrittenUpTo(d, writes)
           k == kernel[d]
<1>0. /\ d \in Device /\ "slot" \in Codes(d) /\ "track" \in Codes(d) /\ "pos" \in Codes(d)
      /\ d \notin KeyDevices /\ d \notin PenDevices
  BY TouchAssumption, SlotCodes DEF Device
<1>1. /\ k \in Kernels /\ k.track \in [Slot -> Tracks] /\ k.slot \in Slot
      /\ v.track = k.track /\ v.tool = k.tool /\ Fits(d, v)
  BY ToldIs DEF KernelOK, Kernels
<1>2. k.track[0] = None /\ k.track[1] \in {None, FakeId}
  BY <1>1 DEF Fits
<1>3. /\ type = "Down" => /\ Len(writes) = 3 /\ writes[1] = <<"slot", 1>>
                          /\ writes[2] = <<"track", FakeId>> /\ writes[3] = <<"pos", p>>
      /\ type = "Up" => /\ Len(writes) = 3 /\ writes[1] = <<"track", None>>
                        /\ writes[2] = <<"slot", 0>> /\ writes[3] = <<"pos", p>>
      /\ type = "Move" => Len(writes) = 1 /\ writes[1] = <<"pos", p>>
      /\ Len(writes) \in Nat
  BY DEF TouchWrites, FakeSlot
<1>4. Passed(d, v, r[0]) /\ r[0].k = k
  BY <1>0, <1>3, WritesStart
<1>5. /\ <<"slot", 0>> \in Words /\ <<"slot", 1>> \in Words /\ <<"track", FakeId>> \in Words
      /\ <<"track", None>> \in Words /\ <<"pos", p>> \in Words
  BY DEF Words, Slot, Tracks
<1> HIDE DEF v, writes, r, k
<1>6. ASSUME NEW n \in 1 .. Len(writes), Passed(d, v, r[n - 1]), Allowed(d, v, r[n - 1].k, writes[n]),
             writes[n][1] \in Codes(d)
      PROVE  Passed(d, v, r[n]) /\ Has(d, r[n - 1].k, writes[n], r[n].k)
  BY <1>0, <1>3, <1>6, WritesStep DEF r
<1> DEFINE last == Len(writes)
<1>7. CASE type = "Down"
  <2>0. /\ Len(writes) = 3 /\ writes[1] = <<"slot", 1>>
        /\ writes[2] = <<"track", FakeId>> /\ writes[3] = <<"pos", p>>
    BY <1>3, <1>7
  <2>1. Passed(d, v, r[1]) /\ r[1].k.slot = 1 /\ r[1].k.track = k.track
    <3>1. 1 \in 1 .. Len(writes) /\ 1 - 1 = 0 /\ writes[1][1] \in Codes(d)
      BY <1>0, <2>0
    <3>2. Allowed(d, v, r[0].k, writes[1])
      BY <1>3, <1>5, <1>7 DEF Allowed
    <3>3. Passed(d, v, r[1]) /\ Has(d, r[0].k, writes[1], r[1].k)
      BY <1>4, <1>6, <3>1, <3>2
    <3> QED BY <1>3, <1>4, <1>7, <3>3 DEF Has
  <2>2. Passed(d, v, r[2]) /\ r[2].k.track = [k.track EXCEPT ![1] = FakeId]
    <3>1. 2 \in 1 .. Len(writes) /\ 2 - 1 = 1 /\ writes[2][1] \in Codes(d)
      BY <1>0, <2>0
    <3>2. Allowed(d, v, r[1].k, writes[2])
      BY <1>1, <1>2, <1>3, <1>5, <1>7, <2>1 DEF Allowed
    <3>3. Passed(d, v, r[2]) /\ Has(d, r[1].k, writes[2], r[2].k)
      BY <1>6, <2>1, <3>1, <3>2
    <3> QED BY <1>3, <1>7, <2>1, <3>3 DEF Has
  <2>3. Passed(d, v, r[3]) /\ r[3].k.track = r[2].k.track
    <3>1. 3 \in 1 .. Len(writes) /\ 3 - 1 = 2 /\ writes[3] = <<"pos", p>> /\ writes[3][1] \in Codes(d)
      BY <1>0, <2>0
    <3>2. Allowed(d, v, r[2].k, writes[3])
      BY <1>5, <3>1 DEF Allowed
    <3>3. Passed(d, v, r[3]) /\ Has(d, r[2].k, writes[3], r[3].k)
      BY <1>6, <2>2, <3>1, <3>2
    <3> QED BY <3>1, <3>3 DEF Has
  <2>4. r[3].k.track[0] = None /\ r[3].k.track[1] = FakeId
    BY <1>1, <1>2, <2>2, <2>3 DEF Slot
  <2>5. Told(r[3].k).track = r[3].k.track
    BY <2>3, ToldIs DEF Passed
  <2>6. Fits(d, Told(r[3].k)) /\ NewTouch(d, r[3].k)
    BY <1>0, <2>4, <2>5 DEF Fits, NewTouch, Slot
  <2>7. Len(writes) = 3
    BY <1>3, <1>7
  <2> QED BY <2>3, <2>6, <2>7 DEF Passes, v, r, writes
<1>8. CASE type = "Up"
  <2>0. /\ Len(writes) = 3 /\ writes[1] = <<"track", None>>
        /\ writes[2] = <<"slot", 0>> /\ writes[3] = <<"pos", p>>
    BY <1>3, <1>8
  <2>1. Passed(d, v, r[1]) /\ r[1].k.track = [k.track EXCEPT ![k.slot] = None]
    <3>1. 1 \in 1 .. Len(writes) /\ 1 - 1 = 0 /\ writes[1][1] \in Codes(d)
      BY <1>0, <2>0
    <3>2. Allowed(d, v, r[0].k, writes[1])
      BY <1>1, <1>3, <1>4, <1>5, <1>8 DEF Allowed
    <3>3. Passed(d, v, r[1]) /\ Has(d, r[0].k, writes[1], r[1].k)
      BY <1>4, <1>6, <3>1, <3>2
    <3> QED BY <1>3, <1>4, <1>8, <3>3 DEF Has
  <2>2. Passed(d, v, r[2]) /\ r[2].k.track = r[1].k.track
    <3>1. 2 \in 1 .. Len(writes) /\ 2 - 1 = 1 /\ writes[2][1] \in Codes(d)
      BY <1>0, <2>0
    <3>2. Allowed(d, v, r[1].k, writes[2])
      BY <1>3, <1>5, <1>8 DEF Allowed
    <3>3. Passed(d, v, r[2]) /\ Has(d, r[1].k, writes[2], r[2].k)
      BY <1>6, <2>1, <3>1, <3>2
    <3> QED BY <1>3, <1>8, <3>3 DEF Has
  <2>3. Passed(d, v, r[3]) /\ r[3].k.track = r[2].k.track
    <3>1. 3 \in 1 .. Len(writes) /\ 3 - 1 = 2 /\ writes[3] = <<"pos", p>> /\ writes[3][1] \in Codes(d)
      BY <1>0, <2>0
    <3>2. Allowed(d, v, r[2].k, writes[3])
      BY <1>5, <3>1 DEF Allowed
    <3>3. Passed(d, v, r[3]) /\ Has(d, r[2].k, writes[3], r[3].k)
      BY <1>6, <2>2, <3>1, <3>2
    <3> QED BY <3>1, <3>3 DEF Has
  <2>4. r[3].k.track[0] = None /\ r[3].k.track[1] \in {None, FakeId}
    BY <1>1, <1>2, <2>1, <2>2, <2>3 DEF Slot
  <2>5. Told(r[3].k).track = r[3].k.track
    BY <2>3, ToldIs DEF Passed
  <2>6. Fits(d, Told(r[3].k)) /\ NewTouch(d, r[3].k)
    BY <1>0, <2>4, <2>5 DEF Fits, NewTouch, Slot
  <2>7. Len(writes) = 3
    BY <1>3, <1>8
  <2> QED BY <2>3, <2>6, <2>7 DEF Passes, v, r, writes
<1>9. CASE type = "Move"
  <2>0. Len(writes) = 1 /\ writes[1] = <<"pos", p>>
    BY <1>3, <1>9
  <2>1. Passed(d, v, r[1]) /\ r[1].k.track = k.track
    <3>1. 1 \in 1 .. Len(writes) /\ 1 - 1 = 0 /\ writes[1] = <<"pos", p>> /\ writes[1][1] \in Codes(d)
      BY <1>0, <2>0
    <3>2. Allowed(d, v, r[0].k, writes[1])
      BY <1>5, <3>1 DEF Allowed
    <3>3. Passed(d, v, r[1]) /\ Has(d, r[0].k, writes[1], r[1].k)
      BY <1>4, <1>6, <3>1, <3>2
    <3> QED BY <1>4, <3>1, <3>3 DEF Has
  <2>2. Told(r[1].k).track = r[1].k.track
    BY <2>1, ToldIs DEF Passed
  <2>3. Fits(d, Told(r[1].k)) /\ NewTouch(d, r[1].k)
    BY <1>0, <1>2, <2>1, <2>2 DEF Fits, NewTouch, Slot
  <2>4. Len(writes) = 1
    BY <1>3, <1>9
  <2> QED BY <2>1, <2>3, <2>4 DEF Passes, v, r, writes
<1> QED BY <1>7, <1>8, <1>9

PenWrites(type, p) ==
  << <<"pos", p>> >> \o
    (IF type = "Move" THEN <<>>
     ELSE << <<"tool", IF type = "Down" THEN 1 ELSE 0>>, <<"track", IF type = "Down" THEN 1 ELSE None>> >>)

\* The first write of a pen's report is its position.
LEMMA PenStarts ==
  ASSUME NEW d \in PenDevices, KernelOK(d), NEW writes, Len(writes) \in Nat \ {0}, NEW p \in Pos,
         writes[1] = <<"pos", p>>
  PROVE  LET r == WrittenUpTo(d, writes)
             k == kernel[d]
         IN /\ Passed(d, Told(k), r[1]) /\ r[1].k.track = k.track /\ r[1].k.tool = k.tool /\ r[1].k.slot = 0
            /\ \A s \in Slot : s # 0 => r[1].k.pos[s] = Off
<1> DEFINE v == Told(kernel[d])
           r == WrittenUpTo(d, writes)
           k == kernel[d]
<1>0. d \in Device /\ "pos" \in Codes(d) /\ d \notin TouchDevices
  BY TouchAssumption, SlotCodes DEF Device
<1>1. /\ k \in Kernels /\ k.pos \in [Slot -> Pos] /\ Fits(d, v) /\ v.pos = k.pos /\ v.slot = k.sent
      /\ k.sent = k.slot
  BY <1>0, ToldIs DEF KernelOK, Kernels
<1>2. k.slot = 0 /\ k.pos[1] = Off
  BY <1>0, <1>1 DEF Fits
<1>3. Passed(d, v, r[0]) /\ r[0].k = k
  BY <1>0, WritesStart
<1> HIDE DEF v, r, k
<1>4. 1 \in 1 .. Len(writes) /\ 1 - 1 = 0 /\ writes[1][1] \in Codes(d) /\ Len(writes) \in Nat
  BY <1>0
<1>5. Allowed(d, v, r[0].k, writes[1])
  BY DEF Allowed, Words
<1>6. Passed(d, v, r[1]) /\ Has(d, r[0].k, writes[1], r[1].k)
  BY <1>0, <1>3, <1>4, <1>5, WritesStep DEF r
<1>7. r[1].k.track = k.track /\ r[1].k.tool = k.tool /\ r[1].k.slot = 0 /\ r[1].k.pos = [k.pos EXCEPT ![0] = p]
  BY <1>2, <1>3, <1>6 DEF Has
<1>8. \A s \in Slot : s # 0 => r[1].k.pos[s] = Off
  BY <1>1, <1>2, <1>7 DEF Slot
<1> QED BY <1>6, <1>7, <1>8 DEF v, r, k

LEMMA PenFits ==
  ASSUME NEW d \in PenDevices, NEW v, NEW acc, Passed(d, v, acc), acc.k.slot = 0,
         acc.k.track[0] \in {None, 1}, acc.k.track[1] = None, acc.k.pos[1] = Off
  PROVE  Fits(d, Told(acc.k)) /\ NewTouch(d, acc.k)
<1>1. d \notin TouchDevices /\ d \notin KeyDevices
  BY TouchAssumption
<1>2. /\ Told(acc.k).slot = 0 /\ Told(acc.k).track = acc.k.track /\ Told(acc.k).pos = acc.k.pos
  BY <1>1, ToldIs DEF Passed
<1> QED BY <1>1, <1>2 DEF Fits, NewTouch

LEMMA SendPenPasses ==
  ASSUME NEW d \in PenDevices, KernelOK(d), NEW type \in {"Down", "Up", "Move"}, NEW p \in Pos
  PROVE  Passes(d, PenWrites(type, p))
<1> DEFINE v == Told(kernel[d])
           writes == PenWrites(type, p)
           r == WrittenUpTo(d, writes)
           k == kernel[d]
           tool == IF type = "Down" THEN 1 ELSE 0
           track == IF type = "Down" THEN 1 ELSE None
<1>0. /\ d \in Device /\ "track" \in Codes(d) /\ "tool" \in Codes(d) /\ d \notin TouchDevices
  BY TouchAssumption, SlotCodes DEF Device
<1>1. /\ k \in Kernels /\ k.track \in [Slot -> Tracks] /\ k.track[0] \in {None, 1} /\ k.track[1] = None
      /\ v.track = k.track /\ v.tool = k.tool
  BY <1>0, ToldIs DEF KernelOK, Kernels, Fits
<1>2. /\ type # "Move" => Len(writes) = 3 /\ writes[2] = <<"tool", tool>> /\ writes[3] = <<"track", track>>
      /\ type = "Move" => Len(writes) = 1
      /\ Len(writes) \in Nat \ {0} /\ writes[1] = <<"pos", p>>
  BY DEF PenWrites
<1>3. /\ tool \in {0, 1} /\ track \in {None, 1}
      /\ <<"tool", tool>> \in Words /\ <<"track", track>> \in Words
  BY DEF Words, Tracks
<1> HIDE DEF writes, tool, track
<1>4. /\ Passed(d, v, r[1]) /\ r[1].k.track = k.track /\ r[1].k.tool = k.tool /\ r[1].k.slot = 0
      /\ r[1].k.pos[1] = Off
  BY <1>2, PenStarts DEF Slot
<1> HIDE DEF v, r, k
<1>5. CASE type = "Move"
  <2>1. Len(writes) = 1
    BY <1>2, <1>5
  <2>2. Fits(d, Told(r[1].k)) /\ NewTouch(d, r[1].k)
    BY <1>1, <1>4, PenFits
  <2> QED BY <1>4, <2>1, <2>2 DEF Passes, v, r, writes
<1>6. CASE type # "Move"
  <2>0. Len(writes) = 3 /\ writes[2] = <<"tool", tool>> /\ writes[3] = <<"track", track>>
    BY <1>2, <1>6
  <2>1. /\ Passed(d, v, r[2]) /\ r[2].k.track = k.track /\ r[2].k.slot = 0 /\ r[2].k.pos[1] = Off
    <3>1. 2 \in 1 .. Len(writes) /\ 2 - 1 = 1 /\ Len(writes) \in Nat /\ writes[2][1] \in Codes(d)
      BY <1>0, <2>0
    <3>2. Allowed(d, v, r[1].k, writes[2])
      BY <1>1, <1>3, <1>4, <2>0 DEF Allowed
    <3>3. Passed(d, v, r[2]) /\ Has(d, r[1].k, writes[2], r[2].k)
      BY <1>0, <1>4, <3>1, <3>2, WritesStep DEF r
    <3> QED BY <1>4, <2>0, <3>3 DEF Has
  <2>2. /\ Passed(d, v, r[3]) /\ r[3].k.track = [k.track EXCEPT ![0] = track] /\ r[3].k.slot = 0
        /\ r[3].k.pos[1] = Off
    <3>1. 3 \in 1 .. Len(writes) /\ 3 - 1 = 2 /\ Len(writes) \in Nat /\ writes[3][1] \in Codes(d)
      BY <1>0, <2>0
    <3>2. Allowed(d, v, r[2].k, writes[3])
      BY <1>1, <1>3, <2>0, <2>1 DEF Allowed
    <3>3. Passed(d, v, r[3]) /\ Has(d, r[2].k, writes[3], r[3].k)
      BY <1>0, <2>1, <3>1, <3>2, WritesStep DEF r
    <3> QED BY <2>0, <2>1, <3>3 DEF Has
  <2>3. r[3].k.track[0] \in {None, 1} /\ r[3].k.track[1] = None
    BY <1>1, <1>3, <2>2 DEF Slot
  <2>4. Fits(d, Told(r[3].k)) /\ NewTouch(d, r[3].k)
    BY <2>2, <2>3, PenFits
  <2> QED BY <2>0, <2>2, <2>4 DEF Passes, v, r, writes
<1> QED BY <1>5, <1>6

LEMMA StylusPasses ==
  ASSUME NEW d \in PenDevices, KernelOK(d), NEW p \in Pos,
         NEW w \in {<<"tool", 1>>, <<"tool", 0>>, <<"track", 1>>, <<"track", None>>}
  PROVE  Passes(d, << <<"pos", p>>, w >>)
<1> DEFINE v == Told(kernel[d])
           writes == << <<"pos", p>>, w >>
           r == WrittenUpTo(d, writes)
           k == kernel[d]
<1>0. /\ d \in Device /\ "track" \in Codes(d) /\ "tool" \in Codes(d) /\ d \notin TouchDevices
  BY TouchAssumption, SlotCodes DEF Device
<1>1. /\ k \in Kernels /\ k.track \in [Slot -> Tracks] /\ k.track[0] \in {None, 1} /\ k.track[1] = None
      /\ v.track = k.track /\ v.tool = k.tool
  BY <1>0, ToldIs DEF KernelOK, Kernels, Fits
<1>2. Len(writes) = 2 /\ writes[2] = w /\ Len(writes) \in Nat \ {0} /\ writes[1] = <<"pos", p>>
  OBVIOUS
<1>3. /\ w \in Words /\ w[1] \in {"tool", "track"}
      /\ w[1] = "track" => w[2] \in {None, 1}
  BY DEF Words, Tracks
<1> HIDE DEF writes
<1>4. /\ Passed(d, v, r[1]) /\ r[1].k.track = k.track /\ r[1].k.tool = k.tool /\ r[1].k.slot = 0
      /\ r[1].k.pos[1] = Off
  BY <1>2, PenStarts DEF Slot
<1> HIDE DEF v, r, k
<1>5. Allowed(d, v, r[1].k, writes[2])
  <2>1. r[1].k.track[r[1].k.slot] = k.track[0] /\ v.track[r[1].k.slot] = k.track[0]
    BY <1>1, <1>4
  <2>2. Allowed(d, v, r[1].k, w)
    <3>1. CASE w[1] = "tool"
      BY <1>1, <1>3, <1>4, <3>1 DEF Allowed
    <3>2. CASE w[1] = "track"
      BY <1>1, <1>3, <2>1, <3>2 DEF Allowed
    <3> QED BY <1>3, <3>1, <3>2
  <2> QED BY <1>2, <2>2
<1>6. Passed(d, v, r[2]) /\ Has(d, r[1].k, writes[2], r[2].k)
  <2>1. 2 \in 1 .. Len(writes) /\ 2 - 1 = 1 /\ Len(writes) \in Nat /\ writes[2][1] \in Codes(d)
    BY <1>0, <1>2, <1>3
  <2> QED BY <1>0, <1>4, <1>5, <2>1, WritesStep DEF r
<1>7. /\ r[2].k.track = IF w[1] = "track" THEN [k.track EXCEPT ![0] = w[2]] ELSE k.track
      /\ r[2].k.slot = 0 /\ r[2].k.pos[1] = Off
  BY <1>2, <1>3, <1>4, <1>6 DEF Has
<1>8. r[2].k.track[0] \in {None, 1} /\ r[2].k.track[1] = None
  BY <1>1, <1>3, <1>7 DEF Slot
<1>9. Fits(d, Told(r[2].k)) /\ NewTouch(d, r[2].k)
  BY <1>6, <1>7, <1>8, PenFits
<1> QED BY <1>2, <1>6, <1>9 DEF Passes, v, r, writes

LEMMA SendButtonPasses ==
  ASSUME NEW d \in KeyDevices, KernelOK(d), NEW b \in {0, 1}
  PROVE  Passes(d, << <<"tool", b>> >>)
<1> DEFINE v == Told(kernel[d])
           writes == << <<"tool", b>> >>
           r == WrittenUpTo(d, writes)
           k == kernel[d]
<1>0. d \in Device /\ "tool" \in Codes(d) /\ d \notin TouchDevices /\ d \notin PenDevices
  BY TouchAssumption, SlotCodes DEF Device
<1>1. k \in Kernels /\ v.track = k.track /\ v.tool = k.tool /\ v.slot = k.slot /\ v.pos = k.pos /\ Fits(d, v)
  BY <1>0, ToldIs DEF KernelOK
<1>2. Len(writes) = 1 /\ writes[1] = <<"tool", b>> /\ Len(writes) \in Nat /\ <<"tool", b>> \in Words
  BY DEF Words
<1>3. Passed(d, v, r[0]) /\ r[0].k = k
  BY <1>0, <1>2, WritesStart
<1> HIDE DEF v, r, k, writes
<1>4. Allowed(d, v, r[0].k, writes[1])
  BY <1>1, <1>2, <1>3 DEF Allowed
<1>5. Passed(d, v, r[1]) /\ Has(d, r[0].k, writes[1], r[1].k)
  <2>1. 1 \in 1 .. Len(writes) /\ 1 - 1 = 0 /\ writes[1][1] \in Codes(d)
    BY <1>0, <1>2
  <2> QED BY <1>0, <1>2, <1>3, <1>4, <2>1, WritesStep DEF r
<1>6. r[1].k.track = k.track /\ r[1].k.pos = k.pos /\ r[1].k.slot = k.slot
  BY <1>2, <1>3, <1>5 DEF Has
<1>7. Told(r[1].k).slot = v.slot /\ Told(r[1].k).track = v.track /\ Told(r[1].k).pos = v.pos
  BY <1>0, <1>1, <1>5, <1>6, ToldIs DEF Passed
<1>8. Fits(d, Told(r[1].k)) /\ NewTouch(d, r[1].k)
  BY <1>0, <1>1, <1>7 DEF Fits, NewTouch
<1> QED BY <1>2, <1>5, <1>8 DEF Passes, v, r, writes

------------------------------------------------------------------------------
(* The queue: reports that lead from what the app knows to what the kernel    *)
(* has.                                                                       *)

\* A touch that is in w and not in v has an id no other slot has in either.
NoReuse(v, w) ==
  \A s, o \in Slot : s # o /\ w.track[s] # None /\ w.track[s] # v.track[s] =>
                       w.track[s] # v.track[o] /\ w.track[s] # w.track[o]

Reports == Seq(Seq(Words))

Links(d, q, vs) ==
  /\ \A n \in 0 .. Len(q) : vs[n] \in Views /\ Fits(d, vs[n])
  /\ \A n \in 1 .. Len(q) : Leads(d, vs[n - 1], q[n], vs[n])
  /\ \A m \in 0 .. Len(q) : \A n \in 0 .. Len(q) : m <= n => NoReuse(vs[m], vs[n])

Chain(d, q, v, w) == \E vs : vs[0] = v /\ vs[Len(q)] = w /\ Links(d, q, vs)

LEMMA FitsNoReuse ==
  ASSUME NEW d \in Device, d \notin TouchDevices \ Remote, NEW v, NEW w, Fits(d, v), Fits(d, w)
  PROVE  NoReuse(v, w)
<1>1. \/ v.track[0] = None /\ w.track[0] = None
      \/ v.track[1] = None /\ w.track[1] = None
  BY DEF Fits
<1>3. ASSUME NEW s \in Slot, NEW o \in Slot, s # o, w.track[s] # None, w.track[s] # v.track[s]
      PROVE  w.track[s] # v.track[o] /\ w.track[s] # w.track[o]
  <2>1. (s = 0 /\ o = 1) \/ (s = 1 /\ o = 0)
    BY <1>3 DEF Slot
  <2> QED BY <1>1, <1>3, <2>1
<1> QED BY <1>3 DEF NoReuse

LEMMA ChainNone ==
  ASSUME NEW d, NEW v \in Views, Fits(d, v)
  PROVE  Chain(d, <<>>, v, v)
<1> DEFINE vs == [n \in 0 .. 0 |-> v]
           q == <<>>
<1>1. Len(q) = 0 /\ vs[0] = v /\ 1 .. Len(q) = {} /\ \A n \in 0 .. Len(q) : n = 0
  OBVIOUS
<1> HIDE DEF vs, q
<1>2. NoReuse(v, v)
  BY DEF NoReuse
<1>3. Chain(d, q, v, v)
  BY <1>1, <1>2 DEF Chain, Links
<1> QED BY <1>3 DEF q

\* The first report of the queue is read, and the rest leads on.
LEMMA ChainNext ==
  ASSUME NEW d, NEW v, NEW w, NEW q \in Reports, q # <<>>, Chain(d, q, v, w)
  PROVE  \E z \in Views : /\ Fits(d, z) /\ NoReuse(v, z) /\ Leads(d, v, Head(q), z)
                          /\ NoReuse(z, w) /\ Chain(d, Tail(q), z, w)
<1>1. PICK vs : vs[0] = v /\ vs[Len(q)] = w /\ Links(d, q, vs)
  BY DEF Chain
<1> DEFINE l == Len(q)
           rest == Tail(q)
           us == [n \in 0 .. l - 1 |-> vs[n + 1]]
<1>2. /\ l \in Nat \ {0} /\ Len(rest) = l - 1 /\ Head(q) = q[1]
      /\ \A n \in 1 .. l - 1 : rest[n] = q[n + 1]
  BY DEF Reports
<1> HIDE DEF rest
<1>3. vs[1] \in Views /\ Fits(d, vs[1]) /\ Leads(d, v, q[1], vs[1]) /\ NoReuse(v, vs[1]) /\ NoReuse(vs[1], w)
  <2>1. 1 \in 1 .. l /\ 1 \in 0 .. l /\ 0 \in 0 .. l /\ l \in 0 .. l /\ 1 - 1 = 0 /\ 0 <= 1 /\ 1 <= l
    BY <1>2
  <2> HIDE DEF l
  <2> QED BY <1>1, <2>1 DEF Links, l
<1>4. us[0] = vs[1] /\ us[Len(rest)] = w
  BY <1>1, <1>2
<1>5. Links(d, rest, us)
  <2>1. ASSUME NEW n \in 0 .. Len(rest) PROVE us[n] \in Views /\ Fits(d, us[n])
    <3>1. n \in 0 .. l - 1 /\ n + 1 \in 0 .. Len(q)
      BY <1>2
    <3> QED BY <1>1, <3>1 DEF Links
  <2>2. ASSUME NEW n \in 1 .. Len(rest) PROVE Leads(d, us[n - 1], rest[n], us[n])
    <3>1. n \in 1 .. l - 1 /\ n \in 0 .. l - 1 /\ n - 1 \in 0 .. l - 1 /\ n + 1 \in 1 .. Len(q) /\ n + 1 - 1 = n
      BY <1>2
    <3>2. us[n] = vs[n + 1] /\ us[n - 1] = vs[n] /\ rest[n] = q[n + 1]
      BY <1>2, <3>1
    <3>3. Leads(d, vs[n + 1 - 1], q[n + 1], vs[n + 1])
      BY <1>1, <3>1 DEF Links
    <3> QED BY <3>1, <3>2, <3>3
  <2>3. ASSUME NEW m \in 0 .. Len(rest), NEW n \in 0 .. Len(rest), m <= n PROVE NoReuse(us[m], us[n])
    <3>1. m \in 0 .. l - 1 /\ n \in 0 .. l - 1 /\ m + 1 \in 0 .. Len(q) /\ n + 1 \in 0 .. Len(q) /\ m + 1 <= n + 1
      BY <1>2, <2>3
    <3> QED BY <1>1, <3>1 DEF Links
  <2> QED BY <2>1, <2>2, <2>3 DEF Links
<1> HIDE DEF us
<1>6. Chain(d, rest, vs[1], w)
  BY <1>1, <1>4, <1>5 DEF Chain
<1> QED BY <1>2, <1>3, <1>6 DEF rest

\* A report takes the touches of a view from the one before and from its events.
LEMMA LeadsTracks ==
  ASSUME NEW d, NEW v \in Views, NEW f, NEW w, Leads(d, v, f, w), NEW o \in Slot
  PROVE  w.track[o] = v.track[o] \/ \E m \in DOMAIN f : f[m] = <<"track", w.track[o]>>
<1> DEFINE Q(u) == u.track[o] = v.track[o] \/ \E m \in DOMAIN f : f[m] = <<"track", u.track[o]>>
           G == {x \in Views \X {0} : Q(x[1])}
           r == [n \in 0 .. Len(f) |-> 0]
           R == Steps(d, v)
<1>1. f \in Seq(Words) /\ Path(R, v, f, w) /\ Len(f) \in Nat
  BY DEF Leads
<1>2. <<v, r[0]>> \in G
  BY <1>1
<1>3. ASSUME NEW n \in 1 .. Len(f), NEW a, NEW b, <<a, r[n - 1]>> \in G, <<a, f[n], b>> \in R
      PROVE  <<b, r[n]>> \in G
  <2>1. a \in Views /\ Q(a) /\ f[n] \in Words /\ b \in Views /\ b = After(a, f[n])
    BY <1>3 DEF Steps
  <2>2. b.track[o] = IF f[n][1] = "track" /\ o = a.slot THEN f[n][2] ELSE a.track[o]
    BY <2>1, AfterIs
  <2>3. f[n] = <<f[n][1], f[n][2]>> /\ n \in DOMAIN f
    BY <1>1, <2>1, WordKinds
  <2>4. Q(b)
    BY <2>1, <2>2, <2>3
  <2>5. r[n] = 0
    BY <1>1
  <2> HIDE DEF Q
  <2> QED BY <2>1, <2>4, <2>5
<1> DEFINE l == Len(f)
<1>4. r[l] = 0
  BY <1>1
<1> HIDE DEF G, R, r
<1>5. <<w, r[l]>> \in G
  BY <1>1, <1>2, <1>3, PathKeeps
<1> QED BY <1>5 DEF G

\* A touch screen has no tool.
LEMMA LeadsTool ==
  ASSUME NEW d \in TouchDevices, NEW v \in Views, NEW f, NEW w, Leads(d, v, f, w)
  PROVE  w.tool = v.tool
<1> DEFINE G == {x \in Views \X {0} : x[1].tool = v.tool}
           r == [n \in 0 .. Len(f) |-> 0]
           R == Steps(d, v)
<1>1. f \in Seq(Words) /\ Path(R, v, f, w) /\ Len(f) \in Nat
  BY DEF Leads
<1>2. <<v, r[0]>> \in G
  BY <1>1
<1>3. ASSUME NEW n \in 1 .. Len(f), NEW a, NEW b, <<a, r[n - 1]>> \in G, <<a, f[n], b>> \in R
      PROVE  <<b, r[n]>> \in G
  <2>1. /\ a \in Views /\ a.tool = v.tool /\ f[n] \in Words /\ b \in Views /\ b = After(a, f[n])
        /\ f[n][1] \in Codes(d) \union {"dropped"}
    BY <1>3 DEF Steps, Proper
  <2>2. "tool" \notin Codes(d)
    BY SlotCodes DEF Device
  <2>3. b.tool = v.tool
    BY <2>1, <2>2, AfterIs
  <2>4. r[n] = 0
    BY <1>1
  <2> QED BY <2>1, <2>3, <2>4
<1> DEFINE l == Len(f)
<1>4. r[l] = 0
  BY <1>1
<1> HIDE DEF G, R, r
<1>5. <<w, r[l]>> \in G
  BY <1>1, <1>2, <1>3, PathKeeps
<1> QED BY <1>5 DEF G

\* The app knows, or will be told of, every touch of view u.
Familiar(d, u) == \A o \in Slot : u.track[o] = None \/ InUse(d, u.track[o])

LEMMA ChainFamiliar ==
  ASSUME NEW d, NEW vs, Links(d, queue[d], vs), vs[0] = synced[d], queue[d] \in Reports,
         NEW n \in 0 .. Len(queue[d])
  PROVE  Familiar(d, vs[n])
<1> DEFINE q == queue[d]
           m == Len(q)
           T == {i \in 0 .. m : Familiar(d, vs[i])}
<1>0. m \in Nat /\ DOMAIN q = 1 .. m
  BY DEF Reports
<1>1. 0 \in T
  BY <1>0 DEF Familiar, InUse
<1>2. ASSUME NEW j \in 1 .. m, j - 1 \in T PROVE j \in T
  <2>1. vs[j - 1] \in Views /\ Leads(d, vs[j - 1], q[j], vs[j]) /\ j \in 0 .. m /\ j \in DOMAIN q
    BY <1>0, <1>2 DEF Links
  <2>2. Familiar(d, vs[j - 1])
    BY <1>2
  <2> HIDE DEF q
  <2>3. ASSUME NEW o \in Slot PROVE vs[j].track[o] = None \/ InUse(d, vs[j].track[o])
    <3>1. \/ vs[j].track[o] = vs[j - 1].track[o]
          \/ \E i \in DOMAIN q[j] : q[j][i] = <<"track", vs[j].track[o]>>
      <4> DEFINE a == vs[j - 1]
                 b == vs[j]
                 f == q[j]
      <4>1. a \in Views /\ Leads(d, a, f, b)
        BY <2>1
      <4> HIDE DEF a, b, f
      <4>2. b.track[o] = a.track[o] \/ \E i \in DOMAIN f : f[i] = <<"track", b.track[o]>>
        BY <4>1, LeadsTracks
      <4> QED BY <4>2 DEF a, b, f
    <3> QED BY <2>1, <2>2, <3>1 DEF Familiar, InUse, q
  <2> QED BY <2>1, <2>3 DEF Familiar
<1> HIDE DEF T, m
<1>3. 0 .. m \subseteq T
  BY <1>0, <1>1, <1>2, Ascends
<1> QED BY <1>3 DEF T, m

LEMMA NoReuseGoesOn ==
  ASSUME NEW d \in Device, KernelOK(d), NEW u, Fits(d, u), Familiar(d, u), NoReuse(u, Told(kernel[d])),
         NEW k2 \in Kernels, Fits(d, Told(k2)), NewTouch(d, k2)
  PROVE  NoReuse(u, Told(k2))
<1>1. CASE d \notin TouchDevices \ Remote
  BY <1>1, FitsNoReuse
<1>2. CASE d \in TouchDevices \ Remote
  <2> DEFINE k == kernel[d]
  <2>1. Told(k).track = k.track /\ Told(k2).track = k2.track
    BY ToldIs DEF KernelOK
  <2>2. \A s \in Slot : InUse(d, k.track[s])
    BY DEF InUse
  <2>3. ASSUME NEW s \in Slot, NEW o \in Slot, s # o, k2.track[s] # None, k2.track[s] # u.track[s]
        PROVE  k2.track[s] # u.track[o] /\ k2.track[s] # k2.track[o]
    <3>1. CASE k2.track[s] = k.track[s]
      <4>1. k.track[s] # u.track[o] /\ k.track[s] # k.track[o]
        BY <2>1, <2>3, <3>1 DEF NoReuse
      <4>2. k2.track[o] \in {None, k.track[o]} \/ ~InUse(d, k2.track[o])
        BY <1>2 DEF NewTouch
      <4> QED BY <2>2, <2>3, <3>1, <4>1, <4>2
    <3>2. CASE k2.track[s] # k.track[s]
      <4>1. ~InUse(d, k2.track[s]) /\ k2.track[o] = k.track[o]
        BY <1>2, <2>3, <3>2 DEF NewTouch
      <4>2. u.track[o] = None \/ InUse(d, u.track[o])
        BY DEF Familiar
      <4> QED BY <2>2, <2>3, <4>1, <4>2
    <3> QED BY <3>1, <3>2
  <2> QED BY <2>1, <2>3 DEF NoReuse
<1> QED BY <1>1, <1>2

\* What the app knows of a device, and what it will be told of it
Known(d, k, q, v) ==
  /\ k \in Kernels /\ Fits(d, Told(k))
  /\ d \notin TouchDevices => k.sent = k.slot
  /\ v \in Views /\ Fits(d, v) /\ NoReuse(v, Told(k))
  /\ d \in TouchDevices => k.tool = v.tool
  /\ q \in Reports
  /\ q # Dropped => Chain(d, q, v, Told(k))

LEMMA PathEmpty ==
  ASSUME NEW R, NEW x, NEW y, Path(R, x, <<>>, y)
  PROVE  x = y
BY DEF Path

LEMMA ChainEnds ==
  ASSUME NEW d, NEW v, NEW w, NEW q \in Reports, Chain(d, q, v, w)
  PROVE  NoReuse(v, w)
<1>1. PICK vs : vs[0] = v /\ vs[Len(q)] = w /\ Links(d, q, vs)
  BY DEF Chain
<1>2. Len(q) \in Nat
  BY DEF Reports
<1> QED BY <1>1, <1>2 DEF Links

LEMMA ChainAppend ==
  ASSUME NEW d \in Device, Known(d, kernel[d], queue[d], synced[d]), Chain(d, queue[d], synced[d], Told(kernel[d])),
         NEW f, NEW k2 \in Kernels, Leads(d, Told(kernel[d]), f, Told(k2)),
         Fits(d, Told(k2)), NewTouch(d, k2)
  PROVE  Chain(d, Append(queue[d], f), synced[d], Told(k2)) /\ Append(queue[d], f) \in Reports
<1> DEFINE q == queue[d]
           m == Len(q)
           w == Told(k2)
           h == Append(q, f)
<1>1. PICK vs : vs[0] = synced[d] /\ vs[m] = Told(kernel[d]) /\ Links(d, q, vs)
  BY DEF Chain
<1> DEFINE us == [n \in 0 .. m + 1 |-> IF n = m + 1 THEN w ELSE vs[n]]
<1>2. m \in Nat /\ q \in Reports /\ KernelOK(d)
  BY DEF Known, Reports, KernelOK
<1>3. /\ Len(h) = m + 1 /\ h[m + 1] = f /\ \A n \in 1 .. m : h[n] = q[n]
      /\ h \in Reports
  BY <1>2 DEF Reports, Leads
<1>4. w \in Views
  BY ToldIs
<1> HIDE DEF w, h, q
<1>5. us[0] = synced[d] /\ us[m + 1] = w
  BY <1>1, <1>2
<1>6. \A n \in 0 .. m : us[n] = vs[n]
  BY <1>2
<1>7. \A n \in 0 .. m : vs[n] \in Views /\ Fits(d, vs[n]) /\ NoReuse(vs[n], w)
  <2> SUFFICES ASSUME NEW n \in 0 .. m PROVE vs[n] \in Views /\ Fits(d, vs[n]) /\ NoReuse(vs[n], w)
    OBVIOUS
  <2>1. vs[n] \in Views /\ Fits(d, vs[n])
    BY <1>1 DEF Links
  <2>2. NoReuse(vs[n], vs[m])
    BY <1>1, <1>2 DEF Links
  <2>3. Familiar(d, vs[n])
    BY <1>1, <1>2, ChainFamiliar DEF q
  <2>4. NoReuse(vs[n], Told(k2))
    BY <1>1, <1>2, <2>1, <2>2, <2>3, NoReuseGoesOn
  <2> QED BY <2>1, <2>4 DEF w
<1>8. \A n \in 0 .. m + 1 : n \in 0 .. m \/ n = m + 1
  BY <1>2
<1> HIDE DEF us
<1>9. \A n \in 0 .. Len(h) : us[n] \in Views /\ Fits(d, us[n])
  BY <1>3, <1>4, <1>5, <1>6, <1>7, <1>8 DEF w
<1>10. ASSUME NEW n \in 1 .. Len(h) PROVE Leads(d, us[n - 1], h[n], us[n])
  <2>1. CASE n = m + 1
    <3>1. n - 1 = m /\ m \in 0 .. m
      BY <1>2, <2>1
    <3>2. us[n - 1] = Told(kernel[d]) /\ h[n] = f /\ us[n] = w
      BY <1>1, <1>3, <1>5, <1>6, <2>1, <3>1
    <3> QED BY <3>2 DEF w
  <2>2. CASE n # m + 1
    <3>1. n \in 1 .. m /\ n \in 0 .. m /\ n - 1 \in 0 .. m
      BY <1>2, <1>3, <2>2
    <3>2. Leads(d, vs[n - 1], q[n], vs[n])
      BY <1>1, <3>1 DEF Links
    <3>3. us[n - 1] = vs[n - 1] /\ us[n] = vs[n] /\ h[n] = q[n]
      BY <1>3, <1>6, <3>1
    <3> QED BY <3>2, <3>3
  <2> QED BY <2>1, <2>2
<1>11. ASSUME NEW i \in 0 .. Len(h), NEW j \in 0 .. Len(h), i <= j PROVE NoReuse(us[i], us[j])
  <2>1. CASE j = m + 1
    <3>1. CASE i = m + 1
      BY <2>1, <3>1 DEF NoReuse
    <3>2. CASE i # m + 1
      <4>1. i \in 0 .. m
        BY <1>2, <1>3, <3>2
      <4> QED BY <1>5, <1>6, <1>7, <2>1, <4>1
    <3> QED BY <3>1, <3>2
  <2>2. CASE j # m + 1
    <3>1. i \in 0 .. m /\ j \in 0 .. m
      BY <1>2, <1>3, <1>11, <2>2
    <3>2. NoReuse(vs[i], vs[j])
      BY <1>1, <1>11, <3>1 DEF Links
    <3> QED BY <1>6, <3>1, <3>2
  <2> QED BY <2>1, <2>2
<1>12. Links(d, h, us)
  BY <1>9, <1>10, <1>11 DEF Links
<1>13. Chain(d, h, synced[d], w)
  BY <1>3, <1>5, <1>12 DEF Chain
<1> QED BY <1>3, <1>13 DEF h, w, q

\* The frames a reader finds after a report
QueueAfter(q, out) ==
  IF out = <<>> THEN q ELSE IF Len(q) >= MaxQueue \/ q = Dropped THEN Dropped ELSE Append(q, out)

LEMMA DroppedIs == Dropped \in Reports /\ Len(Dropped) = 1 /\ Dropped # <<>> /\ Tail(Dropped) = <<>>
<1>1. DroppedReport \in Seq(Words)
  BY DEF DroppedReport, Words
<1> QED BY <1>1 DEF Dropped, Reports

\* What the app will be told, also after a report
LEMMA ReportKnown ==
  ASSUME NEW d \in Device, Known(d, kernel[d], queue[d], synced[d]), NEW writes, Passes(d, writes)
  PROVE  LET r == WrittenUpTo(d, writes)[Len(writes)]
         IN Known(d, r.k, QueueAfter(queue[d], r.out), synced[d])
<1> DEFINE r == WrittenUpTo(d, writes)[Len(writes)]
           q2 == QueueAfter(queue[d], r.out)
           k == kernel[d]
<1>1. /\ Passed(d, Told(k), r) /\ Fits(d, Told(r.k)) /\ NewTouch(d, r.k)
  BY DEF Passes
<1> HIDE DEF r, k, q2
<1>2. /\ r.k \in Kernels /\ Leads(d, Told(k), r.out, Told(r.k))
      /\ d \notin TouchDevices => r.k.sent = r.k.slot
  BY <1>1 DEF Passed, Leads
<1>3. /\ synced[d] \in Views /\ Fits(d, synced[d]) /\ NoReuse(synced[d], Told(k)) /\ queue[d] \in Reports
      /\ KernelOK(d)
      /\ queue[d] # Dropped => Chain(d, queue[d], synced[d], Told(k))
  BY DEF Known, KernelOK, k
<1>4. Familiar(d, synced[d])
  BY DEF Familiar, InUse
<1>5. NoReuse(synced[d], Told(r.k))
  BY <1>1, <1>2, <1>3, <1>4, NoReuseGoesOn DEF k
<1>7. d \in TouchDevices => r.k.tool = synced[d].tool
  <2> SUFFICES ASSUME d \in TouchDevices PROVE r.k.tool = synced[d].tool
    OBVIOUS
  <2>1. Told(k) \in Views /\ Told(k).tool = k.tool /\ Told(r.k).tool = r.k.tool /\ k.tool = synced[d].tool
    BY <1>2, ToldIs DEF Known, k
  <2>2. Told(r.k).tool = Told(k).tool
    BY <1>2, <2>1, LeadsTool
  <2> QED BY <2>1, <2>2
<1>6. q2 \in Reports /\ (q2 # Dropped => Chain(d, q2, synced[d], Told(r.k)))
  <2>1. CASE r.out = <<>>
    <3>1. Told(r.k) = Told(k)
      BY <1>2, <2>1, PathEmpty DEF Leads
    <3> QED BY <1>3, <2>1, <3>1 DEF QueueAfter, q2
  <2>2. CASE r.out # <<>> /\ (Len(queue[d]) >= MaxQueue \/ queue[d] = Dropped)
    BY <2>2, DroppedIs DEF QueueAfter, q2
  <2>3. CASE r.out # <<>> /\ ~ (Len(queue[d]) >= MaxQueue \/ queue[d] = Dropped)
    <3>1. q2 = Append(queue[d], r.out)
      BY <2>3 DEF QueueAfter, q2
    <3>2. Chain(d, queue[d], synced[d], Told(kernel[d]))
      BY <1>3, <2>3 DEF k
    <3>3. Chain(d, Append(queue[d], r.out), synced[d], Told(r.k)) /\ Append(queue[d], r.out) \in Reports
      BY <1>1, <1>2, <3>2, ChainAppend DEF k
    <3> QED BY <3>1, <3>3
  <2> QED BY <2>1, <2>2, <2>3
<1> QED BY <1>1, <1>2, <1>3, <1>5, <1>6, <1>7 DEF Known, r, q2

LEMMA FloodKnown ==
  ASSUME NEW d, NEW k, NEW q, NEW v, Known(d, k, q, v)
  PROVE  Known(d, k, Dropped, v)
BY DroppedIs DEF Known
------------------------------------------------------------------------------
(* One report read                                                            *)

DeviceTypes == {"Move", "Up", "Down"}
Tools == DeviceTypes \union {"ToolClose", "ToolLeave"}
Devs == [slot : Slot, changed : SUBSET Slot, tool : Tools, keys : Seq({0, 1}),
         type : [Slot -> DeviceTypes], id : [Slot -> Tracks \union {0}], pos : [Slot -> Pos]]

\* Device t at view u of a report that began at view v: what it has noted of the report
MidTouch(v, u, t) ==
  /\ t.slot = u.slot /\ t.tool = "Move" /\ t.keys = <<>>
  /\ \A s \in Slot :
       /\ t.type[s] = IF u.track[s] = v.track[s] THEN "Move" ELSE IF u.track[s] = None THEN "Up" ELSE "Down"
       /\ u.track[s] # None => t.id[s] = u.track[s]
       /\ u.track[s] = None /\ v.track[s] # None => t.id[s] = v.track[s]
       /\ u.track[s] # v.track[s] => s \in t.changed /\ (u.track[s] = None \/ v.track[s] = None)

MidPen(v, u, t) ==
  /\ u.slot = 0 /\ t.keys = <<>> /\ t.changed = {}
  /\ u.track[1] = v.track[1]
  /\ IF u.track[0] = v.track[0] THEN t.tool \in {"Move", "ToolClose", "ToolLeave"}
     ELSE t.tool = IF u.track[0] = None THEN "Up" ELSE "Down"

MidKey(v, u, t) ==
  /\ u.track = v.track /\ t.changed = {} /\ t.tool = "Move"
  /\ t.keys = IF u.tool = v.tool THEN <<>> ELSE <<u.tool>>

Mid(d, v, u, t) ==
  /\ t \in Devs /\ t.pos = u.pos
  /\ d \in TouchDevices => MidTouch(v, u, t)
  /\ d \in PenDevices => MidPen(v, u, t)
  /\ d \in KeyDevices => MidKey(v, u, t)

\* Device t between reports
Between(d, v, t) == Mid(d, v, v, t) /\ t.changed = {} /\ t.tool = "Move"

\* An event before the end of a report
LEMMA MidStep ==
  ASSUME NEW d \in Device, NEW v \in Views, NEW u \in Views, NEW ev \in Words, Proper(d, v, u, ev),
         NEW t, Mid(d, v, u, t)
  PROVE  Mid(d, v, After(u, ev), Handle(d, t, ev))
<1> DEFINE a == After(u, ev)
<1>0. /\ ev[1] \in {"slot", "track", "pos", "tool", "dropped"}
      /\ ev[1] = "slot" => ev[2] \in Slot
      /\ ev[1] = "track" => ev[2] \in Tracks
      /\ ev[1] = "pos" => ev[2] \in Pos
      /\ ev[1] = "tool" => ev[2] \in {0, 1}
      /\ u.slot \in Slot /\ u.pos \in [Slot -> Pos] /\ u.track \in [Slot -> Tracks] /\ u.tool \in {0, 1}
      /\ v.track \in [Slot -> Tracks] /\ v.tool \in {0, 1}
  BY WordKinds DEF Views
<1>1. /\ a \in Views
      /\ a.slot = IF ev[1] = "slot" THEN ev[2] ELSE u.slot
      /\ a.tool = IF ev[1] = "tool" THEN ev[2] ELSE u.tool
      /\ \A s \in Slot : a.track[s] = IF ev[1] = "track" /\ s = u.slot THEN ev[2] ELSE u.track[s]
      /\ \A s \in Slot : a.pos[s] = IF ev[1] = "pos" /\ s = u.slot THEN ev[2] ELSE u.pos[s]
      /\ a.pos \in [Slot -> Pos] /\ a.track \in [Slot -> Tracks]
  <2>1. a \in Views
    BY AfterIs
  <2>2. a.pos \in [Slot -> Pos] /\ a.track \in [Slot -> Tracks]
    BY <2>1 DEF Views
  <2> QED BY <2>1, <2>2, AfterIs
<1>2. /\ t \in Devs /\ t.pos = u.pos
      /\ t.slot \in Slot /\ t.changed \subseteq Slot /\ t.type \in [Slot -> DeviceTypes]
      /\ t.id \in [Slot -> Tracks \union {0}] /\ t.pos \in [Slot -> Pos]
  BY DEF Mid, Devs
<1> HIDE DEF a
<1>3. CASE d \in TouchDevices
  <2> DEFINE b == HandleTouch(t, ev)
             s1 == IF ev[1] = "slot" THEN ev[2] ELSE t.slot
  <2>1. Handle(d, t, ev) = b /\ d \notin PenDevices /\ d \notin KeyDevices
    BY <1>3, SlotCodes, TouchAssumption DEF Handle
  <2>2. MidTouch(v, u, t)
    BY <1>3 DEF Mid
  <2>3. ev[1] # "tool" /\ s1 = a.slot /\ s1 \in Slot
    BY <1>0, <1>1, <1>3, <2>2, SlotCodes DEF Proper, MidTouch
  <2> DEFINE type == IF ev[1] = "track" THEN [t.type EXCEPT ![s1] = IF ev[2] = None THEN "Up" ELSE "Down"] ELSE t.type
             id == IF ev[1] = "track" /\ ev[2] # None THEN [t.id EXCEPT ![s1] = ev[2]] ELSE t.id
             pos == IF ev[1] = "pos" THEN [t.pos EXCEPT ![s1] = ev[2]] ELSE t.pos
  <2>4. b = [t EXCEPT !.slot = s1, !.changed = @ \union {s1}, !.type = type, !.id = id, !.pos = pos]
    <3>1. CASE ev[1] = "track"
      BY <1>2, <3>1 DEF HandleTouch, Devs
    <3>2. CASE ev[1] = "pos"
      BY <1>2, <3>2 DEF HandleTouch, Devs
    <3>3. CASE ev[1] \notin {"track", "pos"}
      BY <1>2, <3>3 DEF HandleTouch, Devs
    <3> QED BY <3>1, <3>2, <3>3
  <2>5. /\ \A s \in Slot : type[s] = IF ev[1] = "track" /\ s = s1 THEN (IF ev[2] = None THEN "Up" ELSE "Down") ELSE t.type[s]
        /\ \A s \in Slot : id[s] = IF ev[1] = "track" /\ ev[2] # None /\ s = s1 THEN ev[2] ELSE t.id[s]
        /\ \A s \in Slot : pos[s] = IF ev[1] = "pos" /\ s = s1 THEN ev[2] ELSE t.pos[s]
        /\ type \in [Slot -> DeviceTypes] /\ id \in [Slot -> Tracks \union {0}] /\ pos \in [Slot -> Pos]
    BY <1>0, <1>2, <2>3 DEF DeviceTypes
  <2> HIDE DEF b, s1, type, id, pos
  <2>6. /\ b \in Devs /\ b.slot = s1 /\ b.changed = t.changed \union {s1} /\ b.type = type /\ b.id = id /\ b.pos = pos
        /\ b.tool = t.tool /\ b.keys = t.keys
    BY <1>2, <2>3, <2>4, <2>5 DEF Devs
  <2>7. \A s \in Slot : ev[1] \in {"track", "pos"} => (s = s1 <=> s = u.slot)
    BY <2>2, <2>3 DEF MidTouch, s1
  <2>8. b.pos = a.pos
    <3>1. \A s \in Slot : b.pos[s] = a.pos[s]
      BY <1>1, <1>2, <2>5, <2>6, <2>7
    <3> QED BY <1>1, <2>5, <2>6, <3>1
  <2>9. MidTouch(v, a, b)
    <3>1. ASSUME NEW s \in Slot
          PROVE  /\ b.type[s] = IF a.track[s] = v.track[s] THEN "Move" ELSE IF a.track[s] = None THEN "Up" ELSE "Down"
                 /\ a.track[s] # None => b.id[s] = a.track[s]
                 /\ a.track[s] = None /\ v.track[s] # None => b.id[s] = v.track[s]
                 /\ a.track[s] # v.track[s] => s \in b.changed /\ (a.track[s] = None \/ v.track[s] = None)
      <4>1. CASE ev[1] = "track" /\ s = u.slot
        <5>1. a.track[s] = ev[2] /\ s = s1
          BY <1>1, <2>7, <4>1
        <5>2. u.track[s] = v.track[s] /\ ev[2] # v.track[s] /\ (ev[2] = None \/ v.track[s] = None)
          BY <4>1 DEF Proper
        <5>3. u.track[s] # None => t.id[s] = u.track[s]
          BY <2>2 DEF MidTouch
        <5> QED BY <2>5, <2>6, <4>1, <5>1, <5>2, <5>3
      <4>2. CASE ~ (ev[1] = "track" /\ s = u.slot)
        <5>1. a.track[s] = u.track[s] /\ ~ (ev[1] = "track" /\ s = s1)
          BY <1>1, <2>7, <4>2
        <5>2. b.type[s] = t.type[s] /\ b.id[s] = t.id[s] /\ (s \in t.changed => s \in b.changed)
          BY <2>5, <2>6, <5>1
        <5> QED BY <2>2, <5>1, <5>2 DEF MidTouch
      <4> QED BY <4>1, <4>2
    <3> QED BY <2>2, <2>3, <2>6, <3>1 DEF MidTouch
  <2> QED BY <2>1, <2>6, <2>8, <2>9 DEF Mid, a
<1>4. CASE d \in PenDevices
  <2> DEFINE b == HandlePen(t, ev)
  <2>1. Handle(d, t, ev) = b /\ d \notin TouchDevices /\ d \notin KeyDevices
    BY <1>4, SlotCodes, TouchAssumption DEF Handle
  <2>2. MidPen(v, u, t)
    BY <1>4 DEF Mid
  <2>3. ev[1] # "slot" /\ u.slot = 0 /\ 0 \in Slot /\ 1 \in Slot
    BY <1>0, <2>1, <2>2, SlotCodes DEF Proper, MidPen, Slot
  <2> DEFINE tool == IF ev[1] = "tool" THEN IF ev[2] = 1 THEN "ToolClose" ELSE "ToolLeave"
                     ELSE IF ev[1] = "track" THEN IF ev[2] = None THEN "Up" ELSE "Down" ELSE t.tool
             pos == IF ev[1] = "pos" THEN [t.pos EXCEPT ![0] = ev[2]] ELSE t.pos
  <2>4. b = [t EXCEPT !.tool = tool, !.pos = pos]
    <3>1. CASE ev[1] = "pos"
      BY <1>2, <3>1 DEF HandlePen, Devs
    <3>2. CASE ev[1] = "tool"
      BY <1>2, <3>2 DEF HandlePen, Devs
    <3>3. CASE ev[1] = "track"
      BY <1>2, <3>3 DEF HandlePen, Devs
    <3>4. CASE ev[1] \notin {"pos", "tool", "track"}
      BY <1>2, <3>4 DEF HandlePen, Devs
    <3> QED BY <3>1, <3>2, <3>3, <3>4
  <2>5. /\ \A s \in Slot : pos[s] = IF ev[1] = "pos" /\ s = u.slot THEN ev[2] ELSE t.pos[s]
        /\ pos \in [Slot -> Pos]
    BY <1>0, <1>2, <2>3
  <2>6. tool \in Tools
    BY <1>2 DEF Devs, Tools, DeviceTypes
  <2>7. tool = IF ev[1] = "tool" THEN IF ev[2] = 1 THEN "ToolClose" ELSE "ToolLeave"
               ELSE IF ev[1] = "track" THEN IF ev[2] = None THEN "Up" ELSE "Down" ELSE t.tool
    OBVIOUS
  <2> HIDE DEF b, tool, pos
  <2>8. b \in Devs /\ b.tool = tool /\ b.pos = pos /\ b.keys = t.keys /\ b.changed = t.changed
    BY <1>2, <2>4, <2>5, <2>6 DEF Devs
  <2>9. b.pos = a.pos
    <3>1. \A s \in Slot : b.pos[s] = a.pos[s]
      BY <1>1, <1>2, <2>5, <2>8
    <3> QED BY <1>1, <2>5, <2>8, <3>1
  <2>10. MidPen(v, a, b)
    <3>1. a.slot = 0 /\ b.keys = <<>> /\ b.changed = {}
      BY <1>1, <2>2, <2>3, <2>8 DEF MidPen
    <3>2. a.track[1] = v.track[1]
      BY <1>1, <2>2, <2>3 DEF MidPen
    <3>3. IF a.track[0] = v.track[0] THEN b.tool \in {"Move", "ToolClose", "ToolLeave"}
          ELSE b.tool = IF a.track[0] = None THEN "Up" ELSE "Down"
      <4>1. CASE ev[1] = "track"
        <5>1. a.track[0] = ev[2] /\ ev[2] # v.track[0]
          BY <1>1, <2>3, <4>1 DEF Proper
        <5> QED BY <2>7, <2>8, <4>1, <5>1
      <4>2. CASE ev[1] = "tool"
        <5>1. a.track[0] = u.track[0] /\ u.track[0] = v.track[0]
          BY <1>1, <2>3, <4>2 DEF Proper
        <5> QED BY <2>7, <2>8, <4>2, <5>1
      <4>3. CASE ev[1] \notin {"track", "tool"}
        <5>1. a.track[0] = u.track[0] /\ b.tool = t.tool
          BY <1>1, <2>3, <2>7, <2>8, <4>3
        <5> QED BY <2>2, <5>1 DEF MidPen
      <4> QED BY <4>1, <4>2, <4>3
    <3> QED BY <3>1, <3>2, <3>3 DEF MidPen
  <2> QED BY <2>1, <2>8, <2>9, <2>10 DEF Mid, a
<1>5. CASE d \in KeyDevices
  <2> DEFINE b == HandleKey(t, ev)
  <2>1. Handle(d, t, ev) = b /\ d \notin TouchDevices /\ d \notin PenDevices
    BY <1>5, SlotCodes, TouchAssumption DEF Handle
  <2>2. MidKey(v, u, t)
    BY <1>5 DEF Mid
  <2>3. ev[1] \in {"tool", "dropped"}
    BY <1>0, <1>5, <2>1, SlotCodes DEF Proper
  <2>4. a.track = u.track /\ a.pos = u.pos
    <3>1. \A s \in Slot : a.track[s] = u.track[s] /\ a.pos[s] = u.pos[s]
      BY <1>1, <2>3
    <3> QED BY <1>0, <1>1, <3>1
  <2>5. CASE ev[1] = "tool"
    <3>1. b = [t EXCEPT !.keys = Append(t.keys, ev[2])] /\ t.keys \in Seq({0, 1})
      BY <1>2, <2>5 DEF HandleKey, Devs
    <3>2. u.tool = v.tool /\ ev[2] # v.tool /\ t.keys = <<>> /\ a.tool = ev[2]
      BY <1>1, <2>2, <2>5 DEF Proper, MidKey
    <3>3. Append(t.keys, ev[2]) = <<ev[2]>> /\ Append(t.keys, ev[2]) \in Seq({0, 1})
      BY <1>0, <2>5, <3>2
    <3>4. b \in Devs /\ b.keys = <<ev[2]>> /\ b.changed = t.changed /\ b.tool = t.tool /\ b.pos = t.pos
      BY <1>2, <3>1, <3>3 DEF Devs
    <3>5. MidKey(v, a, b)
      BY <2>2, <2>4, <3>2, <3>4 DEF MidKey
    <3> HIDE DEF b
    <3> QED BY <1>2, <2>1, <2>4, <3>4, <3>5 DEF Mid, a
  <2>6. CASE ev[1] = "dropped"
    <3>1. b = t /\ a.tool = u.tool
      BY <1>1, <2>6 DEF HandleKey
    <3>2. MidKey(v, a, b)
      BY <2>2, <2>4, <3>1 DEF MidKey
    <3> HIDE DEF b
    <3> QED BY <1>2, <2>1, <2>4, <3>1, <3>2 DEF Mid, a
  <2> QED BY <2>3, <2>5, <2>6
<1> QED BY <1>3, <1>4, <1>5 DEF Device
------------------------------------------------------------------------------
(* The events of a report                                                     *)

HeldIds == Tracks \union {PenId}
EventTypes == Tools \union {"Press", "Release"}
Sent == [dev : Device, type : EventTypes, id : HeldIds \union {0}, slot : Slot \union {PenSlot}, pos : Pos]

\* The touch a view has in a slot, as the receivers know it
Held(d, v) ==
  [s \in Slot |-> IF d \in KeyDevices THEN IF s = 0 /\ v.tool = 1 THEN 1 ELSE None
                  ELSE IF v.track[s] = None THEN None
                  ELSE IF d \in PenDevices THEN PenId ELSE v.track[s]]

Place(ev) == IF ev.slot = PenSlot THEN 0 ELSE ev.slot

\* What an event makes of what is held
Heard(h, ev) ==
  [h EXCEPT ![Place(ev)] = CASE ev.type = "Down" -> ev.id
                             [] ev.type = "Press" -> 1
                             [] ev.type \in {"Up", "Release"} -> None
                             [] OTHER -> @]

\* The ids a device's touches have
IdsOf(d) == IF d \in PenDevices THEN {PenId} ELSE IF d \in Remote THEN {FakeId} ELSE Ids

\* An event that may come when h is held: a touch comes down once, under an id of its own,
\* and leaves once.
Fair(d, h, ev) ==
  /\ ev.dev = d /\ (ev.slot = PenSlot <=> d \in PenDevices)
  /\ ev.type \in {"Down", "Up"} => d \notin KeyDevices
  /\ ev.type \in {"Press", "Release"} => d \in KeyDevices
  /\ ev.type = "Down" => /\ h[Place(ev)] = None /\ ev.id # None
                         /\ ev.id \in IdsOf(d)
                         /\ \A o \in Slot : ev.id # h[o]
  /\ ev.type = "Up" => h[Place(ev)] # None /\ ev.id = h[Place(ev)]
  /\ ev.type = "Press" => h[Place(ev)] = None
  /\ ev.type = "Release" => h[Place(ev)] # None

Sends(d) ==
  {x \in [Slot -> HeldIds] \X Sent \X [Slot -> HeldIds] : Fair(d, x[1], x[2]) /\ x[3] = Heard(x[1], x[2])}

\* Events that lead from h to g being held
Tells(d, h, evs, g) == evs \in Seq(Sent) /\ h \in [Slot -> HeldIds] /\ Path(Sends(d), h, evs, g)

LEMMA Numbers ==
  /\ None # PenId /\ PenSlot \notin Slot /\ None # 0 /\ None # 1 /\ None \notin Slot /\ None # PenSlot
  /\ None \notin Ids /\ None # FakeId /\ PenId \notin Ids /\ PenId # FakeId
  /\ Slot = {0, 1} /\ PenId # 0 /\ PenId # 1
<1>1. Ids \subseteq Nat
  BY TouchAssumption
<1> QED BY <1>1 DEF None, PenId, PenSlot, Slot, FakeId

LEMMA IdsOfIs == \A d : IdsOf(d) \subseteq Ids \union {FakeId, PenId} /\ IdsOf(d) \subseteq HeldIds
BY DEF IdsOf, HeldIds, Tracks

LEMMA HeldIs ==
  ASSUME NEW d \in Device, NEW v \in Views
  PROVE  Held(d, v) \in [Slot -> HeldIds]
BY DEF Held, HeldIds, Tracks, Views

LEMMA HeardIs ==
  ASSUME NEW d, NEW h \in [Slot -> HeldIds], NEW ev \in Sent, Fair(d, h, ev)
  PROVE  /\ Place(ev) \in Slot
         /\ Heard(h, ev) \in [Slot -> HeldIds]
         /\ \A s \in Slot : s # Place(ev) => Heard(h, ev)[s] = h[s]
         /\ ev.type = "Down" => Heard(h, ev)[Place(ev)] = ev.id
         /\ ev.type = "Press" => Heard(h, ev)[Place(ev)] = 1
         /\ ev.type \in {"Up", "Release"} => Heard(h, ev)[Place(ev)] = None
         /\ ev.type \notin {"Down", "Up", "Press", "Release"} => Heard(h, ev) = h
<1>1. Place(ev) \in Slot
  BY Numbers DEF Place, Sent
<1>2. 1 \in HeldIds /\ None \in HeldIds /\ (ev.type = "Down" => ev.id \in HeldIds)
  BY IdsOfIs DEF HeldIds, Tracks, Fair
<1> DEFINE p == Place(ev)
<1>3. CASE ev.type = "Down"
  <2>1. Heard(h, ev) = [h EXCEPT ![p] = ev.id]
    BY <1>3 DEF Heard
  <2> HIDE DEF p
  <2> QED BY <1>1, <1>2, <1>3, <2>1 DEF p
<1>4. CASE ev.type = "Press"
  <2>1. Heard(h, ev) = [h EXCEPT ![p] = 1]
    BY <1>4 DEF Heard
  <2> HIDE DEF p
  <2> QED BY <1>1, <1>2, <1>4, <2>1 DEF p
<1>5. CASE ev.type \in {"Up", "Release"}
  <2>1. Heard(h, ev) = [h EXCEPT ![p] = None]
    BY <1>5 DEF Heard
  <2> HIDE DEF p
  <2> QED BY <1>1, <1>2, <1>5, <2>1 DEF p
<1>6. CASE ev.type \notin {"Down", "Up", "Press", "Release"}
  <2>1. Heard(h, ev) = [h EXCEPT ![p] = @]
    BY <1>6 DEF Heard
  <2>2. Heard(h, ev) = h
    BY <2>1
  <2> QED BY <1>1, <1>6, <2>2
<1> QED BY <1>3, <1>4, <1>5, <1>6

LEMMA OneSent ==
  ASSUME NEW d, NEW h \in [Slot -> HeldIds], NEW ev \in Sent, Fair(d, h, ev)
  PROVE  Tells(d, h, <<ev>>, Heard(h, ev))
<1>1. <<h, ev, Heard(h, ev)>> \in Sends(d)
  BY HeardIs DEF Sends
<1>2. Path(Sends(d), h, <<ev>>, Heard(h, ev))
  BY <1>1, PathOne, Zenon
<1>3. <<ev>> \in Seq(Sent)
  OBVIOUS
<1> QED BY <1>2, <1>3 DEF Tells

LEMMA NoneSent ==
  ASSUME NEW d, NEW h \in [Slot -> HeldIds]
  PROVE  Tells(d, h, <<>>, h)
<1>1. Path(Sends(d), h, <<>>, h)
  BY PathNone, Zenon
<1>2. <<>> \in Seq(Sent)
  OBVIOUS
<1> QED BY <1>1, <1>2 DEF Tells

LEMMA TellsConcat ==
  ASSUME NEW d, NEW h, NEW g, NEW f, NEW e1, NEW e2, Tells(d, h, e1, g), Tells(d, g, e2, f)
  PROVE  Tells(d, h, e1 \o e2, f)
<1>1. Path(Sends(d), h, e1 \o e2, f) /\ e1 \o e2 \in Seq(Sent)
  BY PathConcat DEF Tells
<1> QED BY <1>1 DEF Tells

\* The event of one slot of a touch screen
TouchEvent(d, t, s) ==
  [dev |-> d, type |-> t.type[s], id |-> t.id[s], slot |-> s, pos |-> t.pos[s]]
TouchEvents(d, t, s) == IF s \in t.changed THEN << TouchEvent(d, t, s) >> ELSE <<>>

LEMMA TouchTells ==
  ASSUME NEW d \in TouchDevices, NEW v \in Views, NEW w \in Views, NoReuse(v, w), Fits(d, v), Fits(d, w),
         NEW t, Mid(d, v, w, t), NEW h \in [Slot -> HeldIds], NEW s \in Slot, h[s] = Held(d, v)[s],
         \A o \in Slot : h[o] \in {Held(d, v)[o], Held(d, w)[o]}
  PROVE  Tells(d, h, TouchEvents(d, t, s), [h EXCEPT ![s] = Held(d, w)[s]])
<1>1. d \in Device /\ d \notin PenDevices /\ d \notin KeyDevices
  BY TouchAssumption DEF Device
<1>2. /\ \A o \in Slot : Held(d, v)[o] = v.track[o] /\ Held(d, w)[o] = w.track[o]
      /\ Held(d, w) \in [Slot -> HeldIds]
  BY <1>1, HeldIs DEF Held
<1>3. MidTouch(v, w, t) /\ t \in Devs
  BY DEF Mid
<1> DEFINE g == [h EXCEPT ![s] = Held(d, w)[s]]
           ev == TouchEvent(d, t, s)
<1>4. CASE s \notin t.changed
  <2>1. v.track[s] = w.track[s]
    BY <1>3, <1>4 DEF MidTouch
  <2>2. g = h
    BY <1>2, <2>1
  <2>3. TouchEvents(d, t, s) = <<>>
    BY <1>4 DEF TouchEvents
  <2> HIDE DEF g
  <2> QED BY <2>2, <2>3, NoneSent DEF g
<1>5. CASE s \in t.changed
  <2>1. /\ ev.dev = d /\ ev.type = t.type[s] /\ ev.id = t.id[s] /\ ev.slot = s
        /\ ev \in Sent
    BY <1>1, <1>3 DEF TouchEvent, Sent, Devs, EventTypes, Tools, HeldIds
  <2> HIDE DEF ev
  <2>2. Place(ev) = s /\ ev.slot # PenSlot
    BY <2>1, Numbers DEF Place
  <2>3. /\ t.type[s] = IF w.track[s] = v.track[s] THEN "Move" ELSE IF w.track[s] = None THEN "Up" ELSE "Down"
        /\ w.track[s] # None => t.id[s] = w.track[s]
        /\ w.track[s] = None /\ v.track[s] # None => t.id[s] = v.track[s]
    BY <1>3 DEF MidTouch
  <2>4. CASE w.track[s] = v.track[s]
    <3>1. ev.type = "Move"
      BY <2>1, <2>3, <2>4
    <3>2. Fair(d, h, ev)
      BY <1>1, <2>1, <2>2, <3>1 DEF Fair
    <3>3. Heard(h, ev) = h
      BY <2>1, <3>1, <3>2, HeardIs
    <3>4. g = h
      BY <1>2, <2>4
    <3>5. Tells(d, h, <<ev>>, h)
      BY <2>1, <3>2, <3>3, OneSent
    <3> HIDE DEF g
    <3> QED BY <1>5, <3>4, <3>5 DEF TouchEvents, ev, g
  <2>5. CASE w.track[s] # v.track[s] /\ w.track[s] = None
    <3>1. ev.type = "Up" /\ ev.id = v.track[s] /\ h[s] = v.track[s] /\ v.track[s] # None
      BY <1>2, <2>1, <2>3, <2>5
    <3>2. Fair(d, h, ev)
      BY <1>1, <2>1, <2>2, <3>1 DEF Fair
    <3>3. Heard(h, ev) = g
      BY <1>2, <2>2, <2>5, <3>1 DEF Heard
    <3>4. Tells(d, h, <<ev>>, g)
      <4> HIDE DEF g
      <4> QED BY <2>1, <3>2, <3>3, OneSent
    <3> HIDE DEF g
    <3> QED BY <1>5, <3>4 DEF TouchEvents, ev, g
  <2>6. CASE w.track[s] # v.track[s] /\ w.track[s] # None
    <3>1. ev.type = "Down" /\ ev.id = w.track[s] /\ h[s] = v.track[s]
      BY <1>2, <2>1, <2>3, <2>6
    <3>2. /\ w.track[s] \in IdsOf(d)
          /\ \A o \in Slot \ {s} : w.track[s] # v.track[o] /\ w.track[s] # w.track[o]
      <4>1. CASE d \in Remote
        BY <1>1, <2>6, <4>1, Numbers DEF Fits, NoReuse, IdsOf
      <4>2. CASE d \notin Remote
        BY <1>1, <2>6, <4>2 DEF Fits, NoReuse, IdsOf
      <4> QED BY <4>1, <4>2
    <3>3. \A o \in Slot : ev.id # h[o]
      BY <1>2, <2>6, <3>1, <3>2
    <3>4. h[s] = None
      <4>1. v.track[s] = None
        BY <1>3, <2>6 DEF MidTouch
      <4> QED BY <3>1, <4>1
    <3>5. Fair(d, h, ev)
      BY <1>1, <2>1, <2>2, <2>6, <3>1, <3>2, <3>3, <3>4 DEF Fair
    <3>6. Heard(h, ev) = g
      BY <1>2, <2>2, <3>1 DEF Heard
    <3>7. Tells(d, h, <<ev>>, g)
      <4> HIDE DEF g
      <4> QED BY <2>1, <3>5, <3>6, OneSent
    <3> HIDE DEF g
    <3> QED BY <1>5, <3>7 DEF TouchEvents, ev, g
  <2> QED BY <2>4, <2>5, <2>6
<1> QED BY <1>4, <1>5
LEMMA PenTells ==
  ASSUME NEW d \in PenDevices, NEW v \in Views, NEW w \in Views, Fits(d, v), Fits(d, w),
         NEW t, Mid(d, v, w, t), NEW order
  PROVE  Tells(d, Held(d, v), Events(d, t, order), Held(d, w))
<1> DEFINE ev == [dev |-> d, type |-> t.tool, id |-> PenId, slot |-> PenSlot, pos |-> t.pos[0]]
           h == Held(d, v)
           g == Held(d, w)
<1>1. d \in Device /\ d \notin TouchDevices /\ d \notin KeyDevices /\ Made(d) = "pen"
  BY TouchAssumption, SlotCodes DEF Device
<1>2. /\ h \in [Slot -> HeldIds] /\ g \in [Slot -> HeldIds]
      /\ v.track[1] = None /\ w.track[1] = None /\ v.track[0] \in {None, 1} /\ w.track[0] \in {None, 1}
  BY <1>1, HeldIs DEF Fits
<1>3. /\ \A s \in Slot : h[s] = IF v.track[s] = None THEN None ELSE PenId
      /\ \A s \in Slot : g[s] = IF w.track[s] = None THEN None ELSE PenId
  BY <1>1 DEF Held
<1>4. MidPen(v, w, t) /\ t \in Devs
  BY DEF Mid
<1>5. Events(d, t, order) = <<ev>>
  BY <1>1 DEF Events
<1>6. /\ ev.dev = d /\ ev.type = t.tool /\ ev.id = PenId /\ ev.slot = PenSlot /\ ev \in Sent
  <2>1. t.tool \in Tools /\ t.pos[0] \in Pos
    BY <1>4 DEF Devs, Slot
  <2> QED BY <1>1, <2>1 DEF Sent, EventTypes, HeldIds
<1> HIDE DEF ev, h, g
<1>7. Place(ev) = 0 /\ 0 \in Slot /\ 1 \in Slot
  BY <1>6 DEF Place, Slot
<1>8. h[1] = None /\ g[1] = None /\ \A s \in Slot : s = 0 \/ s = 1
  BY <1>2, <1>3, <1>7, Numbers
<1>9. Fair(d, h, ev) /\ Heard(h, ev) = g
  <2>1. CASE w.track[0] = v.track[0]
    <3>1. ev.type \in {"Move", "ToolClose", "ToolLeave"}
      BY <1>4, <1>6, <2>1 DEF MidPen
    <3>2. Fair(d, h, ev)
      BY <1>6, <3>1 DEF Fair
    <3>3. Heard(h, ev) = h
      BY <1>2, <1>6, <3>1, <3>2, HeardIs
    <3>4. g[0] = h[0]
      BY <1>3, <1>7, <2>1
    <3>5. \A s \in Slot : g[s] = h[s]
      BY <1>8, <3>4
    <3>6. g = h
      BY <1>2, <3>5
    <3> QED BY <3>2, <3>3, <3>6
  <2>2. CASE w.track[0] # v.track[0] /\ w.track[0] = None
    <3>1. ev.type = "Up"
      BY <1>4, <1>6, <2>2 DEF MidPen
    <3>2. h[0] = PenId /\ g[0] = None
      BY <1>3, <1>7, <2>2
    <3>3. Fair(d, h, ev)
      BY <1>1, <1>6, <1>7, <3>1, <3>2, Numbers DEF Fair
    <3>4. Heard(h, ev) = [h EXCEPT ![0] = None]
      BY <1>7, <3>1 DEF Heard
    <3>5. \A s \in Slot : [h EXCEPT ![0] = None][s] = g[s]
      BY <1>2, <1>8, <3>2
    <3> QED BY <1>2, <3>3, <3>4, <3>5
  <2>3. CASE w.track[0] # v.track[0] /\ w.track[0] # None
    <3>1. ev.type = "Down"
      BY <1>4, <1>6, <2>3 DEF MidPen
    <3>2. h[0] = None /\ g[0] = PenId
      BY <1>2, <1>3, <1>7, <2>3
    <3>3. Fair(d, h, ev)
      BY <1>1, <1>6, <1>7, <1>8, <3>1, <3>2, Numbers DEF Fair, IdsOf
    <3>4. Heard(h, ev) = [h EXCEPT ![0] = PenId]
      BY <1>6, <1>7, <3>1 DEF Heard
    <3>5. \A s \in Slot : [h EXCEPT ![0] = PenId][s] = g[s]
      BY <1>2, <1>8, <3>2
    <3> QED BY <1>2, <3>3, <3>4, <3>5
  <2> QED BY <2>1, <2>2, <2>3
<1>10. Tells(d, h, <<ev>>, g)
  BY <1>2, <1>6, <1>9, OneSent
<1> QED BY <1>5, <1>10 DEF h, g

LEMMA KeyTells ==
  ASSUME NEW d \in KeyDevices, NEW v \in Views, NEW w \in Views,
         NEW t, Mid(d, v, w, t), NEW order
  PROVE  Tells(d, Held(d, v), Events(d, t, order), Held(d, w))
<1> DEFINE Key(b) == [dev |-> d, type |-> IF b = 1 THEN "Press" ELSE "Release", id |-> None, slot |-> 0, pos |-> Off]
           ev == Key(w.tool)
           h == Held(d, v)
           g == Held(d, w)
<1>1. d \in Device /\ d \notin TouchDevices /\ d \notin PenDevices /\ Made(d) = "key"
  BY TouchAssumption, SlotCodes DEF Device
<1>2. /\ h \in [Slot -> HeldIds] /\ g \in [Slot -> HeldIds] /\ v.tool \in {0, 1} /\ w.tool \in {0, 1}
  BY <1>1, HeldIs DEF Views
<1>3. /\ h[0] = IF v.tool = 1 THEN 1 ELSE None
      /\ g[0] = IF w.tool = 1 THEN 1 ELSE None
      /\ h[1] = None /\ g[1] = None /\ 0 \in Slot /\ 1 \in Slot
  BY DEF Held, Slot
<1>4. t.keys = IF w.tool = v.tool THEN <<>> ELSE <<w.tool>>
  BY DEF Mid, MidKey
<1>5. Events(d, t, order) = [n \in DOMAIN t.keys |-> Key(t.keys[n])]
  BY <1>1 DEF Events
<1> HIDE DEF h, g
<1>6. CASE w.tool = v.tool
  <2>1. Events(d, t, order) = <<>>
    <3>1. Events(d, t, order) = [n \in DOMAIN <<>> |-> Key(t.keys[n])]
      BY <1>4, <1>5, <1>6
    <3> HIDE DEF Key
    <3> QED BY <3>1
  <2>2. h = g
    BY <1>6 DEF h, g, Held
  <2> QED BY <1>2, <2>1, <2>2, NoneSent DEF h, g
<1>7. CASE w.tool # v.tool
  <2>1. Events(d, t, order) = <<ev>>
    <3>1. t.keys = <<w.tool>> /\ DOMAIN t.keys = 1 .. 1 /\ t.keys[1] = w.tool
      BY <1>4, <1>7
    <3>2. Events(d, t, order) = [n \in 1 .. 1 |-> Key(t.keys[n])]
      BY <1>5, <3>1
    <3>3. \A n \in 1 .. 1 : Key(t.keys[n]) = ev
      BY <3>1
    <3> HIDE DEF Key, ev
    <3>4. [n \in 1 .. 1 |-> Key(t.keys[n])] = [n \in 1 .. 1 |-> ev]
      BY <3>3
    <3>5. [n \in 1 .. 1 |-> ev] = <<ev>>
      OBVIOUS
    <3> QED BY <3>2, <3>4, <3>5
  <2>2. /\ ev.dev = d /\ ev.type = (IF w.tool = 1 THEN "Press" ELSE "Release") /\ ev.slot = 0 /\ ev \in Sent
    <3>1. None \in HeldIds /\ Off \in Pos
      BY DEF HeldIds, Tracks, Pos
    <3> QED BY <1>1, <1>3, <3>1 DEF Sent, EventTypes
  <2> HIDE DEF ev
  <2>3. Place(ev) = 0 /\ ev.slot # PenSlot
    BY <1>3, <2>2, Numbers DEF Place
  <2>4. Fair(d, h, ev)
    BY <1>1, <1>2, <1>3, <1>7, <2>2, <2>3, Numbers DEF Fair
  <2>5. Heard(h, ev) = [h EXCEPT ![0] = IF w.tool = 1 THEN 1 ELSE None]
    <3>1. CASE w.tool = 1
      BY <2>2, <2>3, <3>1 DEF Heard
    <3>2. CASE w.tool # 1
      BY <2>2, <2>3, <3>2 DEF Heard
    <3> QED BY <3>1, <3>2
  <2>6. \A s \in Slot : Heard(h, ev)[s] = g[s]
    BY <1>2, <1>3, <2>5, Numbers
  <2>7. Heard(h, ev) = g
    BY <1>2, <2>5, <2>6
  <2>8. Tells(d, h, <<ev>>, g)
    BY <1>2, <2>2, <2>4, <2>7, OneSent
  <2> QED BY <2>1, <2>8 DEF h, g
<1> QED BY <1>6, <1>7

\* The events of a report tell what it changed.
LEMMA ReportTells ==
  ASSUME NEW d \in Device, NEW v \in Views, NEW w \in Views, NoReuse(v, w), Fits(d, v), Fits(d, w),
         NEW t, Mid(d, v, w, t), NEW order \in Orders
  PROVE  Tells(d, Held(d, v), Events(d, t, order), Held(d, w))
<1>1. CASE d \in PenDevices
  BY <1>1, PenTells
<1>2. CASE d \in KeyDevices
  BY <1>2, KeyTells
<1>3. CASE d \in TouchDevices
  <2>1. Made(d) = "touch"
    BY <1>3, SlotCodes
  <2>2. Events(d, t, order) = TouchEvents(d, t, order[1]) \o TouchEvents(d, t, order[2])
    BY <2>1 DEF Events, TouchEvents, TouchEvent
  <2> DEFINE h == Held(d, v)
             g == Held(d, w)
             a == order[1]
             b == order[2]
             m == [h EXCEPT ![a] = g[a]]
  <2>3. a \in Slot /\ b \in Slot /\ a # b /\ \A s \in Slot : s = a \/ s = b
    BY DEF Orders, Slot
  <2>4. h \in [Slot -> HeldIds] /\ g \in [Slot -> HeldIds]
    BY HeldIs
  <2> HIDE DEF h, g, a, b
  <2>5. Tells(d, h, TouchEvents(d, t, a), m)
    <3>1. h[a] = Held(d, v)[a] /\ \A o \in Slot : h[o] \in {Held(d, v)[o], Held(d, w)[o]}
      BY DEF h
    <3> QED BY <1>3, <2>3, <2>4, <3>1, TouchTells DEF g
  <2>6. m \in [Slot -> HeldIds] /\ m[b] = h[b] /\ m[a] = g[a]
    BY <2>3, <2>4
  <2>7. [m EXCEPT ![b] = g[b]] = g
    <3>1. \A s \in Slot : [m EXCEPT ![b] = g[b]][s] = g[s]
      BY <2>3, <2>4, <2>6
    <3> QED BY <2>4, <2>6, <3>1
  <2>8. Tells(d, m, TouchEvents(d, t, b), [m EXCEPT ![b] = g[b]])
    <3>1. m[b] = Held(d, v)[b] /\ \A o \in Slot : m[o] \in {Held(d, v)[o], Held(d, w)[o]}
      BY <2>3, <2>6 DEF h, g
    <3> HIDE DEF m
    <3> QED BY <1>3, <2>3, <2>6, <3>1, TouchTells DEF g
  <2>9. Tells(d, h, TouchEvents(d, t, a) \o TouchEvents(d, t, b), g)
    <3> HIDE DEF m
    <3> QED BY <2>5, <2>7, <2>8, TellsConcat
  <2> QED BY <2>2, <2>9 DEF h, g, a, b
<1> QED BY <1>1, <1>2, <1>3 DEF Device

\* At the end of a report a device is ready for the next one.
LEMMA ReportedBetween ==
  ASSUME NEW d \in Device, NEW v \in Views, NEW w \in Views, NEW t, Mid(d, v, w, t)
  PROVE  Between(d, w, Reported(d, t))
<1> DEFINE b == Reported(d, t)
<1>1. /\ t \in Devs /\ t.pos = w.pos /\ t.changed \subseteq Slot /\ t.type \in [Slot -> DeviceTypes]
      /\ <<>> \in Seq({0, 1}) /\ t.keys \in Seq({0, 1})
  BY DEF Mid, Devs
<1>2. CASE d \in TouchDevices
  <2> DEFINE type == [s \in Slot |-> IF s \in t.changed THEN "Move" ELSE t.type[s]]
  <2>1. b = [t EXCEPT !.changed = {}, !.type = type] /\ d \notin PenDevices /\ d \notin KeyDevices
    BY <1>1, <1>2, SlotCodes DEF Reported, TouchReported, Devs
  <2>2. MidTouch(v, w, t)
    BY <1>2 DEF Mid
  <2>3. \A s \in Slot : type[s] = "Move"
    BY <2>2 DEF MidTouch
  <2>4. type \in [Slot -> DeviceTypes]
    BY <1>1 DEF DeviceTypes
  <2> HIDE DEF b, type
  <2>5. /\ b \in Devs /\ b.changed = {} /\ b.type = type /\ b.slot = t.slot /\ b.tool = t.tool
        /\ b.keys = t.keys /\ b.id = t.id /\ b.pos = t.pos
    BY <1>1, <2>1, <2>4 DEF Devs
  <2>6. MidTouch(w, w, b)
    BY <2>2, <2>3, <2>5 DEF MidTouch
  <2>7. b.tool = "Move"
    BY <2>2, <2>5 DEF MidTouch
  <2> QED BY <1>1, <2>1, <2>5, <2>6, <2>7 DEF Between, Mid, b
<1>3. CASE d \in PenDevices
  <2>1. b = [t EXCEPT !.tool = "Move"] /\ d \notin TouchDevices /\ d \notin KeyDevices
    BY <1>3, SlotCodes DEF Reported, PenReported
  <2>2. MidPen(v, w, t)
    BY <1>3 DEF Mid
  <2> HIDE DEF b
  <2>3. b \in Devs /\ b.tool = "Move" /\ b.keys = t.keys /\ b.changed = t.changed /\ b.pos = t.pos
    BY <1>1, <2>1 DEF Devs, Tools, DeviceTypes
  <2>4. MidPen(w, w, b)
    BY <2>2, <2>3 DEF MidPen
  <2>5. b.changed = {}
    BY <2>2, <2>3 DEF MidPen
  <2> QED BY <1>1, <2>1, <2>3, <2>4, <2>5 DEF Between, Mid, b
<1>4. CASE d \in KeyDevices
  <2>1. b = [t EXCEPT !.keys = <<>>] /\ d \notin TouchDevices /\ d \notin PenDevices
    BY <1>4, SlotCodes DEF Reported, KeyReported
  <2>2. MidKey(v, w, t)
    BY <1>4 DEF Mid
  <2> HIDE DEF b
  <2>3. b \in Devs /\ b.tool = t.tool /\ b.keys = <<>> /\ b.changed = t.changed /\ b.pos = t.pos
    BY <1>1, <2>1 DEF Devs
  <2>4. MidKey(w, w, b)
    BY <2>2, <2>3 DEF MidKey
  <2>5. b.changed = {} /\ b.tool = "Move"
    BY <2>2, <2>3 DEF MidKey
  <2> QED BY <1>1, <2>1, <2>3, <2>4, <2>5 DEF Between, Mid, b
<1> QED BY <1>2, <1>3, <1>4 DEF Device

\* What a report that was read leaves, and the events it was turned into
LEMMA ReadTells ==
  ASSUME NEW d \in Device, NEW v \in Views, NEW w \in Views, NEW f, Leads(d, v, f, w),
         NoReuse(v, w), Fits(d, v), Fits(d, w), NEW t, Between(d, v, t), NEW order \in Orders
  PROVE  LET r == ReadReport(d, v, t, f, order)
         IN /\ r = [view |-> r.view, t |-> r.t, evs |-> r.evs]
            /\ r.view = w /\ Between(d, w, r.t) /\ Tells(d, Held(d, v), r.evs, Held(d, w))
<1> DEFINE r == ReadUpTo(d, v, t, f)
           R == Steps(d, v)
           G == {x \in Views \X {r[n] : n \in 0 .. Len(f)} : x[2].view = x[1] /\ Mid(d, v, x[1], x[2].t)}
<1>1. f \in Seq(Words) /\ Path(R, v, f, w) /\ Len(f) \in Nat
  BY DEF Leads
<1>2. /\ r[0].view = v /\ r[0].t = t
      /\ \A n \in 1 .. Len(f) : r[n].view = After(r[n - 1].view, f[n]) /\ r[n].t = Handle(d, r[n - 1].t, f[n])
  <2>1. Len(f) \in Nat
    BY <1>1
  <2>2. /\ ReadUpTo(d, v, t, f)[0].view = v /\ ReadUpTo(d, v, t, f)[0].t = t
        /\ \A n \in 1 .. Len(f) :
             /\ ReadUpTo(d, v, t, f)[n].view = After(ReadUpTo(d, v, t, f)[n - 1].view, f[n])
             /\ ReadUpTo(d, v, t, f)[n].t = Handle(d, ReadUpTo(d, v, t, f)[n - 1].t, f[n])
    BY <2>1, ReadUpToDef
  <2> QED BY <2>2
<1> HIDE DEF r
<1>3. <<v, r[0]>> \in G
  <2>1. r[0].view = v /\ Mid(d, v, v, r[0].t) /\ 0 \in 0 .. Len(f)
    BY <1>1, <1>2 DEF Between
  <2> QED BY <2>1
<1>4. ASSUME NEW n \in 1 .. Len(f), NEW a, NEW b, <<a, r[n - 1]>> \in G, <<a, f[n], b>> \in R
      PROVE  <<b, r[n]>> \in G
  <2>1. a \in Views /\ r[n - 1].view = a /\ Mid(d, v, a, r[n - 1].t)
    BY <1>4
  <2>2. f[n] \in Words /\ b \in Views /\ b = After(a, f[n]) /\ Proper(d, v, a, f[n])
    BY <1>4 DEF Steps
  <2>3. r[n].view = After(a, f[n]) /\ r[n].t = Handle(d, r[n - 1].t, f[n])
    BY <1>2, <2>1
  <2>4. Mid(d, v, After(a, f[n]), Handle(d, r[n - 1].t, f[n]))
    <3> DEFINE t0 == r[n - 1].t
               ev == f[n]
    <3>1. Mid(d, v, a, t0) /\ ev \in Words /\ Proper(d, v, a, ev)
      BY <2>1, <2>2
    <3> HIDE DEF t0, ev
    <3>2. Mid(d, v, After(a, ev), Handle(d, t0, ev))
      BY <2>1, <3>1, MidStep
    <3> QED BY <3>2 DEF t0, ev
  <2>5. n \in 0 .. Len(f)
    BY <1>1
  <2>6. r[n].view = b /\ Mid(d, v, b, r[n].t)
    BY <2>2, <2>3, <2>4
  <2> QED BY <2>2, <2>5, <2>6
<1> DEFINE l == Len(f)
           last == r[l]
<1>5. <<w, last>> \in G
  <2> HIDE DEF G, R
  <2> QED BY <1>1, <1>3, <1>4, PathKeeps
<1>6. last.view = w /\ Mid(d, v, w, last.t)
  BY <1>5
<1> DEFINE e == Events(d, last.t, order)
           t2 == Reported(d, last.t)
<1>7. ReadReport(d, v, t, f, order) = [view |-> last.view, t |-> t2, evs |-> e]
  BY DEF ReadReport, r
<1> HIDE DEF last, G
<1>8. Tells(d, Held(d, v), e, Held(d, w)) /\ Between(d, w, t2)
  BY <1>6, ReportTells, ReportedBetween
<1> HIDE DEF e, t2
<1> QED BY <1>6, <1>7, <1>8
------------------------------------------------------------------------------
(* After SYN_DROPPED: the difference between the app's view and the kernel's  *)

LEMMA WordsIn ==
  ASSUME NEW k \in Kernels, NEW s \in Slot
  PROVE  /\ <<"dropped", 0>> \in Words /\ <<"track", None>> \in Words /\ <<"slot", s>> \in Words
         /\ <<"track", k.track[s]>> \in Words /\ <<"pos", k.pos[s]>> \in Words
         /\ <<"tool", k.tool>> \in Words /\ <<"slot", k.sent>> \in Words
         /\ DroppedReport \in Seq(Words)
BY DEF Words, Kernels, Tracks, DroppedReport

LEMMA DroppedPath ==
  ASSUME NEW d, NEW v \in Views
  PROVE  Path(Steps(d, v), v, DroppedReport, v) /\ DroppedReport \in Seq(Words)
<1> DEFINE ev == <<"dropped", 0>>
<1>1. ev \in Words /\ ev[1] = "dropped"
  BY DEF Words
<1>2. Proper(d, v, v, ev)
  BY DEF Proper
<1>3. After(v, ev) = v
  BY <1>1 DEF After
<1>4. DroppedReport = <<ev>>
  BY DEF DroppedReport
<1> HIDE DEF ev
<1> QED BY <1>1, <1>2, <1>3, <1>4, OneEvent

\* The parts of the second report: one value of a slot that the kernel has and the view has not
GetsTrack(d, m, v, k, u, s) ==
  /\ NewTrack(v, k, s) \in Seq(Words)
  /\ \E u2 \in Views : /\ Path(Steps(d, m), u, NewTrack(v, k, s), u2)
                       /\ u2.slot = u.slot /\ u2.tool = u.tool /\ u2.pos = u.pos
                       /\ u2.track[s] = k.track[s]
                       /\ \A o \in Slot \ {s} : u2.track[o] = u.track[o]

GetsPos(d, m, v, k, u, s) ==
  /\ NewPos(v, k, s) \in Seq(Words)
  /\ \E u2 \in Views : /\ Path(Steps(d, m), u, NewPos(v, k, s), u2)
                       /\ u2.slot = u.slot /\ u2.tool = u.tool /\ u2.track = u.track
                       /\ u2.pos[s] = k.pos[s]
                       /\ \A o \in Slot \ {s} : u2.pos[o] = u.pos[o]

LEMMA NewTrackPath ==
  ASSUME NEW d \in Device, NEW m \in Views, NEW v, NEW k \in Kernels, NEW u \in Views, NEW s \in Slot, u.slot = s,
         "track" \in Codes(d) \/ v.track[s] = k.track[s],
         u.track[s] = m.track[s],
         v.track[s] # k.track[s] => /\ k.track[s] # m.track[s]
                                    /\ k.track[s] = None \/ m.track[s] = None,
         v.track[s] = k.track[s] => m.track[s] = k.track[s]
  PROVE  GetsTrack(d, m, v, k, u, s)
<1> DEFINE R == Steps(d, m)
<1>1. CASE v.track[s] = k.track[s]
  <2>1. NewTrack(v, k, s) = <<>> /\ <<>> \in Seq(Words)
    BY <1>1 DEF NewTrack
  <2>2. Path(R, u, <<>>, u)
    BY PathNone, Zenon
  <2> QED BY <1>1, <2>1, <2>2 DEF GetsTrack
<1>2. CASE v.track[s] # k.track[s]
  <2> DEFINE ev == <<"track", k.track[s]>>
             u2 == After(u, ev)
  <2>1. ev \in Words /\ ev[1] = "track" /\ ev[2] = k.track[s]
    BY WordsIn
  <2>2. Proper(d, m, u, ev)
    BY <1>2, <2>1 DEF Proper
  <2>3. NewTrack(v, k, s) = <<ev>>
    BY <1>2 DEF NewTrack
  <2> HIDE DEF ev
  <2>4. /\ u2 \in Views /\ u2.slot = u.slot /\ u2.tool = u.tool
        /\ \A o \in Slot : u2.track[o] = IF o = u.slot THEN ev[2] ELSE u.track[o]
        /\ \A o \in Slot : u2.pos[o] = u.pos[o]
    BY <2>1, AfterIs
  <2>5. Path(R, u, <<ev>>, u2) /\ <<ev>> \in Seq(Words)
    BY <2>1, <2>2, OneEvent
  <2> HIDE DEF u2, R
  <2>6. u2.pos = u.pos
    BY <2>4 DEF Views
  <2>7. u2.track[s] = k.track[s] /\ \A o \in Slot \ {s} : u2.track[o] = u.track[o]
    BY <2>1, <2>4
  <2> QED BY <2>3, <2>4, <2>5, <2>6, <2>7 DEF R, GetsTrack
<1> QED BY <1>1, <1>2

LEMMA NewPosPath ==
  ASSUME NEW d \in Device, NEW m \in Views, NEW v, NEW k \in Kernels, NEW u \in Views, NEW s \in Slot, u.slot = s,
         "pos" \in Codes(d) \/ v.pos[s] = k.pos[s],
         u.pos[s] = v.pos[s]
  PROVE  GetsPos(d, m, v, k, u, s)
<1> DEFINE R == Steps(d, m)
<1>1. CASE v.pos[s] = k.pos[s]
  <2>1. NewPos(v, k, s) = <<>> /\ <<>> \in Seq(Words)
    BY <1>1 DEF NewPos
  <2>2. Path(R, u, <<>>, u)
    BY PathNone, Zenon
  <2> QED BY <1>1, <2>1, <2>2 DEF GetsPos
<1>2. CASE v.pos[s] # k.pos[s]
  <2> DEFINE ev == <<"pos", k.pos[s]>>
             u2 == After(u, ev)
  <2>1. ev \in Words /\ ev[1] = "pos" /\ ev[2] = k.pos[s]
    BY WordsIn
  <2>2. Proper(d, m, u, ev)
    BY <1>2, <2>1 DEF Proper
  <2>3. NewPos(v, k, s) = <<ev>>
    BY <1>2 DEF NewPos
  <2> HIDE DEF ev
  <2>4. /\ u2 \in Views /\ u2.slot = u.slot /\ u2.tool = u.tool
        /\ \A o \in Slot : u2.track[o] = u.track[o]
        /\ \A o \in Slot : u2.pos[o] = IF o = u.slot THEN ev[2] ELSE u.pos[o]
    BY <2>1, AfterIs
  <2>5. Path(R, u, <<ev>>, u2) /\ <<ev>> \in Seq(Words)
    BY <2>1, <2>2, OneEvent
  <2> HIDE DEF u2, R
  <2>6. u2.track = u.track
    BY <2>4 DEF Views
  <2>7. u2.pos[s] = k.pos[s] /\ \A o \in Slot \ {s} : u2.pos[o] = u.pos[o]
    BY <2>1, <2>4
  <2> QED BY <2>3, <2>4, <2>5, <2>6, <2>7 DEF R, GetsPos
<1> QED BY <1>1, <1>2

LEMMA SlotPath ==
  ASSUME NEW d \in TouchDevices, NEW m \in Views, NEW u \in Views, NEW s \in Slot
  PROVE  /\ << <<"slot", s>> >> \in Seq(Words)
         /\ \E u2 \in Views : /\ Path(Steps(d, m), u, << <<"slot", s>> >>, u2)
                              /\ u2.slot = s /\ u2.tool = u.tool /\ u2.track = u.track /\ u2.pos = u.pos
<1> DEFINE ev == <<"slot", s>>
           u2 == After(u, ev)
<1>1. ev \in Words /\ ev[1] = "slot" /\ ev[2] = s
  BY DEF Words
<1>2. Proper(d, m, u, ev)
  BY <1>1, SlotCodes DEF Proper, Device
<1> HIDE DEF ev
<1>3. /\ u2 \in Views /\ u2.slot = s /\ u2.tool = u.tool
      /\ \A o \in Slot : u2.track[o] = u.track[o]
      /\ \A o \in Slot : u2.pos[o] = u.pos[o]
  BY <1>1, AfterIs
<1>4. Path(Steps(d, m), u, <<ev>>, u2) /\ <<ev>> \in Seq(Words)
  BY <1>1, <1>2, OneEvent
<1> HIDE DEF u2
<1>5. u2.track = u.track /\ u2.pos = u.pos
  BY <1>3 DEF Views
<1> QED BY <1>3, <1>4, <1>5 DEF ev

\* A view in which every touch that was replaced has ended
Cleared(v, k, m) ==
  /\ \A s \in Slot : m.track[s] = IF Ended(v, k, s) = <<>> THEN v.track[s] ELSE None
  /\ m.pos = v.pos /\ m.tool = v.tool

LEMMA NewSlotPath ==
  ASSUME NEW d \in TouchDevices, NEW v \in Views, NEW k \in Kernels, NEW m \in Views, Cleared(v, k, m),
         NEW u \in Views, NEW s \in Slot, u.track[s] = m.track[s], u.pos[s] = v.pos[s]
  PROVE  /\ NewSlot(v, k, s) \in Seq(Words)
         /\ \E u2 \in Views : /\ Path(Steps(d, m), u, NewSlot(v, k, s), u2)
                              /\ u2.tool = u.tool /\ u2.track[s] = k.track[s] /\ u2.pos[s] = k.pos[s]
                              /\ \A o \in Slot \ {s} : u2.track[o] = u.track[o] /\ u2.pos[o] = u.pos[o]
<1> DEFINE R == Steps(d, m)
<1>0. d \in Device /\ "track" \in Codes(d) /\ "pos" \in Codes(d)
  BY TouchAssumption, SlotCodes DEF Device
<1>1. /\ v.track[s] # k.track[s] => /\ k.track[s] # m.track[s]
                                    /\ k.track[s] = None \/ m.track[s] = None
      /\ v.track[s] = k.track[s] => m.track[s] = k.track[s]
  <2>1. m.track[s] = IF Ended(v, k, s) = <<>> THEN v.track[s] ELSE None
    BY DEF Cleared
  <2>2. Ended(v, k, s) = <<>> <=> ~ (v.track[s] # None /\ k.track[s] # None /\ v.track[s] # k.track[s])
    BY DEF Ended
  <2> QED BY <2>1, <2>2
<1>2. CASE v.track[s] = k.track[s] /\ v.pos[s] = k.pos[s]
  <2>1. NewSlot(v, k, s) = <<>> /\ <<>> \in Seq(Words)
    BY <1>2 DEF NewSlot
  <2>2. Path(R, u, <<>>, u)
    BY PathNone, Zenon
  <2> QED BY <1>1, <1>2, <2>1, <2>2
<1>3. CASE v.track[s] # k.track[s] \/ v.pos[s] # k.pos[s]
  <2> DEFINE e1 == << <<"slot", s>> >>
             e2 == NewTrack(v, k, s)
             e3 == NewPos(v, k, s)
  <2>1. /\ e1 \in Seq(Words)
        /\ \E a \in Views : Path(R, u, e1, a) /\ a.slot = s /\ a.tool = u.tool /\ a.track = u.track /\ a.pos = u.pos
    BY SlotPath
  <2>2. PICK a \in Views : Path(R, u, e1, a) /\ a.slot = s /\ a.tool = u.tool /\ a.track = u.track /\ a.pos = u.pos
    BY <2>1
  <2>3. /\ e2 \in Seq(Words)
        /\ \E b \in Views : /\ Path(R, a, e2, b) /\ b.slot = a.slot /\ b.tool = a.tool /\ b.pos = a.pos
                            /\ b.track[s] = k.track[s] /\ \A o \in Slot \ {s} : b.track[o] = a.track[o]
    <3>1. a.slot = s /\ a.track[s] = m.track[s] /\ ("track" \in Codes(d) \/ v.track[s] = k.track[s])
      BY <1>0, <2>2
    <3> HIDE DEF R
    <3>2. GetsTrack(d, m, v, k, a, s)
      BY <1>0, <1>1, <3>1, NewTrackPath
    <3> QED BY <3>2 DEF R, GetsTrack
  <2>4. PICK b \in Views : /\ Path(R, a, e2, b) /\ b.slot = a.slot /\ b.tool = a.tool /\ b.pos = a.pos
                           /\ b.track[s] = k.track[s] /\ \A o \in Slot \ {s} : b.track[o] = a.track[o]
    BY <2>3
  <2>5. /\ e3 \in Seq(Words)
        /\ \E c \in Views : /\ Path(R, b, e3, c) /\ c.slot = b.slot /\ c.tool = b.tool /\ c.track = b.track
                            /\ c.pos[s] = k.pos[s] /\ \A o \in Slot \ {s} : c.pos[o] = b.pos[o]
    <3>1. b.slot = s /\ b.pos[s] = v.pos[s]
      BY <2>2, <2>4
    <3>2. "pos" \in Codes(d) \/ v.pos[s] = k.pos[s]
      BY <1>0
    <3> HIDE DEF R
    <3>3. GetsPos(d, m, v, k, b, s)
      BY <1>0, <3>1, <3>2, NewPosPath
    <3> QED BY <3>3 DEF R, GetsPos
  <2>6. PICK c \in Views : /\ Path(R, b, e3, c) /\ c.slot = b.slot /\ c.tool = b.tool /\ c.track = b.track
                           /\ c.pos[s] = k.pos[s] /\ \A o \in Slot \ {s} : c.pos[o] = b.pos[o]
    BY <2>5
  <2>7. NewSlot(v, k, s) = (e1 \o e2) \o e3
    <3>1. NewSlot(v, k, s) = e1 \o e2 \o e3
      BY <1>3 DEF NewSlot
    <3> QED BY <3>1
  <2> HIDE DEF e1, e2, e3, R
  <2>8. Path(R, u, e1 \o e2, b) /\ e1 \o e2 \in Seq(Words)
    BY <2>1, <2>2, <2>3, <2>4, PathConcat
  <2>9. Path(R, u, (e1 \o e2) \o e3, c) /\ (e1 \o e2) \o e3 \in Seq(Words)
    BY <2>5, <2>6, <2>8, PathConcat
  <2>10. /\ c.tool = u.tool /\ c.track[s] = k.track[s] /\ c.pos[s] = k.pos[s]
         /\ \A o \in Slot \ {s} : c.track[o] = u.track[o] /\ c.pos[o] = u.pos[o]
    BY <2>2, <2>4, <2>6
  <2> QED BY <2>7, <2>9, <2>10 DEF R
<1> QED BY <1>2, <1>3

\* The second report of a touch screen
LastReport(v, k) == NewSlot(v, k, 0) \o NewSlot(v, k, 1) \o << <<"slot", k.sent>> >>

LEMMA LastReportLeads ==
  ASSUME NEW d \in TouchDevices, NEW v \in Views, NEW k \in Kernels, k.tool = v.tool,
         NEW m \in Views, Cleared(v, k, m)
  PROVE  Leads(d, m, LastReport(v, k), Told(k))
<1> DEFINE R == Steps(d, m)
           e1 == NewSlot(v, k, 0)
           e2 == NewSlot(v, k, 1)
           e3 == << <<"slot", k.sent>> >>
<1>1. 0 \in Slot /\ 1 \in Slot /\ (\A s \in Slot : s = 0 \/ s = 1) /\ k.sent \in Slot
  BY DEF Slot, Kernels
<1>2. m.pos = v.pos /\ m.tool = v.tool
  BY DEF Cleared
<1>3. /\ e1 \in Seq(Words)
      /\ \E a \in Views : /\ Path(R, m, e1, a) /\ a.tool = m.tool
                          /\ a.track[0] = k.track[0] /\ a.pos[0] = k.pos[0]
                          /\ \A o \in Slot \ {0} : a.track[o] = m.track[o] /\ a.pos[o] = m.pos[o]
  BY <1>1, <1>2, NewSlotPath
<1>4. PICK a \in Views : /\ Path(R, m, e1, a) /\ a.tool = m.tool
                         /\ a.track[0] = k.track[0] /\ a.pos[0] = k.pos[0]
                         /\ \A o \in Slot \ {0} : a.track[o] = m.track[o] /\ a.pos[o] = m.pos[o]
  BY <1>3
<1>5. a.track[1] = m.track[1] /\ a.pos[1] = v.pos[1]
  BY <1>1, <1>2, <1>4
<1>6. /\ e2 \in Seq(Words)
      /\ \E b \in Views : /\ Path(R, a, e2, b) /\ b.tool = a.tool
                          /\ b.track[1] = k.track[1] /\ b.pos[1] = k.pos[1]
                          /\ \A o \in Slot \ {1} : b.track[o] = a.track[o] /\ b.pos[o] = a.pos[o]
  BY <1>1, <1>5, NewSlotPath
<1>7. PICK b \in Views : /\ Path(R, a, e2, b) /\ b.tool = a.tool
                         /\ b.track[1] = k.track[1] /\ b.pos[1] = k.pos[1]
                         /\ \A o \in Slot \ {1} : b.track[o] = a.track[o] /\ b.pos[o] = a.pos[o]
  BY <1>6
<1>8. /\ e3 \in Seq(Words)
      /\ \E c \in Views : Path(R, b, e3, c) /\ c.slot = k.sent /\ c.tool = b.tool /\ c.track = b.track /\ c.pos = b.pos
  <2> DEFINE z == k.sent
  <2>1. z \in Slot
    BY <1>1
  <2> HIDE DEF z
  <2>2. /\ << <<"slot", z>> >> \in Seq(Words)
        /\ \E c \in Views : /\ Path(Steps(d, m), b, << <<"slot", z>> >>, c)
                            /\ c.slot = z /\ c.tool = b.tool /\ c.track = b.track /\ c.pos = b.pos
    BY <2>1, SlotPath
  <2> QED BY <2>2 DEF z
<1>9. PICK c \in Views : Path(R, b, e3, c) /\ c.slot = k.sent /\ c.tool = b.tool /\ c.track = b.track /\ c.pos = b.pos
  BY <1>8
<1>10. LastReport(v, k) = (e1 \o e2) \o e3
  BY DEF LastReport
<1> HIDE DEF R, e1, e2, e3
<1>11. Path(R, m, e1 \o e2, b) /\ e1 \o e2 \in Seq(Words)
  BY <1>3, <1>4, <1>6, <1>7, PathConcat
<1>12. Path(R, m, (e1 \o e2) \o e3, c) /\ (e1 \o e2) \o e3 \in Seq(Words)
  BY <1>8, <1>9, <1>11, PathConcat
<1>13. c = Told(k)
  <2>1. /\ Told(k) \in Views /\ Told(k).slot = k.sent /\ Told(k).tool = k.tool
        /\ Told(k).track = k.track /\ Told(k).pos = k.pos
    BY ToldIs
  <2>2. c.slot = k.sent /\ c.tool = k.tool
    BY <1>2, <1>4, <1>7, <1>9
  <2>3. \A s \in Slot : c.track[s] = k.track[s] /\ c.pos[s] = k.pos[s]
    <3>1. c.track[0] = k.track[0] /\ c.pos[0] = k.pos[0]
      BY <1>1, <1>4, <1>7, <1>9
    <3>2. c.track[1] = k.track[1] /\ c.pos[1] = k.pos[1]
      BY <1>7, <1>9
    <3> QED BY <1>1, <3>1, <3>2
  <2> HIDE DEF R
  <2> QED BY <2>1, <2>2, <2>3, SameView
<1> QED BY <1>10, <1>12, <1>13 DEF Leads, R

EndedTo(d, v, k, u, s) ==
  /\ Ended(v, k, s) \in Seq(Words)
  /\ \E u2 \in Views : /\ Path(Steps(d, v), u, Ended(v, k, s), u2)
                       /\ u2.tool = u.tool /\ u2.pos = u.pos
                       /\ u2.track[s] = IF Ended(v, k, s) = <<>> THEN v.track[s] ELSE None
                       /\ \A o \in Slot \ {s} : u2.track[o] = u.track[o]

LEMMA EndedPath ==
  ASSUME NEW d \in TouchDevices, NEW v \in Views, NEW k \in Kernels, NEW u \in Views, NEW s \in Slot,
         u.track[s] = v.track[s]
  PROVE  EndedTo(d, v, k, u, s)
<1> DEFINE R == Steps(d, v)
<1>0. d \in Device /\ "track" \in Codes(d)
  BY TouchAssumption, SlotCodes DEF Device
<1>1. CASE ~ (v.track[s] # None /\ k.track[s] # None /\ v.track[s] # k.track[s])
  <2>1. Ended(v, k, s) = <<>> /\ <<>> \in Seq(Words)
    BY <1>1 DEF Ended
  <2>2. Path(R, u, <<>>, u)
    BY PathNone, Zenon
  <2> QED BY <2>1, <2>2 DEF EndedTo
<1>2. CASE v.track[s] # None /\ k.track[s] # None /\ v.track[s] # k.track[s]
  <2> DEFINE e1 == << <<"slot", s>> >>
             ev == <<"track", None>>
  <2>1. /\ e1 \in Seq(Words)
        /\ \E a \in Views : Path(R, u, e1, a) /\ a.slot = s /\ a.tool = u.tool /\ a.track = u.track /\ a.pos = u.pos
    BY SlotPath
  <2>2. PICK a \in Views : Path(R, u, e1, a) /\ a.slot = s /\ a.tool = u.tool /\ a.track = u.track /\ a.pos = u.pos
    BY <2>1
  <2>3. ev \in Words /\ ev[1] = "track" /\ ev[2] = None
    BY WordsIn
  <2>4. Proper(d, v, a, ev)
    BY <1>0, <1>2, <2>2, <2>3 DEF Proper
  <2> DEFINE b == After(a, ev)
  <2>5. Ended(v, k, s) = e1 \o <<ev>> /\ Ended(v, k, s) # <<>>
    BY <1>2 DEF Ended
  <2> HIDE DEF ev
  <2>6. /\ b \in Views /\ b.tool = u.tool
        /\ \A o \in Slot : b.track[o] = IF o = s THEN None ELSE u.track[o]
        /\ \A o \in Slot : b.pos[o] = u.pos[o]
    BY <2>2, <2>3, AfterIs
  <2>7. Path(R, a, <<ev>>, b) /\ <<ev>> \in Seq(Words)
    BY <2>3, <2>4, OneEvent
  <2> HIDE DEF b
  <2>8. b.pos = u.pos
    BY <2>6 DEF Views
  <2> HIDE DEF R, e1
  <2>9. Path(R, u, e1 \o <<ev>>, b) /\ e1 \o <<ev>> \in Seq(Words)
    BY <2>1, <2>2, <2>7, PathConcat
  <2> QED BY <2>5, <2>6, <2>8, <2>9 DEF EndedTo, R
<1> QED BY <1>1, <1>2

EndedReport(v, k) == Ended(v, k, 0) \o Ended(v, k, 1)

LEMMA EndedLeads ==
  ASSUME NEW d \in TouchDevices, NEW v \in Views, NEW k \in Kernels
  PROVE  \E m \in Views : Cleared(v, k, m) /\ Leads(d, v, DroppedReport \o EndedReport(v, k), m)
<1> DEFINE R == Steps(d, v)
           e1 == Ended(v, k, 0)
           e2 == Ended(v, k, 1)
<1>1. 0 \in Slot /\ 1 \in Slot /\ (\A s \in Slot : s = 0 \/ s = 1)
  BY DEF Slot
<1>2. EndedTo(d, v, k, v, 0)
  BY <1>1, EndedPath
<1>3. PICK a \in Views : /\ Path(R, v, e1, a) /\ a.tool = v.tool /\ a.pos = v.pos
                         /\ a.track[0] = IF e1 = <<>> THEN v.track[0] ELSE None
                         /\ \A o \in Slot \ {0} : a.track[o] = v.track[o]
  BY <1>2 DEF EndedTo
<1>4. a.track[1] = v.track[1]
  BY <1>1, <1>3
<1>5. EndedTo(d, v, k, a, 1)
  BY <1>1, <1>4, EndedPath
<1>6. PICK b \in Views : /\ Path(R, a, e2, b) /\ b.tool = a.tool /\ b.pos = a.pos
                         /\ b.track[1] = IF e2 = <<>> THEN v.track[1] ELSE None
                         /\ \A o \in Slot \ {1} : b.track[o] = a.track[o]
  BY <1>5 DEF EndedTo
<1>7. e1 \in Seq(Words) /\ e2 \in Seq(Words)
  BY <1>2, <1>5 DEF EndedTo
<1>8. Cleared(v, k, b)
  <2>1. b.track[0] = IF e1 = <<>> THEN v.track[0] ELSE None
    BY <1>1, <1>3, <1>6
  <2> QED BY <1>1, <1>3, <1>6, <2>1 DEF Cleared
<1> DEFINE e == EndedReport(v, k)
<1>9. Path(R, v, e, b) /\ e \in Seq(Words)
  <2>1. e = e1 \o e2
    BY DEF EndedReport
  <2> HIDE DEF R, e1, e2, e
  <2> QED BY <1>3, <1>6, <1>7, <2>1, PathConcat
<1>10. Path(R, v, DroppedReport, v) /\ DroppedReport \in Seq(Words)
  BY DroppedPath
<1> HIDE DEF R, e
<1>11. Path(R, v, DroppedReport \o e, b) /\ DroppedReport \o e \in Seq(Words)
  BY <1>9, <1>10, PathConcat
<1> QED BY <1>8, <1>11 DEF Leads, R, e

\* One report that leads from what the app knows to what the kernel has, or two
SyncTo(d, reps, v, w) ==
  \/ /\ Len(reps) = 1 /\ Leads(d, v, reps[1], w)
  \/ /\ Len(reps) = 2
     /\ \E m \in Views : /\ Fits(d, m) /\ NoReuse(v, m) /\ NoReuse(m, w)
                         /\ Leads(d, v, reps[1], m) /\ Leads(d, m, reps[2], w)

LEMMA SyncTouch ==
  ASSUME NEW d \in TouchDevices, NEW k, k = kernel[d], NEW q, NEW v, v = synced[d], Known(d, k, q, v)
  PROVE  SyncTo(d, SyncReports(d), v, Told(k))
<1> DEFINE e == EndedReport(v, k)
           l == LastReport(v, k)
<1>1. /\ k \in Kernels /\ v \in Views /\ k.tool = v.tool /\ Fits(d, v) /\ NoReuse(v, Told(k))
      /\ Fits(d, Told(k)) /\ Told(k).track = k.track /\ Told(k) \in Views
  BY ToldIs DEF Known
<1>2. SyncReports(d) = IF e = <<>> THEN << DroppedReport \o l >> ELSE << DroppedReport \o e, l >>
  BY DEF SyncReports, EndedReport, LastReport
<1>3. PICK m \in Views : Cleared(v, k, m) /\ Leads(d, v, DroppedReport \o e, m)
  BY <1>1, EndedLeads
<1>4. Leads(d, m, l, Told(k))
  BY <1>1, <1>3, LastReportLeads
<1>5. \A s \in Slot : m.track[s] = IF v.track[s] # None /\ k.track[s] # None /\ v.track[s] # k.track[s]
                                   THEN None ELSE v.track[s]
  <2>1. ASSUME NEW s \in Slot PROVE Ended(v, k, s) = <<>> <=> ~ (v.track[s] # None /\ k.track[s] # None /\ v.track[s] # k.track[s])
    BY DEF Ended
  <2> QED BY <1>3, <2>1 DEF Cleared
<1>6. CASE e # <<>>
  <2>1. NoReuse(v, m)
    BY <1>5 DEF NoReuse
  <2>2. NoReuse(m, Told(k))
    <3>1. ASSUME NEW s \in Slot, NEW o \in Slot, s # o, k.track[s] # None, k.track[s] # m.track[s]
          PROVE  k.track[s] # m.track[o] /\ k.track[s] # k.track[o]
      <4>1. k.track[s] # v.track[s]
        BY <1>5, <3>1
      <4>2. k.track[s] # v.track[o] /\ k.track[s] # k.track[o]
        BY <1>1, <3>1, <4>1 DEF NoReuse
      <4>3. m.track[o] \in {None, v.track[o]}
        BY <1>5
      <4> QED BY <3>1, <4>2, <4>3
    <3> QED BY <1>1, <3>1 DEF NoReuse
  <2>3. Fits(d, m)
    <3>1. d \notin PenDevices /\ d \notin KeyDevices
      BY TouchAssumption
    <3>2. \A s \in Slot : m.track[s] \in {None, v.track[s]}
      BY <1>5
    <3>3. 0 \in Slot /\ 1 \in Slot
      BY DEF Slot
    <3> QED BY <1>1, <3>1, <3>2, <3>3 DEF Fits
  <2> DEFINE a == DroppedReport \o e
             reps == <<a, l>>
  <2>4. SyncReports(d) = reps
    BY <1>2, <1>6
  <2>5. Len(reps) = 2 /\ reps[1] = a /\ reps[2] = l
    OBVIOUS
  <2> HIDE DEF a, l, reps
  <2>6. SyncTo(d, reps, v, Told(k))
    BY <1>3, <1>4, <2>1, <2>2, <2>3, <2>5 DEF SyncTo, a
  <2> QED BY <2>4, <2>6
<1>7. CASE e = <<>>
  <2>1. DroppedReport \o e = DroppedReport
    BY <1>1, <1>7, WordsIn, Numbers
  <2>2. m = v
    <3>1. Ended(v, k, 0) = <<>> /\ Ended(v, k, 1) = <<>>
      BY <1>7 DEF EndedReport, Ended
    <3>2. \A s \in Slot : Ended(v, k, s) = <<>>
      BY <3>1, Numbers
    <3>3. /\ Path(Steps(d, v), v, DroppedReport, m)
      BY <1>3, <2>1 DEF Leads
    <3>4. m.slot = v.slot
      <4> DEFINE G == {x \in Views \X {0} : x[1].slot = v.slot}
                 r == [n \in 0 .. 1 |-> 0]
                 f == DroppedReport
                 R == Steps(d, v)
      <4>1. f \in Seq(Words) /\ Len(f) = 1 /\ f[1] = <<"dropped", 0>>
        BY <1>1, WordsIn, Numbers DEF DroppedReport
      <4>2. <<v, r[0]>> \in G
        BY <1>1
      <4>3. ASSUME NEW n \in 1 .. Len(f), NEW x, NEW y, <<x, r[n - 1]>> \in G, <<x, f[n], y>> \in R
            PROVE  <<y, r[n]>> \in G
        <5>1. n = 1 /\ r[1] = 0
          BY <4>1
        <5>2. /\ x \in Views /\ x.slot = v.slot /\ f[1] \in Words /\ y \in Views /\ y = After(x, f[1])
          BY <4>3, <5>1 DEF Steps
        <5>3. y.slot = v.slot
          BY <4>1, <5>2, AfterIs
        <5> QED BY <5>1, <5>2, <5>3
      <4>4. r[1] = 0
        OBVIOUS
      <4> HIDE DEF G, R, r, f
      <4>5. <<m, r[Len(f)]>> \in G
        BY <3>3, <4>1, <4>2, <4>3, PathKeeps DEF R, f
      <4> QED BY <4>5 DEF G
    <3>5. \A s \in Slot : m.track[s] = v.track[s] /\ m.pos[s] = v.pos[s]
      BY <1>3, <3>2 DEF Cleared
    <3>6. m.tool = v.tool
      BY <1>3 DEF Cleared
    <3> QED BY <1>1, <3>4, <3>5, <3>6, SameView
  <2> DEFINE a == DroppedReport \o l
             reps == <<a>>
  <2>3. SyncReports(d) = reps /\ Len(reps) = 1 /\ reps[1] = a
    BY <1>2, <1>7
  <2>4. Leads(d, v, a, Told(k))
    <3> DEFINE R == Steps(d, v)
    <3>1. Path(R, v, DroppedReport, v) /\ DroppedReport \in Seq(Words)
      BY <1>1, DroppedPath
    <3>2. Path(R, v, l, Told(k)) /\ l \in Seq(Words)
      BY <1>4, <2>2 DEF Leads
    <3> HIDE DEF R, l
    <3>3. Path(R, v, DroppedReport \o l, Told(k)) /\ DroppedReport \o l \in Seq(Words)
      BY <3>1, <3>2, PathConcat
    <3> QED BY <3>3 DEF Leads, R
  <2> HIDE DEF a, reps
  <2> QED BY <2>3, <2>4 DEF SyncTo
<1> QED BY <1>6, <1>7

\* A pen and a button have one slot, and one report tells what is new.
LEMMA SyncOthers ==
  ASSUME NEW d \in Device \ TouchDevices, NEW k, k = kernel[d], NEW q, NEW v, v = synced[d], Known(d, k, q, v)
  PROVE  SyncTo(d, SyncReports(d), v, Told(k))
<1> DEFINE R == Steps(d, v)
           e1 == NewTool(v, k)
           e2 == NewTrack(v, k, 0)
           e3 == NewPos(v, k, 0)
<1>1. /\ k \in Kernels /\ v \in Views /\ Fits(d, v) /\ Fits(d, Told(k)) /\ 0 \in Slot /\ 1 \in Slot
      /\ Told(k) \in Views /\ Told(k).slot = k.sent /\ Told(k).tool = k.tool
      /\ Told(k).track = k.track /\ Told(k).pos = k.pos
  BY ToldIs DEF Known, Slot
<1>2. /\ v.slot = 0 /\ k.sent = 0 /\ v.track[1] = k.track[1] /\ v.pos[1] = k.pos[1]
      /\ "tool" \in Codes(d)
      /\ "track" \in Codes(d) \/ v.track[0] = k.track[0]
      /\ "pos" \in Codes(d) \/ v.pos[0] = k.pos[0]
      /\ v.track[0] # k.track[0] => k.track[0] = None \/ v.track[0] = None
  <2>1. CASE d \in PenDevices
    BY <1>1, <2>1, SlotCodes DEF Fits
  <2>2. CASE d \in KeyDevices
    BY <1>1, <2>2, SlotCodes DEF Fits
  <2> QED BY <2>1, <2>2 DEF Device
<1>3. \E a \in Views : /\ Path(R, v, e1, a) /\ a.slot = 0 /\ a.track = v.track /\ a.pos = v.pos /\ a.tool = k.tool
                       /\ e1 \in Seq(Words)
  <2>1. CASE v.tool = k.tool
    <3>1. e1 = <<>> /\ <<>> \in Seq(Words)
      BY <2>1 DEF NewTool
    <3>2. Path(R, v, <<>>, v)
      BY PathNone, Zenon
    <3> QED BY <1>1, <1>2, <2>1, <3>1, <3>2
  <2>2. CASE v.tool # k.tool
    <3> DEFINE ev == <<"tool", k.tool>>
               a == After(v, ev)
    <3>1. ev \in Words /\ ev[1] = "tool" /\ ev[2] = k.tool
      BY <1>1, WordsIn
    <3>2. Proper(d, v, v, ev)
      BY <1>2, <2>2, <3>1 DEF Proper
    <3>3. e1 = <<ev>>
      BY <2>2 DEF NewTool
    <3> HIDE DEF ev
    <3>4. /\ a \in Views /\ a.slot = v.slot /\ a.tool = k.tool
          /\ \A s \in Slot : a.track[s] = v.track[s] /\ a.pos[s] = v.pos[s]
      BY <1>1, <3>1, AfterIs
    <3>5. Path(R, v, <<ev>>, a) /\ <<ev>> \in Seq(Words)
      BY <1>1, <3>1, <3>2, OneEvent
    <3> HIDE DEF a, R
    <3>6. a.track = v.track /\ a.pos = v.pos
      BY <1>1, <3>4 DEF Views
    <3> QED BY <1>2, <3>3, <3>4, <3>5, <3>6
  <2> QED BY <2>1, <2>2
<1>4. PICK a \in Views : /\ Path(R, v, e1, a) /\ a.slot = 0 /\ a.track = v.track /\ a.pos = v.pos /\ a.tool = k.tool
                         /\ e1 \in Seq(Words)
  BY <1>3
<1>5. GetsTrack(d, v, v, k, a, 0)
  <2>1. a.track[0] = v.track[0]
    BY <1>4
  <2> QED BY <1>1, <1>2, <1>4, <2>1, NewTrackPath
<1>6. PICK b \in Views : /\ Path(R, a, e2, b) /\ b.slot = a.slot /\ b.tool = a.tool /\ b.pos = a.pos
                         /\ b.track[0] = k.track[0]
                         /\ \A o \in Slot \ {0} : b.track[o] = a.track[o]
  BY <1>5 DEF GetsTrack
<1>7. GetsPos(d, v, v, k, b, 0)
  <2>1. b.pos[0] = v.pos[0] /\ b.slot = 0
    BY <1>4, <1>6
  <2> QED BY <1>1, <1>2, <2>1, NewPosPath
<1>8. PICK c \in Views : /\ Path(R, b, e3, c) /\ c.slot = b.slot /\ c.tool = b.tool /\ c.track = b.track
                         /\ c.pos[0] = k.pos[0]
                         /\ \A o \in Slot \ {0} : c.pos[o] = b.pos[o]
  BY <1>7 DEF GetsPos
<1>9. c = Told(k)
  <2>1. c.slot = k.sent /\ c.tool = k.tool
    BY <1>2, <1>4, <1>6, <1>8
  <2>2. c.track[0] = k.track[0] /\ c.pos[0] = k.pos[0]
    BY <1>6, <1>8
  <2>3. c.track[1] = k.track[1] /\ c.pos[1] = k.pos[1]
    BY <1>1, <1>2, <1>4, <1>6, <1>8
  <2>4. \A s \in Slot : c.track[s] = k.track[s] /\ c.pos[s] = k.pos[s]
    BY <2>2, <2>3, Numbers
  <2> HIDE DEF R
  <2> QED BY <1>1, <2>1, <2>4, SameView
<1> DEFINE rep == DroppedReport \o e1 \o e2 \o e3
           reps == <<rep>>
<1>10. SyncReports(d) = reps /\ Len(reps) = 1 /\ reps[1] = rep
  BY DEF SyncReports
<1>11. Path(R, v, DroppedReport, v) /\ DroppedReport \in Seq(Words)
  BY <1>1, DroppedPath
<1>12. e1 \in Seq(Words) /\ e2 \in Seq(Words) /\ e3 \in Seq(Words)
  BY <1>4, <1>5, <1>7 DEF GetsTrack, GetsPos
<1> HIDE DEF R, e1, e2, e3
<1>13. Path(R, v, DroppedReport \o e1, a) /\ DroppedReport \o e1 \in Seq(Words)
  BY <1>4, <1>11, <1>12, PathConcat
<1>14. Path(R, v, (DroppedReport \o e1) \o e2, b) /\ (DroppedReport \o e1) \o e2 \in Seq(Words)
  BY <1>6, <1>12, <1>13, PathConcat
<1>15. Path(R, v, ((DroppedReport \o e1) \o e2) \o e3, c) /\ ((DroppedReport \o e1) \o e2) \o e3 \in Seq(Words)
  BY <1>8, <1>12, <1>14, PathConcat
<1>16. rep = ((DroppedReport \o e1) \o e2) \o e3
  OBVIOUS
<1> HIDE DEF rep, reps
<1> QED BY <1>9, <1>10, <1>15, <1>16 DEF SyncTo, Leads, R

\* What is read: the reports, and what one reading of them leaves
ReportsOf(d) == IF queue[d] = Dropped THEN SyncReports(d) ELSE <<Head(queue[d])>>
ReadOf(d, reps, v, t, order) ==
  LET r1 == ReadReport(d, v, t, reps[1], order)
      r2 == ReadReport(d, r1.view, r1.t, reps[2], order)
  IN IF Len(reps) = 1 THEN r1 ELSE [r2 EXCEPT !.evs = r1.evs \o @]

LEMMA ReadOfTells ==
  ASSUME NEW d \in Device, NEW v \in Views, NEW w \in Views, NEW reps, SyncTo(d, reps, v, w),
         NoReuse(v, w), Fits(d, v), Fits(d, w), NEW t, Between(d, v, t), NEW order \in Orders
  PROVE  LET r == ReadOf(d, reps, v, t, order)
         IN /\ r.view = w /\ Between(d, w, r.t) /\ Tells(d, Held(d, v), r.evs, Held(d, w))
<1> DEFINE r1 == ReadReport(d, v, t, reps[1], order)
           r2 == ReadReport(d, r1.view, r1.t, reps[2], order)
           r == ReadOf(d, reps, v, t, order)
<1>1. CASE Len(reps) = 1 /\ Leads(d, v, reps[1], w)
  <2>1. r = r1
    BY <1>1 DEF ReadOf
  <2> DEFINE f == reps[1]
  <2>2. Leads(d, v, f, w)
    BY <1>1
  <2> HIDE DEF f
  <2>3. /\ ReadReport(d, v, t, f, order).view = w /\ Between(d, w, ReadReport(d, v, t, f, order).t)
        /\ Tells(d, Held(d, v), ReadReport(d, v, t, f, order).evs, Held(d, w))
    BY <2>2, ReadTells
  <2> QED BY <2>1, <2>3 DEF f
<1>2. CASE /\ Len(reps) = 2
           /\ \E m \in Views : /\ Fits(d, m) /\ NoReuse(v, m) /\ NoReuse(m, w)
                               /\ Leads(d, v, reps[1], m) /\ Leads(d, m, reps[2], w)
  <2>1. PICK m \in Views : /\ Fits(d, m) /\ NoReuse(v, m) /\ NoReuse(m, w)
                           /\ Leads(d, v, reps[1], m) /\ Leads(d, m, reps[2], w)
    BY <1>2
  <2>2. r = [r2 EXCEPT !.evs = r1.evs \o r2.evs]
    BY <1>2 DEF ReadOf
  <2> DEFINE f == reps[1]
             g == reps[2]
  <2>3. Leads(d, v, f, m) /\ Leads(d, m, g, w)
    BY <2>1
  <2>4. r1 = ReadReport(d, v, t, f, order) /\ r2 = ReadReport(d, r1.view, r1.t, g, order)
    OBVIOUS
  <2> HIDE DEF f, g, r, r1, r2
  <2>5. r1.view = m /\ Between(d, m, r1.t) /\ Tells(d, Held(d, v), r1.evs, Held(d, m))
    BY <2>1, <2>3, <2>4, ReadTells
  <2> DEFINE t1 == r1.t
  <2>6. r2 = ReadReport(d, m, t1, g, order) /\ Between(d, m, t1)
    BY <2>4, <2>5
  <2> HIDE DEF t1
  <2>7. /\ r2 = [view |-> r2.view, t |-> r2.t, evs |-> r2.evs]
        /\ r2.view = w /\ Between(d, w, r2.t) /\ Tells(d, Held(d, m), r2.evs, Held(d, w))
    BY <2>1, <2>3, <2>6, ReadTells
  <2>8. r = [view |-> r2.view, t |-> r2.t, evs |-> r1.evs \o r2.evs]
    BY <2>2, <2>7
  <2>9. r.view = r2.view /\ r.t = r2.t /\ r.evs = r1.evs \o r2.evs
    BY <2>8
  <2>10. Tells(d, Held(d, v), r1.evs \o r2.evs, Held(d, w))
    BY <2>5, <2>7, TellsConcat
  <2> QED BY <2>7, <2>9, <2>10 DEF r
<1> QED BY <1>1, <1>2 DEF SyncTo

LEMMA ReadKnown ==
  ASSUME NEW d \in Device, Known(d, kernel[d], queue[d], synced[d]), Between(d, synced[d], td[d]),
         queue[d] # <<>>, NEW order \in Orders
  PROVE  LET r == ReadOf(d, ReportsOf(d), synced[d], td[d], order)
         IN /\ Known(d, kernel[d], Tail(queue[d]), r.view) /\ Between(d, r.view, r.t)
            /\ Tells(d, Held(d, synced[d]), r.evs, Held(d, r.view))
<1> DEFINE k == kernel[d]
           q == queue[d]
           v == synced[d]
           t == td[d]
           reps == ReportsOf(d)
           r == ReadOf(d, reps, v, t, order)
<1>1. /\ k \in Kernels /\ Fits(d, Told(k)) /\ (d \notin TouchDevices => k.sent = k.slot)
      /\ v \in Views /\ Fits(d, v) /\ NoReuse(v, Told(k))
      /\ (d \in TouchDevices => k.tool = v.tool) /\ q \in Reports /\ q # <<>>
      /\ (q # Dropped => Chain(d, q, v, Told(k)))
      /\ Told(k) \in Views /\ Told(k).tool = k.tool
      /\ Between(d, v, t)
  BY ToldIs DEF Known
<1>2. CASE q = Dropped
  <2>1. SyncTo(d, SyncReports(d), v, Told(k))
    <3> DEFINE kk == kernel[d]
               vv == synced[d]
               qq == queue[d]
    <3>1. kk = kernel[d] /\ vv = synced[d] /\ Known(d, kk, qq, vv)
      OBVIOUS
    <3> HIDE DEF kk, vv, qq
    <3>2. SyncTo(d, SyncReports(d), vv, Told(kk))
      <4>1. CASE d \in TouchDevices
        BY <3>1, <4>1, SyncTouch
      <4>2. CASE d \notin TouchDevices
        BY <3>1, <4>2, SyncOthers
      <4> QED BY <4>1, <4>2
    <3> QED BY <3>2 DEF kk, vv
  <2>2. reps = SyncReports(d)
    BY <1>2 DEF ReportsOf
  <2>3. Tail(q) = <<>>
    BY <1>2, DroppedIs
  <2> DEFINE w == Told(k)
  <2>4. SyncTo(d, reps, v, w) /\ w \in Views /\ NoReuse(v, w) /\ Fits(d, w)
    BY <1>1, <2>1, <2>2
  <2> HIDE DEF w, v, t, reps, k, q
  <2>5. r.view = w /\ Between(d, w, r.t) /\ Tells(d, Held(d, v), r.evs, Held(d, w))
    BY <1>1, <2>4, ReadOfTells
  <2>6. Chain(d, <<>>, w, w) /\ NoReuse(w, w)
    BY <2>4, ChainNone DEF NoReuse
  <2>7. Known(d, k, Tail(q), w)
    <3>1. <<>> \in Reports
      BY DEF Reports
    <3>2. d \in TouchDevices => k.tool = w.tool
      BY <1>1 DEF w
    <3>3. Chain(d, <<>>, w, Told(k)) /\ NoReuse(w, Told(k)) /\ Fits(d, Told(k))
      BY <2>6, <1>1 DEF w
    <3> QED BY <1>1, <2>3, <2>4, <3>1, <3>2, <3>3 DEF Known
  <2> QED BY <2>5, <2>7 DEF k, q, v, t, reps
<1>3. CASE q # Dropped
  <2> DEFINE f == Head(q)
             w == Told(k)
  <2>1. reps = <<f>>
    BY <1>3 DEF ReportsOf
  <2>2. Tail(q) \in Reports /\ Len(reps) = 1 /\ reps[1] = f
    BY <1>1, <2>1 DEF Reports
  <2>3. Chain(d, q, v, w)
    BY <1>1, <1>3
  <2> HIDE DEF w, v, t, reps, k, q, r
  <2>4. PICK z \in Views : /\ Fits(d, z) /\ NoReuse(v, z) /\ Leads(d, v, Head(q), z)
                           /\ NoReuse(z, w) /\ Chain(d, Tail(q), z, w)
    BY <1>1, <2>3, ChainNext
  <2>5. SyncTo(d, reps, v, z)
    BY <2>2, <2>4 DEF SyncTo
  <2>6. r.view = z /\ Between(d, z, r.t) /\ Tells(d, Held(d, v), r.evs, Held(d, z))
    BY <1>1, <2>4, <2>5, ReadOfTells DEF r
  <2>7. d \in TouchDevices => z.tool = v.tool
    BY <1>1, <2>4, LeadsTool
  <2>8. Known(d, k, Tail(q), z)
    BY <1>1, <2>2, <2>4, <2>7 DEF Known, w
  <2> QED BY <2>6, <2>8 DEF k, q, v, t, reps, r
<1> QED BY <1>2, <1>3
------------------------------------------------------------------------------
(* The receivers                                                              *)

ReceivedIds == Ids \union {FakeId, PenId}

\* The calculator's devices number their touches apart: one panel, one viewers' device, one pen.
PointersApart ==
  \A S \in Setups : S[2] = "keypad" =>
    \A x, y \in S[1] \ KeyDevices : x # y => IdsOf(x) \cap IdsOf(y) = {}

\* A device of dn holds touch i, or slot z as the receivers know it.
HoldsId(dn, live, i) == i # None /\ \E x \in live \ KeyDevices : \E s \in Slot : dn[x][s] = i
HoldsSlot(dn, live, z) ==
  \E x \in live \ KeyDevices : \E s \in Slot : dn[x][s] # None /\ z = IF x \in PenDevices THEN PenSlot ELSE s

\* What a receiver keeps is a touch that is held, or whose end it was not shown.
GestureOK(h, live) ==
  /\ h.current \in [Area -> ReceivedIds \union {None}]
  /\ \A a \in Area : h.current[a] # None =>
       app = "gesture" /\ (HoldsId(h.down, live, h.current[a]) \/ h.current[a] \in h.unseen)

KeypadOK(h, live) ==
  /\ h.pressed \subseteq Area /\ DOMAIN h.keys \subseteq ReceivedIds
  /\ app # "keypad" => h.pressed = {} /\ DOMAIN h.keys = {}
  /\ PointersApart /\ h.unseen = {} =>
       /\ \A i \in DOMAIN h.keys : HoldsId(h.down, live, i)
       /\ \A a \in h.pressed : \E i \in DOMAIN h.keys : h.keys[i] = a

MouseOK(h, live) ==
  /\ h.mouse \in [slot : Slot \union {None, PenSlot}, on : BOOLEAN]
  /\ h.mouse.slot # None => app = "mouse" /\ (HoldsSlot(h.down, live, h.mouse.slot) \/ h.mouse.slot \in h.unseen)

ReceiverOK(h, live) == GestureOK(h, live) /\ KeypadOK(h, live) /\ MouseOK(h, live)

\* The calculator tells its pointers apart.
Apart(dn, live) ==
  PointersApart /\ app = "keypad" =>
    \A x \in live \ KeyDevices :
      /\ \A s \in Slot : dn[x][s] \in IdsOf(x) \union {None}
      /\ \A y \in live \ KeyDevices : x # y => IdsOf(x) \cap IdsOf(y) = {}

\* What an event leaves held
StillHolds(dn, dn2, live, ev) ==
  /\ dn2 \in [Device -> [Slot -> HeldIds]]
  /\ \A i : HoldsId(dn, live, i) /\ ~ (ev.type = "Up" /\ i = ev.id) => HoldsId(dn2, live, i)
  /\ \A z : HoldsSlot(dn, live, z) /\ ~ (ev.type = "Up" /\ z = ev.slot) => HoldsSlot(dn2, live, z)
  /\ ev.type = "Down" => HoldsId(dn2, live, ev.id) /\ HoldsSlot(dn2, live, ev.slot)

LEMMA StillHeld ==
  ASSUME NEW live \in SUBSET Device, NEW d \in live, NEW dn \in [Device -> [Slot -> HeldIds]],
         NEW ev \in Sent, Fair(d, dn[d], ev), NEW dn2, dn2 = [dn EXCEPT ![d] = Heard(dn[d], ev)]
  PROVE  StillHolds(dn, dn2, live, ev)
<1> DEFINE p == dn[d]
           q == Heard(dn[d], ev)
           t == Place(ev)
<1>1. d \in Device /\ p \in [Slot -> HeldIds]
  OBVIOUS
<1>2. Fair(d, p, ev)
  OBVIOUS
<1>3. /\ t \in Slot
      /\ q \in [Slot -> HeldIds]
      /\ \A s \in Slot : s # t => q[s] = p[s]
      /\ ev.type = "Down" => q[t] = ev.id
      /\ ev.type = "Press" => q[t] = 1
      /\ ev.type \in {"Up", "Release"} => q[t] = None
      /\ ev.type \notin {"Down", "Up", "Press", "Release"} => q = p
  <2>1. q = Heard(p, ev) /\ t = Place(ev)
    OBVIOUS
  <2> HIDE DEF p, q, t
  <2>2. /\ Place(ev) \in Slot
        /\ Heard(p, ev) \in [Slot -> HeldIds]
        /\ \A s \in Slot : s # Place(ev) => Heard(p, ev)[s] = p[s]
        /\ ev.type = "Down" => Heard(p, ev)[Place(ev)] = ev.id
        /\ ev.type = "Press" => Heard(p, ev)[Place(ev)] = 1
        /\ ev.type \in {"Up", "Release"} => Heard(p, ev)[Place(ev)] = None
        /\ ev.type \notin {"Down", "Up", "Press", "Release"} => Heard(p, ev) = p
    BY <1>1, <1>2, HeardIs
  <2> QED BY <2>1, <2>2
<1> HIDE DEF q, t
<1>4. /\ dn2[d] = q /\ (\A x \in Device : x # d => dn2[x] = dn[x]) /\ dn2 \in [Device -> [Slot -> HeldIds]]
  BY <1>1, <1>3 DEF q
<1>5. ASSUME NEW x \in live \ KeyDevices, NEW s \in Slot, dn[x][s] # None
      PROVE  \/ dn2[x][s] = dn[x][s]
             \/ ev.type = "Up" /\ x = d /\ s = t /\ dn[x][s] = ev.id
  <2>1. CASE x # d
    BY <1>4, <2>1
  <2>2. CASE x = d /\ s # t
    BY <1>3, <1>4, <2>2
  <2>3. CASE x = d /\ s = t
    <3>1. d \notin KeyDevices /\ p[t] # None
      BY <1>5, <2>3
    <3>2. ev.type \notin {"Press", "Release", "Down"}
      BY <1>2, <3>1 DEF Fair, t
    <3>3. ev.type = "Up" => ev.id = p[t]
      BY <1>2 DEF Fair, t
    <3> QED BY <1>3, <1>4, <2>3, <3>2, <3>3
  <2> QED BY <2>1, <2>2, <2>3
<1>6. ASSUME NEW i, HoldsId(dn, live, i), ~ (ev.type = "Up" /\ i = ev.id) PROVE HoldsId(dn2, live, i)
  <2>1. PICK x \in live \ KeyDevices : \E s \in Slot : dn[x][s] = i
    BY <1>6 DEF HoldsId
  <2>2. PICK s \in Slot : dn[x][s] = i
    BY <2>1
  <2>3. i # None
    BY <1>6 DEF HoldsId
  <2>4. dn2[x][s] = i
    BY <1>5, <1>6, <2>2, <2>3
  <2> QED BY <2>3, <2>4 DEF HoldsId
<1>7. ASSUME NEW z, HoldsSlot(dn, live, z), ~ (ev.type = "Up" /\ z = ev.slot) PROVE HoldsSlot(dn2, live, z)
  <2>1. PICK x \in live \ KeyDevices : \E s \in Slot : dn[x][s] # None /\ z = IF x \in PenDevices THEN PenSlot ELSE s
    BY <1>7 DEF HoldsSlot
  <2>2. PICK s \in Slot : dn[x][s] # None /\ z = IF x \in PenDevices THEN PenSlot ELSE s
    BY <2>1
  <2>3. dn2[x][s] = dn[x][s]
    <3>1. CASE ev.type = "Up" /\ x = d /\ s = t
      <4>1. ev.slot = PenSlot <=> d \in PenDevices
        BY <1>2 DEF Fair
      <4>2. z = ev.slot
        BY <2>2, <3>1, <4>1 DEF t, Place
      <4> QED BY <1>7, <3>1, <4>2
    <3>2. CASE ~ (ev.type = "Up" /\ x = d /\ s = t)
      BY <1>5, <2>2, <3>2
    <3> QED BY <3>1, <3>2
  <2> QED BY <2>2, <2>3 DEF HoldsSlot
<1>8. ASSUME ev.type = "Down" PROVE HoldsId(dn2, live, ev.id) /\ HoldsSlot(dn2, live, ev.slot)
  <2>1. ev.id # None /\ d \notin KeyDevices /\ dn2[d][t] = ev.id
    BY <1>2, <1>3, <1>4, <1>8 DEF Fair
  <2>2. ev.slot = PenSlot <=> d \in PenDevices
    BY <1>2 DEF Fair
  <2>3. ev.slot = IF d \in PenDevices THEN PenSlot ELSE t
    BY <2>2 DEF t, Place
  <2> QED BY <1>3, <2>1, <2>3 DEF HoldsId, HoldsSlot
<1> QED BY <1>4, <1>6, <1>7, <1>8 DEF StillHolds

\* What the history notes of an event that may come
LEMMA DownAfterIs ==
  ASSUME NEW d \in Device, NEW h, h.down \in [Device -> [Slot -> HeldIds]], NEW ev \in Sent, Fair(d, h.down[d], ev)
  PROVE  /\ Receive(h, ev).down = [h.down EXCEPT ![d] = Heard(h.down[d], ev)]
         /\ h.paired = TRUE => Receive(h, ev).paired = TRUE
<1> DEFINE s == IF ev.slot = PenSlot THEN 0 ELSE ev.slot
           dn == h.down
           x == Receive(h, ev)
<1>1. ev.dev = d /\ s = Place(ev)
  BY DEF Fair, Place
<1>2. x.paired = ( /\ h.paired
                   /\ ev.type \in {"Down", "Press"} => dn[ev.dev][s] = None
                   /\ ev.type \in {"Up", "Release"} => dn[ev.dev][s] # None )
  BY DEF Receive, DownAfter
<1>3. /\ ev.type \in {"Down", "Press"} => dn[d][s] = None
      /\ ev.type \in {"Up", "Release"} => dn[d][s] # None
  BY <1>1 DEF Fair
<1>4. x.down = [dn EXCEPT ![ev.dev][s] = CASE ev.type = "Down" -> ev.id
                                           [] ev.type = "Press" -> 1
                                           [] ev.type \in {"Up", "Release"} -> None
                                           [] OTHER -> @]
  BY DEF Receive, DownAfter
<1>5. [dn EXCEPT ![d] = Heard(dn[d], ev)] =
        [dn EXCEPT ![d] = [dn[d] EXCEPT ![s] = CASE ev.type = "Down" -> ev.id
                                                 [] ev.type = "Press" -> 1
                                                 [] ev.type \in {"Up", "Release"} -> None
                                                 [] OTHER -> @]]
  BY <1>1 DEF Heard
<1> HIDE DEF x, s, dn
<1>6. x.down = [dn EXCEPT ![d] = Heard(dn[d], ev)]
  BY <1>1, <1>4, <1>5
<1>7. h.paired = TRUE => x.paired = TRUE
  BY <1>1, <1>2, <1>3
<1> QED BY <1>6, <1>7 DEF x, dn

LEMMA ReceiveIs ==
  ASSUME NEW h, NEW ev
  PROVE  /\ Receive(h, ev).current = IF app = "gesture" THEN GestureInput(h.current, ev) ELSE h.current
         /\ Receive(h, ev).keys = IF app = "keypad" THEN KeypadInput([keys |-> h.keys, pressed |-> h.pressed], ev).keys ELSE h.keys
         /\ Receive(h, ev).pressed = IF app = "keypad" THEN KeypadInput([keys |-> h.keys, pressed |-> h.pressed], ev).pressed
                                     ELSE h.pressed
         /\ Receive(h, ev).mouse = IF app = "mouse" THEN MouseInput(h.mouse, ev) ELSE h.mouse
         /\ Receive(h, ev).unseen = IF MouseUnseen(h.mouse, ev) /\ h.mouse.slot = ev.slot
                                    THEN h.unseen \union {ev.slot} ELSE h.unseen
BY DEF Receive

LEMMA GestureStep ==
  ASSUME NEW live \in SUBSET Device, NEW d \in live, NEW h, h.down \in [Device -> [Slot -> HeldIds]],
         NEW ev \in Sent, Fair(d, h.down[d], ev), GestureOK(h, live)
  PROVE  GestureOK(Receive(h, ev), live)
<1> DEFINE x == Receive(h, ev)
           dn == h.down
           dn2 == x.down
           cur == h.current
<1>1. d \in Device
  OBVIOUS
<1>2. dn2 = [dn EXCEPT ![d] = Heard(dn[d], ev)]
  BY <1>1, DownAfterIs
<1>3. x.current = (IF app = "gesture" THEN GestureInput(cur, ev) ELSE cur) /\ h.unseen \subseteq x.unseen
  BY ReceiveIs
<1> SUFFICES GestureOK(x, live)
  OBVIOUS
<1> HIDE DEF x, dn2
<1>4. /\ \A i : HoldsId(dn, live, i) /\ ~ (ev.type = "Up" /\ i = ev.id) => HoldsId(dn2, live, i)
      /\ ev.type = "Down" => HoldsId(dn2, live, ev.id)
  <2>1. dn \in [Device -> [Slot -> HeldIds]] /\ Fair(d, dn[d], ev)
    OBVIOUS
  <2> HIDE DEF dn
  <2>2. StillHolds(dn, dn2, live, ev)
    BY <1>2, <2>1, StillHeld
  <2> QED BY <2>2 DEF StillHolds
<1>5. /\ cur \in [Area -> ReceivedIds \union {None}]
      /\ \A a \in Area : cur[a] # None => app = "gesture" /\ (HoldsId(dn, live, cur[a]) \/ cur[a] \in h.unseen)
  BY DEF GestureOK
<1>6. CASE app # "gesture"
  BY <1>3, <1>5, <1>6 DEF GestureOK, dn2
<1>7. CASE app = "gesture"
  <2>1. x.current = [a \in Area |->
          IF ev.type = "Down" /\ ev.pos = a /\ cur[a] = None THEN ev.id
          ELSE IF ev.type = "Up" /\ ev.id = cur[a] THEN None ELSE cur[a]]
    BY <1>3, <1>7 DEF GestureInput
  <2>2. ev.type = "Down" => ev.id \in ReceivedIds
    BY IdsOfIs DEF Fair, ReceivedIds
  <2>3. x.current \in [Area -> ReceivedIds \union {None}]
    BY <1>5, <2>1, <2>2
  <2>4. ASSUME NEW a \in Area, x.current[a] # None
        PROVE  HoldsId(dn2, live, x.current[a]) \/ x.current[a] \in x.unseen
    <3>1. x.current[a] = IF ev.type = "Down" /\ ev.pos = a /\ cur[a] = None THEN ev.id
                         ELSE IF ev.type = "Up" /\ ev.id = cur[a] THEN None ELSE cur[a]
      BY <2>1
    <3>2. CASE ev.type = "Down" /\ ev.pos = a /\ cur[a] = None
      BY <1>4, <3>1, <3>2
    <3>3. CASE ~ (ev.type = "Down" /\ ev.pos = a /\ cur[a] = None)
      <4>1. x.current[a] = cur[a] /\ ~ (ev.type = "Up" /\ cur[a] = ev.id) /\ cur[a] # None
        BY <2>4, <3>1, <3>3
      <4>2. HoldsId(dn, live, cur[a]) \/ cur[a] \in h.unseen
        BY <1>5, <4>1
      <4> QED BY <1>3, <1>4, <4>1, <4>2
    <3> QED BY <3>2, <3>3
  <2> QED BY <1>7, <2>3, <2>4 DEF GestureOK, dn2
<1> QED BY <1>6, <1>7

LEMMA KeypadStep ==
  ASSUME NEW live \in SUBSET Device, NEW d \in live, NEW h, Apart(h.down, live), h.down \in [Device -> [Slot -> HeldIds]],
         NEW ev \in Sent, Fair(d, h.down[d], ev), KeypadOK(h, live)
  PROVE  KeypadOK(Receive(h, ev), live)
<1> DEFINE x == Receive(h, ev)
           dn == h.down
           dn2 == x.down
           f == h.keys
           k == KeypadInput([keys |-> h.keys, pressed |-> h.pressed], ev)
<1>1. d \in Device
  OBVIOUS
<1>2. dn2 = [dn EXCEPT ![d] = Heard(dn[d], ev)]
  BY <1>1, DownAfterIs
<1>3. /\ x.keys = IF app = "keypad" THEN k.keys ELSE f
      /\ x.pressed = IF app = "keypad" THEN k.pressed ELSE h.pressed
      /\ h.unseen \subseteq x.unseen
  BY ReceiveIs
<1>4. /\ \A i : HoldsId(dn, live, i) /\ ~ (ev.type = "Up" /\ i = ev.id) => HoldsId(x.down, live, i)
      /\ ev.type = "Down" => HoldsId(x.down, live, ev.id)
  <2>1. x.down = [dn EXCEPT ![d] = Heard(dn[d], ev)]
    BY <1>2
  <2>2. dn \in [Device -> [Slot -> HeldIds]] /\ Fair(d, dn[d], ev)
    OBVIOUS
  <2> DEFINE y == x.down
  <2>3. y = [dn EXCEPT ![d] = Heard(dn[d], ev)]
    BY <2>1
  <2> HIDE DEF dn, y
  <2>4. StillHolds(dn, y, live, ev)
    BY <2>2, <2>3, StillHeld
  <2> QED BY <2>4 DEF y, StillHolds
<1> SUFFICES KeypadOK(x, live)
  OBVIOUS
<1> HIDE DEF x, k
<1>5. /\ h.pressed \subseteq Area /\ DOMAIN f \subseteq ReceivedIds
      /\ app # "keypad" => h.pressed = {} /\ DOMAIN f = {}
      /\ PointersApart /\ h.unseen = {} => /\ \A i \in DOMAIN f : HoldsId(dn, live, i)
                                           /\ \A a \in h.pressed : \E i \in DOMAIN f : f[i] = a
  BY DEF KeypadOK
<1>10. ASSUME PointersApart, h.unseen = {} PROVE \A b \in h.pressed : \E i \in DOMAIN f : f[i] = b
  BY <1>10 DEF KeypadOK
<1>6. CASE app # "keypad"
  BY <1>3, <1>5, <1>6 DEF KeypadOK
<1>7. CASE app = "keypad" /\ ev.type = "Up" /\ ev.id \in DOMAIN f
  <2>1. k = [keys |-> [i \in DOMAIN f \ {ev.id} |-> f[i]], pressed |-> h.pressed \ {f[ev.id]}]
    BY <1>7 DEF KeypadInput, k
  <2>2. x.keys = [i \in DOMAIN f \ {ev.id} |-> f[i]] /\ x.pressed = h.pressed \ {f[ev.id]}
    BY <1>3, <1>7, <2>1
  <2>3. DOMAIN x.keys = DOMAIN f \ {ev.id} /\ \A i \in DOMAIN f \ {ev.id} : x.keys[i] = f[i]
    BY <2>2
  <2>4. ASSUME PointersApart, x.unseen = {}
        PROVE  /\ \A i \in DOMAIN x.keys : HoldsId(x.down, live, i)
               /\ \A a \in x.pressed : \E i \in DOMAIN x.keys : x.keys[i] = a
    <3>1. h.unseen = {}
      BY <1>3, <2>4
    <3>2. ASSUME NEW i \in DOMAIN x.keys PROVE HoldsId(x.down, live, i)
      <4>1. i \in DOMAIN f /\ i # ev.id
        BY <2>3
      <4> QED BY <1>4, <1>5, <2>4, <3>1, <4>1
    <3>3. ASSUME NEW a \in x.pressed PROVE \E i \in DOMAIN x.keys : x.keys[i] = a
      <4>1. a \in h.pressed /\ a # f[ev.id]
        BY <2>2
      <4>4. \A b \in h.pressed : \E i \in DOMAIN f : f[i] = b
        BY <1>10, <2>4, <3>1
      <4>2. PICK i \in DOMAIN f : f[i] = a
        BY <4>1, <4>4
      <4>3. i # ev.id
        BY <4>1, <4>2
      <4> QED BY <2>3, <4>2, <4>3
    <3> QED BY <3>2, <3>3
  <2>5. DOMAIN x.keys \subseteq ReceivedIds /\ x.pressed \subseteq Area
    BY <1>5, <2>2, <2>3
  <2> QED BY <1>7, <2>4, <2>5 DEF KeypadOK
<1>8. CASE app = "keypad" /\ ev.type = "Down" /\ ev.pos \in Area
  <2>1. k = [keys |-> WithPointer(f, ev.id, ev.pos), pressed |-> h.pressed \union {ev.pos}]
    BY <1>8 DEF KeypadInput, k
  <2>2. /\ x.keys = [i \in DOMAIN f \union {ev.id} |-> IF i \in DOMAIN f THEN f[i] ELSE ev.pos]
        /\ x.pressed = h.pressed \union {ev.pos}
    <3>1. x.keys = WithPointer(f, ev.id, ev.pos) /\ x.pressed = h.pressed \union {ev.pos}
      BY <1>3, <1>8, <2>1
    <3> QED BY <3>1 DEF WithPointer
  <2>3. /\ DOMAIN x.keys = DOMAIN f \union {ev.id}
        /\ \A i \in DOMAIN f : x.keys[i] = f[i]
        /\ ev.id \notin DOMAIN f => x.keys[ev.id] = ev.pos
    BY <2>2
  <2>4. /\ ev.id \in ReceivedIds /\ ev.id \in IdsOf(d) /\ ev.id # None
        /\ d \notin KeyDevices /\ \A o \in Slot : ev.id # dn[d][o]
    BY <1>8, IdsOfIs DEF Fair, ReceivedIds
  <2>5. ASSUME PointersApart PROVE ~ HoldsId(dn, live, ev.id)
    <3> SUFFICES ASSUME NEW y \in live \ KeyDevices, NEW s \in Slot, dn[y][s] = ev.id PROVE FALSE
      BY DEF HoldsId
    <3>1. y = d
      BY <1>8, <2>4, <2>5 DEF Apart
    <3> QED BY <2>4, <3>1
  <2>6. ASSUME PointersApart, x.unseen = {}
        PROVE  /\ \A i \in DOMAIN x.keys : HoldsId(x.down, live, i)
               /\ \A a \in x.pressed : \E i \in DOMAIN x.keys : x.keys[i] = a
    <3>1. h.unseen = {}
      BY <1>3, <2>6
    <3>2. ev.id \notin DOMAIN f
      BY <1>5, <2>5, <2>6, <3>1
    <3>3. ASSUME NEW i \in DOMAIN x.keys PROVE HoldsId(x.down, live, i)
      <4>1. CASE i = ev.id
        BY <1>4, <1>8, <4>1
      <4>2. CASE i # ev.id
        <5>1. i \in DOMAIN f /\ ev.type # "Up"
          BY <1>8, <2>3, <4>2
        <5> QED BY <1>4, <1>5, <2>6, <3>1, <5>1
      <4> QED BY <4>1, <4>2
    <3>4. ASSUME NEW a \in x.pressed PROVE \E i \in DOMAIN x.keys : x.keys[i] = a
      <4>1. CASE a = ev.pos
        BY <2>3, <3>2, <4>1
      <4>2. CASE a # ev.pos
        <5>1. a \in h.pressed
          BY <2>2, <4>2
        <5>3. \A b \in h.pressed : \E i \in DOMAIN f : f[i] = b
          BY <1>10, <2>6, <3>1
        <5>2. PICK i \in DOMAIN f : f[i] = a
          BY <5>1, <5>3
        <5> QED BY <2>3, <5>2
      <4> QED BY <4>1, <4>2
    <3> QED BY <3>3, <3>4
  <2>7. DOMAIN x.keys \subseteq ReceivedIds /\ x.pressed \subseteq Area
    BY <1>5, <1>8, <2>2, <2>3, <2>4
  <2> QED BY <1>8, <2>6, <2>7 DEF KeypadOK
<1>9. CASE /\ app = "keypad" /\ ~ (ev.type = "Up" /\ ev.id \in DOMAIN f)
           /\ ~ (ev.type = "Down" /\ ev.pos \in Area)
  <2>1. k = [keys |-> f, pressed |-> h.pressed]
    BY <1>9 DEF KeypadInput, k
  <2>2. x.keys = f /\ x.pressed = h.pressed
    BY <1>3, <1>9, <2>1
  <2>3. ASSUME PointersApart, x.unseen = {} PROVE \A i \in DOMAIN f : HoldsId(x.down, live, i)
    <3>1. h.unseen = {}
      BY <1>3, <2>3
    <3> SUFFICES ASSUME NEW i \in DOMAIN f PROVE HoldsId(x.down, live, i)
      OBVIOUS
    <3> QED BY <1>4, <1>5, <1>9, <2>3, <3>1
  <2>4. x.unseen = {} => h.unseen = {}
    BY <1>3
  <2> QED BY <1>5, <1>9, <2>2, <2>3, <2>4 DEF KeypadOK
<1> QED BY <1>6, <1>7, <1>8, <1>9

LEMMA MouseStep ==
  ASSUME NEW live \in SUBSET Device, NEW d \in live, NEW h, h.down \in [Device -> [Slot -> HeldIds]],
         NEW ev \in Sent, Fair(d, h.down[d], ev), MouseOK(h, live)
  PROVE  MouseOK(Receive(h, ev), live)
<1> DEFINE x == Receive(h, ev)
           dn == h.down
           m == h.mouse
<1>1. d \in Device
  OBVIOUS
<1>2. x.down = [dn EXCEPT ![d] = Heard(dn[d], ev)]
  BY <1>1, DownAfterIs
<1>3. /\ x.mouse = IF app = "mouse" THEN MouseInput(m, ev) ELSE m
      /\ x.unseen = IF MouseUnseen(m, ev) /\ m.slot = ev.slot THEN h.unseen \union {ev.slot} ELSE h.unseen
  BY ReceiveIs
<1> SUFFICES MouseOK(x, live)
  OBVIOUS
<1> HIDE DEF x
<1>4. /\ \A z : HoldsSlot(dn, live, z) /\ ~ (ev.type = "Up" /\ z = ev.slot) => HoldsSlot(x.down, live, z)
      /\ ev.type = "Down" => HoldsSlot(x.down, live, ev.slot)
  <2>1. dn \in [Device -> [Slot -> HeldIds]] /\ Fair(d, dn[d], ev)
    OBVIOUS
  <2> DEFINE y == x.down
  <2>2. y = [dn EXCEPT ![d] = Heard(dn[d], ev)]
    BY <1>2
  <2> HIDE DEF dn, y
  <2>3. StillHolds(dn, y, live, ev)
    BY <2>1, <2>2, StillHeld
  <2> QED BY <2>3 DEF y, StillHolds
<1>5. /\ m \in [slot : Slot \union {None, PenSlot}, on : BOOLEAN]
      /\ m.slot # None => app = "mouse" /\ (HoldsSlot(dn, live, m.slot) \/ m.slot \in h.unseen)
      /\ ev.slot \in Slot \union {PenSlot} /\ m.on \in BOOLEAN
  BY DEF MouseOK, Sent
<1>6. h.unseen \subseteq x.unseen
  BY <1>3
<1>7. CASE app # "mouse"
  BY <1>3, <1>5, <1>7 DEF MouseOK
<1>8. CASE app = "mouse" /\ (ev.pos = Off \/ ~m.on)
  <2>1. x.mouse = m
    BY <1>3, <1>8 DEF MouseInput
  <2>2. ASSUME m.slot # None PROVE HoldsSlot(x.down, live, m.slot) \/ m.slot \in x.unseen
    <3>1. CASE ev.type = "Up" /\ m.slot = ev.slot
      <4>1. MouseUnseen(m, ev)
        BY <1>8, <3>1 DEF MouseUnseen
      <4> QED BY <1>3, <3>1, <4>1
    <3>2. CASE ~ (ev.type = "Up" /\ m.slot = ev.slot)
      BY <1>4, <1>5, <1>6, <2>2, <3>2
    <3> QED BY <3>1, <3>2
  <2> QED BY <1>5, <1>8, <2>1, <2>2 DEF MouseOK
<1>9. CASE app = "mouse" /\ ~ (ev.pos = Off \/ ~m.on) /\ ev.type = "Down" /\ m.slot = None
  <2>1. x.mouse = [m EXCEPT !.slot = ev.slot]
    BY <1>3, <1>9 DEF MouseInput
  <2>2. x.mouse \in [slot : Slot \union {None, PenSlot}, on : BOOLEAN] /\ x.mouse.slot = ev.slot
    BY <1>5, <2>1
  <2> QED BY <1>4, <1>9, <2>2 DEF MouseOK
<1>10. CASE /\ app = "mouse" /\ ~ (ev.pos = Off \/ ~m.on) /\ ~ (ev.type = "Down" /\ m.slot = None)
            /\ ev.type = "Up" /\ m.slot = ev.slot
  <2>1. x.mouse = [m EXCEPT !.slot = None]
    BY <1>3, <1>10 DEF MouseInput
  <2>2. x.mouse \in [slot : Slot \union {None, PenSlot}, on : BOOLEAN] /\ x.mouse.slot = None
    BY <1>5, <2>1
  <2> QED BY <2>2 DEF MouseOK
<1>11. CASE /\ app = "mouse" /\ ~ (ev.pos = Off \/ ~m.on) /\ ~ (ev.type = "Down" /\ m.slot = None)
            /\ ~ (ev.type = "Up" /\ m.slot = ev.slot)
  <2>1. x.mouse = m
    BY <1>3, <1>11 DEF MouseInput
  <2>2. m.slot # None => HoldsSlot(x.down, live, m.slot) \/ m.slot \in x.unseen
    BY <1>4, <1>5, <1>6, <1>11
  <2> QED BY <1>5, <1>11, <2>1, <2>2 DEF MouseOK
<1> QED BY <1>7, <1>8, <1>9, <1>10, <1>11

\* What the receivers and the history have, as a report's events tell what is held
Delivered(d, live, p, x) ==
  /\ x.down = [down EXCEPT ![d] = p]
  /\ paired = TRUE => x.paired = TRUE
  /\ ReceiverOK(Received, live) /\ Apart(down, live) => ReceiverOK(x, live) /\ Apart(x.down, live)

LEMMA ReceiverStep ==
  ASSUME NEW live \in SUBSET Device, NEW d \in live, NEW h, h.down \in [Device -> [Slot -> HeldIds]],
         NEW ev \in Sent, Fair(d, h.down[d], ev), Apart(h.down, live), ReceiverOK(h, live)
  PROVE  ReceiverOK(Receive(h, ev), live)
<1>1. GestureOK(Receive(h, ev), live)
  BY GestureStep DEF ReceiverOK
<1>2. KeypadOK(Receive(h, ev), live)
  BY KeypadStep DEF ReceiverOK
<1>3. MouseOK(Receive(h, ev), live)
  BY MouseStep DEF ReceiverOK
<1> QED BY <1>1, <1>2, <1>3 DEF ReceiverOK

LEMMA ApartStep ==
  ASSUME NEW live \in SUBSET Device, NEW d \in live, NEW dn \in [Device -> [Slot -> HeldIds]],
         NEW ev \in Sent, Fair(d, dn[d], ev), Apart(dn, live)
  PROVE  Apart([dn EXCEPT ![d] = Heard(dn[d], ev)], live)
<1> DEFINE p == dn[d]
           q == Heard(dn[d], ev)
<1>1. d \in Device /\ p \in [Slot -> HeldIds] /\ Fair(d, p, ev) /\ q = Heard(p, ev)
  OBVIOUS
<1> HIDE DEF p, q
<1>5. (\A s \in Slot : s # Place(ev) => q[s] = p[s]) /\ (ev.type = "Down" => q[Place(ev)] = ev.id)
  <2>1. /\ Place(ev) \in Slot
        /\ Heard(p, ev) \in [Slot -> HeldIds]
        /\ \A s \in Slot : s # Place(ev) => Heard(p, ev)[s] = p[s]
        /\ ev.type = "Down" => Heard(p, ev)[Place(ev)] = ev.id
        /\ ev.type = "Press" => Heard(p, ev)[Place(ev)] = 1
        /\ ev.type \in {"Up", "Release"} => Heard(p, ev)[Place(ev)] = None
        /\ ev.type \notin {"Down", "Up", "Press", "Release"} => Heard(p, ev) = p
    BY <1>1, HeardIs
  <2> QED BY <1>1, <2>1
<1>2. ASSUME NEW s \in Slot, d \notin KeyDevices PROVE q[s] \in IdsOf(d) \union {None, p[s]}
  <2>1. CASE s # Place(ev)
    BY <1>5, <2>1
  <2>2. CASE s = Place(ev) /\ ev.type = "Down"
    <3>1. q[s] = ev.id
      BY <1>5, <2>2
    <3> QED BY <1>1, <2>2, <3>1 DEF Fair
  <2>3. CASE s = Place(ev) /\ ev.type \in {"Up", "Release"}
    <3>1. q[s] = None
      BY <1>1, <2>3, HeardIs
    <3> QED BY <3>1
  <2>4. CASE s = Place(ev) /\ ev.type \notin {"Down", "Up", "Release"}
    <3>1. ev.type # "Press"
      BY <1>1, <1>2 DEF Fair
    <3>2. q = p
      BY <1>1, <2>4, <3>1, HeardIs
    <3> QED BY <3>2
  <2> QED BY <2>1, <2>2, <2>3, <2>4
<1> DEFINE dn2 == [dn EXCEPT ![d] = q]
<1>3. dn2[d] = q /\ \A x \in Device : x # d => dn2[x] = dn[x]
  BY <1>1
<1> HIDE DEF dn2
<1>4. ASSUME NEW x \in live \ KeyDevices, NEW s \in Slot, PointersApart, app = "keypad"
      PROVE  dn2[x][s] \in IdsOf(x) \union {None}
  <2>1. dn[x][s] \in IdsOf(x) \union {None} /\ x \in Device
    BY <1>4 DEF Apart
  <2>2. CASE x # d
    BY <1>3, <2>1, <2>2
  <2>3. CASE x = d
    <3>1. p[s] \in IdsOf(d) \union {None} /\ q[s] \in IdsOf(d) \union {None, p[s]}
      BY <1>2, <2>1, <2>3 DEF p
    <3> QED BY <1>3, <2>3, <3>1
  <2> QED BY <2>2, <2>3
<1> QED BY <1>4 DEF Apart, dn2, q

LEMMA Twice ==
  ASSUME NEW f, NEW d, NEW a, NEW b
  PROVE  [[f EXCEPT ![d] = a] EXCEPT ![d] = b] = [f EXCEPT ![d] = b]
OBVIOUS

LEMMA DeliveredStep ==
  ASSUME NEW live \in SUBSET Device, NEW d \in live, down \in [Device -> [Slot -> HeldIds]],
         NEW p \in [Slot -> HeldIds], NEW x, Delivered(d, live, p, x), NEW ev \in Sent, Fair(d, p, ev)
  PROVE  Delivered(d, live, Heard(p, ev), Receive(x, ev))
<1>1. d \in Device
  OBVIOUS
<1>2. x.down = [down EXCEPT ![d] = p] /\ x.down \in [Device -> [Slot -> HeldIds]] /\ x.down[d] = p
  BY <1>1 DEF Delivered
<1>3. Receive(x, ev).down = [x.down EXCEPT ![d] = Heard(x.down[d], ev)] /\ (x.paired = TRUE => Receive(x, ev).paired = TRUE)
  BY <1>1, <1>2, DownAfterIs
<1>4. Receive(x, ev).down = [down EXCEPT ![d] = Heard(p, ev)]
  <2> DEFINE q == Heard(p, ev)
  <2>1. Receive(x, ev).down = [[down EXCEPT ![d] = p] EXCEPT ![d] = q]
    BY <1>2, <1>3
  <2> HIDE DEF q
  <2> QED BY <2>1, Twice, Zenon DEF q
<1>5. ReceiverOK(x, live) /\ Apart(x.down, live) =>
        ReceiverOK(Receive(x, ev), live) /\ Apart(Receive(x, ev).down, live)
  <2> SUFFICES ASSUME ReceiverOK(x, live), Apart(x.down, live)
               PROVE  ReceiverOK(Receive(x, ev), live) /\ Apart(Receive(x, ev).down, live)
    OBVIOUS
  <2>1. ReceiverOK(Receive(x, ev), live)
    BY <1>2, ReceiverStep
  <2> DEFINE dn == x.down
  <2>2. dn \in [Device -> [Slot -> HeldIds]] /\ Fair(d, dn[d], ev) /\ Apart(dn, live)
    BY <1>2
  <2> HIDE DEF dn
  <2>3. Apart([dn EXCEPT ![d] = Heard(dn[d], ev)], live)
    BY <2>2, ApartStep
  <2> QED BY <1>3, <2>1, <2>3 DEF dn
<1> QED BY <1>3, <1>4, <1>5 DEF Delivered

LEMMA Delivers ==
  ASSUME NEW live \in SUBSET Device, NEW d \in live, down \in [Device -> [Slot -> HeldIds]],
         NEW evs, NEW g, Tells(d, down[d], evs, g)
  PROVE  Delivered(d, live, g, ReceivedUpTo(evs)[Len(evs)])
<1> DEFINE r == ReceivedUpTo(evs)
           R == Sends(d)
           m == Len(evs)
           G == {z \in [Slot -> HeldIds] \X {r[n] : n \in 0 .. m} : Delivered(d, live, z[1], z[2])}
           x == down[d]
<1>1. evs \in Seq(Sent) /\ m \in Nat /\ Path(R, x, evs, g) /\ x \in [Slot -> HeldIds]
  BY DEF Tells
<1>2. r[0] = Received /\ \A i \in 1 .. m : r[i] = Receive(r[i - 1], evs[i])
  BY <1>1, ReceivedUpToDef
<1>3. Delivered(d, live, x, Received)
  <2>1. Received.down = down /\ Received.paired = paired
    BY DEF Received
  <2>2. [down EXCEPT ![d] = x] = down
    OBVIOUS
  <2> QED BY <2>1, <2>2 DEF Delivered
<1> HIDE DEF r, x
<1>4. <<x, r[0]>> \in G
  BY <1>1, <1>2, <1>3
<1>5. ASSUME NEW n \in 1 .. m, NEW a, NEW b, <<a, r[n - 1]>> \in G, <<a, evs[n], b>> \in R
      PROVE  <<b, r[n]>> \in G
  <2>1. n \in 0 .. m /\ r[n] = Receive(r[n - 1], evs[n])
    BY <1>1, <1>2
  <2>2. a \in [Slot -> HeldIds] /\ Delivered(d, live, a, r[n - 1])
    BY <1>5
  <2>3. evs[n] \in Sent /\ Fair(d, a, evs[n]) /\ b = Heard(a, evs[n]) /\ b \in [Slot -> HeldIds]
    BY <1>5 DEF Sends
  <2>4. Delivered(d, live, b, r[n])
    BY <2>1, <2>2, <2>3, DeliveredStep
  <2> QED BY <2>1, <2>3, <2>4
<1> HIDE DEF G, R
<1>6. <<g, r[m]>> \in G
  BY <1>1, <1>4, <1>5, PathKeeps
<1> QED BY <1>6 DEF G, r, m

------------------------------------------------------------------------------
(* The invariant                                                              *)

TypeInv ==
  /\ setup \subseteq Device /\ <<setup, app>> \in Setups
  /\ alive \subseteq setup /\ opened \subseteq setup /\ ready \subseteq Device
  /\ crashed \in BOOLEAN
  /\ kernel \in [Device -> Kernels]
  /\ queue \in [Device -> Reports] /\ \A d \in Device : Len(queue[d]) <= MaxQueue
  /\ synced \in [Device -> Views]
  /\ td \in [Device -> Devs] /\ \A d \in Device : td[d].changed = {}
  /\ down \in [Device -> [Slot -> HeldIds]]

\* udev's messages are each about another device, one that is there and not open or the other
\* way round.
UdevOK ==
  /\ udev \in Seq({"add", "remove"} \X Device)
  /\ \A n \in 1 .. Len(udev) :
       /\ udev[n][1] = "add" => udev[n][2] \in alive \ opened
       /\ udev[n][1] = "remove" => udev[n][2] \in opened \ alive
       /\ \A m \in 1 .. Len(udev) : m # n => udev[m][2] # udev[n][2]

\* What the app knows of an open device; one not yet open was not used.
DeviceOK(d) ==
  /\ d \in alive \intersect opened => /\ Known(d, kernel[d], queue[d], synced[d])
                                      /\ Between(d, synced[d], td[d])
                                      /\ down[d] = Held(d, synced[d])
  /\ d \in alive \ opened => kernel[d] = FreshKernel /\ queue[d] \in {<<>>, Dropped}

BaseInv == TypeInv /\ UdevOK /\ paired = TRUE /\ \A d \in Device : DeviceOK(d)

LEMMA FreshIs ==
  ASSUME NEW d \in Device
  PROVE  /\ FreshKernel \in Kernels /\ Told(FreshKernel) \in Views /\ FreshDevice \in Devs
         /\ Known(d, FreshKernel, <<>>, Told(FreshKernel)) /\ Known(d, FreshKernel, Dropped, Told(FreshKernel))
         /\ Between(d, Told(FreshKernel), FreshDevice)
         /\ Held(d, Told(FreshKernel)) = [s \in Slot |-> None]
<1> DEFINE k == FreshKernel
           v == Told(k)
           t == FreshDevice
<1>1. /\ k \in Kernels /\ k.slot = 0 /\ k.sent = 0 /\ k.tool = 0
      /\ \A s \in Slot : k.track[s] = None /\ k.pos[s] = Off
  BY DEF FreshKernel, Kernels, Tracks, Pos, Slot
<1> HIDE DEF k
<1>2. /\ v \in Views /\ v.slot = 0 /\ v.tool = 0 /\ v.track = k.track /\ v.pos = k.pos
  BY <1>1, ToldIs
<1> HIDE DEF v
<1>3. \A s \in Slot : v.track[s] = None /\ v.pos[s] = Off
  BY <1>1, <1>2
<1>4. Fits(d, v)
  BY <1>2, <1>3, Numbers DEF Fits
<1>5. NoReuse(v, v)
  BY DEF NoReuse
<1>6. Known(d, k, <<>>, v)
  <2>1. <<>> \in Reports
    BY DEF Reports
  <2>2. Chain(d, <<>>, v, v)
    BY <1>2, <1>4, ChainNone
  <2>3. v = Told(k)
    BY DEF v
  <2> QED BY <1>1, <1>2, <1>4, <1>5, <2>1, <2>2, <2>3 DEF Known
<1>7. Known(d, k, Dropped, v)
  BY <1>6, FloodKnown
<1>8. /\ t \in Devs /\ t.slot = 0 /\ t.changed = {} /\ t.tool = "Move" /\ t.keys = <<>>
      /\ \A s \in Slot : t.type[s] = "Move" /\ t.pos[s] = Off
      /\ t.pos \in [Slot -> Pos]
  BY DEF FreshDevice, Devs, Slot, Pos, Tools, DeviceTypes
<1> HIDE DEF t
<1>9. t.pos = v.pos
  BY <1>2, <1>3, <1>8 DEF Views
<1>10. Between(d, v, t)
  <2>1. MidTouch(v, v, t)
    BY <1>2, <1>3, <1>8 DEF MidTouch
  <2>2. MidPen(v, v, t)
    BY <1>2, <1>8 DEF MidPen
  <2>3. MidKey(v, v, t)
    BY <1>2, <1>8 DEF MidKey
  <2> QED BY <1>8, <1>9, <2>1, <2>2, <2>3 DEF Between, Mid
<1>11. Held(d, v) = [s \in Slot |-> None]
  BY <1>2, <1>3, Numbers DEF Held
<1> QED BY <1>1, <1>2, <1>6, <1>7, <1>8, <1>10, <1>11 DEF k, v, t

LEMMA InitBase == Init => BaseInv
<1> SUFFICES ASSUME Init PROVE BaseInv
  OBVIOUS
<1>1. PICK S \in Setups : setup = S[1] /\ app = S[2]
  BY DEF Init
<1>2. setup \subseteq Device /\ <<setup, app>> \in Setups
  BY <1>1, TouchAssumption
<1>3. /\ alive = setup /\ opened = setup /\ ready = {} /\ crashed = FALSE /\ udev = <<>> /\ paired = TRUE
      /\ kernel = [d \in Device |-> FreshKernel] /\ queue = [d \in Device |-> <<>>]
      /\ synced = [d \in Device |-> Told(FreshKernel)] /\ td = [d \in Device |-> FreshDevice]
      /\ down = [d \in Device |-> [s \in Slot |-> None]]
  BY DEF Init
<1>4. MaxQueue \in Nat /\ <<>> \in Reports /\ Len(<<>>) = 0 /\ FreshDevice.changed = {}
  BY TouchAssumption DEF Reports, FreshDevice
<1>5. [s \in Slot |-> None] \in [Slot -> HeldIds]
  BY DEF HeldIds, Tracks
<1>6. ASSUME NEW d \in Device
      PROVE  FreshKernel \in Kernels /\ Told(FreshKernel) \in Views /\ FreshDevice \in Devs
  BY FreshIs
<1>7. TypeInv
  <2>1. kernel \in [Device -> Kernels] /\ synced \in [Device -> Views] /\ td \in [Device -> Devs]
    BY <1>3, <1>6
  <2>2. queue \in [Device -> Reports] /\ down \in [Device -> [Slot -> HeldIds]]
    BY <1>3, <1>4, <1>5
  <2>3. \A d \in Device : Len(queue[d]) <= MaxQueue /\ td[d].changed = {}
    BY <1>3, <1>4
  <2> QED BY <1>2, <1>3, <2>1, <2>2, <2>3 DEF TypeInv
<1>8. UdevOK
  BY <1>3 DEF UdevOK
<1>9. ASSUME NEW d \in Device PROVE DeviceOK(d)
  <2>1. /\ kernel[d] = FreshKernel /\ queue[d] = <<>> /\ synced[d] = Told(FreshKernel)
        /\ td[d] = FreshDevice /\ down[d] = [s \in Slot |-> None]
    BY <1>3
  <2> QED BY <1>3, <2>1, FreshIs DEF DeviceOK
<1> QED BY <1>3, <1>7, <1>8, <1>9 DEF BaseInv

\* One device has news, and nothing else changes.
LEMMA ReportBase ==
  ASSUME BaseInv, NEW d \in Device, NEW writes, d \in alive \intersect opened => Passes(d, writes), Report(d, writes)
  PROVE  BaseInv'
<1> DEFINE r == WrittenUpTo(d, writes)[Len(writes)]
           q == QueueAfter(queue[d], r.out)
<1>1. /\ d \in alive \intersect opened /\ kernel' = [kernel EXCEPT ![d] = r.k]
      /\ UNCHANGED <<alive, udev, reader, receiver, history>>
  BY DEF Report
<1>2. queue' = [queue EXCEPT ![d] = q]
  BY DEF Report, QueueAfter
<1>3. /\ Known(d, kernel[d], queue[d], synced[d]) /\ Passes(d, writes)
      /\ kernel \in [Device -> Kernels] /\ queue \in [Device -> Reports] /\ Len(queue[d]) <= MaxQueue
  BY <1>1 DEF BaseInv, DeviceOK, TypeInv
<1>4. Known(d, r.k, q, synced[d])
  BY <1>3, ReportKnown
<1>5. Len(q) <= MaxQueue
  <2>1. MaxQueue \in Nat \ {0} /\ queue[d] \in Reports
    BY <1>3, TouchAssumption
  <2>2. CASE r.out # <<>> /\ ~ (Len(queue[d]) >= MaxQueue \/ queue[d] = Dropped)
    <3>1. q = Append(queue[d], r.out)
      BY <2>2 DEF QueueAfter
    <3>2. Len(q) = Len(queue[d]) + 1 /\ Len(queue[d]) \in Nat
      BY <2>1, <3>1 DEF Reports
    <3> HIDE DEF q
    <3> QED BY <2>1, <2>2, <3>2
  <2>3. CASE ~ (r.out # <<>> /\ ~ (Len(queue[d]) >= MaxQueue \/ queue[d] = Dropped))
    <3>1. q \in {queue[d], Dropped}
      BY <2>3 DEF QueueAfter
    <3> HIDE DEF q
    <3>2. Len(Dropped) <= MaxQueue
      BY <2>1, DroppedIs
    <3> QED BY <1>3, <3>1, <3>2
  <2> QED BY <2>2, <2>3
<1>6. r.k \in Kernels /\ q \in Reports
  BY <1>4 DEF Known
<1> HIDE DEF r, q
<1>7. UNCHANGED <<alive, udev, opened, ready, synced, td, crashed, setup, app, down, paired>>
  BY <1>1 DEF reader, receiver, history
<1>8. /\ kernel'[d] = r.k /\ queue'[d] = q
      /\ \A x \in Device : x # d => kernel'[x] = kernel[x] /\ queue'[x] = queue[x]
      /\ kernel' \in [Device -> Kernels] /\ queue' \in [Device -> Reports]
  BY <1>1, <1>2, <1>3, <1>6
<1>9. TypeInv'
  BY <1>5, <1>7, <1>8 DEF BaseInv, TypeInv
<1>10. UdevOK' /\ paired' = TRUE
  BY <1>7 DEF BaseInv, UdevOK
<1>11. ASSUME NEW x \in Device PROVE DeviceOK(x)'
  <2>1. DeviceOK(x)
    BY DEF BaseInv
  <2>2. CASE x = d
    BY <1>1, <1>4, <1>7, <1>8, <2>1, <2>2 DEF DeviceOK
  <2>3. CASE x # d
    BY <1>7, <1>8, <2>1, <2>3 DEF DeviceOK
  <2> QED BY <2>2, <2>3
<1> QED BY <1>9, <1>10, <1>11 DEF BaseInv


\* The actions of the drivers and of rm2fb's server: each is a report.
Touched(d) ==
  \/ \E s \in Slot : Finger(d, s)
  \/ BothUp(d)
  \/ Stylus(d)
  \/ \E type \in {"Down", "Move", "Up"}, p \in Pos : SendTouch(d, type, p) \/ SendPen(d, type, p)
  \/ \E press \in BOOLEAN : SendButton(d, press)

LEMMA TouchedReports ==
  ASSUME BaseInv, NEW d \in Device, Touched(d)
  PROVE  \E writes : Passes(d, writes) /\ Report(d, writes)
<1>1. ASSUME NEW writes, Report(d, writes) PROVE KernelOK(d)
  <2>1. d \in alive \intersect opened
    BY <1>1 DEF Report
  <2> QED BY <2>1 DEF BaseInv, DeviceOK, Known, KernelOK
<1>2. ASSUME NEW s \in Slot, Finger(d, s) PROVE \E writes : Passes(d, writes) /\ Report(d, writes)
  <2>1. d \in TouchDevices \ Remote
    BY <1>2 DEF Finger
  <2>2. PICK p \in Pos, i \in Ids, act \in {"down", "move", "up"} :
          /\ act = "down" => kernel[d].track[s] = None /\ ~InUse(d, i)
          /\ Report(d, FingerWrites(d, s, act, i, p))
    <3>1. PICK p \in Pos, i \in Ids :
            \/ /\ kernel[d].track[s] = None /\ ~InUse(d, i)
               /\ Report(d, FingerWrites(d, s, "down", i, p))
            \/ /\ kernel[d].track[s] # None
               /\ \/ Report(d, FingerWrites(d, s, "move", i, p))
                  \/ Report(d, FingerWrites(d, s, "up", i, p))
      BY <1>2 DEF Finger
    <3>2. "down" # "move" /\ "down" # "up"
      OBVIOUS
    <3> QED BY <3>1, <3>2
  <2> DEFINE writes == FingerWrites(d, s, act, i, p)
  <2>3. Report(d, writes)
    BY <2>2
  <2>4. KernelOK(d)
    BY <1>1, <2>3
  <2>5. Passes(d, writes)
    BY <2>1, <2>2, <2>4, FingerPasses
  <2> QED BY <2>3, <2>5
<1>3. ASSUME BothUp(d) PROVE \E writes : Passes(d, writes) /\ Report(d, writes)
  <2> DEFINE writes == FingerWrites(d, 0, "up", None, Off) \o FingerWrites(d, 1, "up", None, Off)
  <2>1. d \in TouchDevices \ Remote /\ Report(d, writes)
    BY <1>3 DEF BothUp
  <2>2. KernelOK(d)
    BY <1>1, <2>1
  <2>3. Passes(d, writes)
    BY <2>1, <2>2, BothUpPasses
  <2> QED BY <2>1, <2>3
<1>4. ASSUME Stylus(d) PROVE \E writes : Passes(d, writes) /\ Report(d, writes)
  <2>1. PICK w \in {<<"tool", 1>>, <<"tool", 0>>, <<"track", 1>>, <<"track", None>>}, p \in Pos :
          Report(d, << <<"pos", p>>, w >>)
    BY <1>4 DEF Stylus
  <2> DEFINE writes == << <<"pos", p>>, w >>
  <2>2. d \in PenDevices /\ Report(d, writes)
    BY <1>4, <2>1 DEF Stylus
  <2>3. KernelOK(d)
    BY <1>1, <2>2
  <2>4. Passes(d, writes)
    BY <2>2, <2>3, StylusPasses
  <2> QED BY <2>2, <2>4
<1>5. ASSUME NEW type \in {"Down", "Move", "Up"}, NEW p \in Pos, SendTouch(d, type, p)
      PROVE  \E writes : Passes(d, writes) /\ Report(d, writes)
  <2> DEFINE writes == TouchWrites(type, p)
  <2>1. d \in TouchDevices \cap Remote /\ Report(d, writes)
    BY <1>5 DEF SendTouch, TouchWrites
  <2>2. KernelOK(d)
    BY <1>1, <2>1
  <2>3. Passes(d, writes)
    BY <2>1, <2>2, SendTouchPasses
  <2> QED BY <2>1, <2>3
<1>6. ASSUME NEW type \in {"Down", "Move", "Up"}, NEW p \in Pos, SendPen(d, type, p)
      PROVE  \E writes : Passes(d, writes) /\ Report(d, writes)
  <2> DEFINE writes == PenWrites(type, p)
  <2>1. d \in PenDevices /\ Report(d, << <<"pos", p>> >> \o
           (IF type = "Move" THEN <<>>
            ELSE << <<"tool", IF type = "Down" THEN 1 ELSE 0>>,
                    <<"track", IF (IF type = "Down" THEN 1 ELSE 0) = 1 THEN 1 ELSE None>> >>))
    BY <1>6 DEF SendPen
  <2>2. /\ type = "Down" => (IF type = "Down" THEN 1 ELSE 0) = 1
        /\ type # "Down" => (IF type = "Down" THEN 1 ELSE 0) # 1
    OBVIOUS
  <2>3. Report(d, writes)
    <3>1. CASE type = "Down"
      BY <2>1, <3>1 DEF PenWrites
    <3>2. CASE type # "Down"
      BY <2>1, <3>2 DEF PenWrites
    <3> QED BY <3>1, <3>2
  <2>4. KernelOK(d)
    BY <1>1, <2>3
  <2>5. Passes(d, writes)
    BY <2>1, <2>4, SendPenPasses
  <2> QED BY <2>3, <2>5
<1>7. ASSUME NEW press \in BOOLEAN, SendButton(d, press) PROVE \E writes : Passes(d, writes) /\ Report(d, writes)
  <2> DEFINE b == IF press THEN 1 ELSE 0
  <2>1. d \in KeyDevices /\ Report(d, << <<"tool", b>> >>)
    BY <1>7 DEF SendButton
  <2>2. KernelOK(d) /\ b \in {0, 1}
    BY <1>1, <2>1
  <2> HIDE DEF b
  <2>3. Passes(d, << <<"tool", b>> >>)
    BY <2>1, <2>2, SendButtonPasses
  <2> QED BY <2>1, <2>3
<1> QED BY <1>2, <1>3, <1>4, <1>5, <1>6, <1>7 DEF Touched

LEMMA TouchedBase ==
  ASSUME BaseInv, NEW d \in Device, Touched(d)
  PROVE  BaseInv'
<1>1. PICK writes : Passes(d, writes) /\ Report(d, writes)
  BY TouchedReports
<1> QED BY <1>1, ReportBase

LEMMA FloodBase ==
  ASSUME BaseInv, NEW d \in Device, Flood(d)
  PROVE  BaseInv'
<1>1. /\ d \in alive /\ queue' = [queue EXCEPT ![d] = Dropped]
      /\ kernel' = kernel
      /\ UNCHANGED <<alive, udev, opened, ready, synced, td, crashed, setup, app, down, paired>>
  BY DEF Flood, reader, receiver, history
<1>2. queue \in [Device -> Reports] /\ Dropped \in Reports /\ Len(Dropped) <= MaxQueue
  BY DroppedIs, TouchAssumption DEF BaseInv, TypeInv
<1>3. queue'[d] = Dropped /\ (\A x \in Device : x # d => queue'[x] = queue[x]) /\ queue' \in [Device -> Reports]
  BY <1>1, <1>2
<1>4. TypeInv'
  BY <1>1, <1>2, <1>3 DEF BaseInv, TypeInv
<1>5. UdevOK' /\ paired' = TRUE
  BY <1>1 DEF BaseInv, UdevOK
<1>6. ASSUME NEW x \in Device PROVE DeviceOK(x)'
  <2>1. DeviceOK(x)
    BY DEF BaseInv
  <2>2. CASE x = d
    <3>1. d \in opened => Known(d, kernel[d], Dropped, synced[d])
      BY <1>1, <2>1, <2>2, FloodKnown DEF DeviceOK
    <3> QED BY <1>1, <1>3, <2>1, <2>2, <3>1 DEF DeviceOK
  <2>3. CASE x # d
    BY <1>1, <1>3, <2>1, <2>3 DEF DeviceOK
  <2> QED BY <2>2, <2>3
<1> QED BY <1>4, <1>5, <1>6 DEF BaseInv

\* udev's messages after another one
LEMMA UdevAppend ==
  ASSUME UdevOK, NEW kind \in {"add", "remove"}, NEW d \in Device, udev' = Append(udev, <<kind, d>>),
         \A n \in 1 .. Len(udev) : udev[n][2] # d,
         kind = "add" => d \in alive' \ opened', kind = "remove" => d \in opened' \ alive',
         \A x \in Device : x # d => (x \in alive' <=> x \in alive) /\ (x \in opened' <=> x \in opened)
  PROVE  UdevOK'
<1> DEFINE l == Len(udev)
           u == udev'
<1>1. udev \in Seq({"add", "remove"} \X Device) /\ l \in Nat
  BY DEF UdevOK
<1>2. /\ u \in Seq({"add", "remove"} \X Device) /\ Len(u) = l + 1
      /\ u[l + 1] = <<kind, d>> /\ \A n \in 1 .. l : u[n] = udev[n]
  BY <1>1
<1> HIDE DEF u
<1>3. ASSUME NEW n \in 1 .. l + 1
      PROVE  /\ u[n][1] = "add" => u[n][2] \in alive' \ opened'
             /\ u[n][1] = "remove" => u[n][2] \in opened' \ alive'
             /\ n # l + 1 => u[n][2] # d /\ n \in 1 .. l
  <2>1. CASE n = l + 1
    BY <1>2, <2>1
  <2>2. CASE n # l + 1
    <3>1. n \in 1 .. l
      BY <1>1, <2>2
    <3>2. u[n] = udev[n] /\ udev[n][2] # d /\ udev[n] \in {"add", "remove"} \X Device
      BY <1>1, <1>2, <3>1
    <3>3. /\ udev[n][1] = "add" => udev[n][2] \in alive \ opened
          /\ udev[n][1] = "remove" => udev[n][2] \in opened \ alive
          /\ udev[n][2] \in Device
      BY <3>1, <3>2 DEF UdevOK
    <3> QED BY <3>1, <3>2, <3>3
  <2> QED BY <2>1, <2>2
<1>4. ASSUME NEW n \in 1 .. l + 1, NEW m \in 1 .. l + 1, m # n PROVE u[m][2] # u[n][2]
  <2>1. CASE n # l + 1 /\ m # l + 1
    <3>1. n \in 1 .. l /\ m \in 1 .. l
      BY <1>3, <2>1
    <3> QED BY <1>2, <1>4, <3>1 DEF UdevOK
  <2>2. CASE n = l + 1
    BY <1>2, <1>3, <1>4, <2>2
  <2>3. CASE m = l + 1
    BY <1>2, <1>3, <1>4, <2>3
  <2> QED BY <2>1, <2>2, <2>3
<1> QED BY <1>2, <1>3, <1>4 DEF UdevOK, u

LEMMA NoMessage ==
  ASSUME UdevOK, NEW d \in alive \intersect opened
  PROVE  \A n \in 1 .. Len(udev) : udev[n][2] # d
<1>1. \A n \in 1 .. Len(udev) : udev[n] \in {"add", "remove"} \X Device
  BY DEF UdevOK
<1> QED BY <1>1 DEF UdevOK

LEMMA TakeAwayBase ==
  ASSUME BaseInv, NEW d \in Device, TakeAway(d)
  PROVE  BaseInv'
<1>1. /\ d \in alive \intersect opened /\ alive' = alive \ {d} /\ udev' = Append(udev, <<"remove", d>>)
      /\ UNCHANGED <<kernel, queue, opened, ready, synced, td, crashed, setup, app, down, paired>>
  BY DEF TakeAway, reader, receiver
<1>2. TypeInv' /\ paired' = TRUE
  BY <1>1 DEF BaseInv, TypeInv
<1>3. UdevOK'
  <2>1. UdevOK
    BY DEF BaseInv
  <2>2. \A n \in 1 .. Len(udev) : udev[n][2] # d
    BY <1>1, <2>1, NoMessage
  <2>3. d \in opened' \ alive' /\ \A x \in Device : x # d => (x \in alive' <=> x \in alive) /\ (x \in opened' <=> x \in opened)
    BY <1>1
  <2> QED BY <1>1, <2>1, <2>2, <2>3, UdevAppend
<1>4. ASSUME NEW x \in Device PROVE DeviceOK(x)'
  BY <1>1 DEF BaseInv, DeviceOK
<1> QED BY <1>2, <1>3, <1>4 DEF BaseInv

LEMMA CreateBase ==
  ASSUME BaseInv, NEW d \in Device, Create(d)
  PROVE  BaseInv'
<1>1. /\ d \in setup \ (alive \union opened) /\ (\A n \in DOMAIN udev : udev[n][2] # d)
      /\ alive' = alive \union {d} /\ udev' = Append(udev, <<"add", d>>)
      /\ kernel' = [kernel EXCEPT ![d] = FreshKernel] /\ queue' = [queue EXCEPT ![d] = <<>>]
      /\ UNCHANGED <<opened, ready, synced, td, crashed, setup, app, down, paired>>
  BY DEF Create, reader, receiver, history
<1>2. /\ kernel \in [Device -> Kernels] /\ queue \in [Device -> Reports] /\ FreshKernel \in Kernels
      /\ <<>> \in Reports /\ Len(<<>>) = 0 /\ MaxQueue \in Nat
  BY FreshIs, TouchAssumption DEF BaseInv, TypeInv, Reports
<1>3. /\ kernel'[d] = FreshKernel /\ queue'[d] = <<>>
      /\ \A x \in Device : x # d => kernel'[x] = kernel[x] /\ queue'[x] = queue[x]
      /\ kernel' \in [Device -> Kernels] /\ queue' \in [Device -> Reports]
  BY <1>1, <1>2
<1>4. \A x \in Device : Len(queue'[x]) <= MaxQueue
  <2>1. \A x \in Device : Len(queue[x]) <= MaxQueue
    BY DEF BaseInv, TypeInv
  <2> QED BY <1>2, <1>3, <2>1
<1>5. TypeInv' /\ paired' = TRUE
  BY <1>1, <1>3, <1>4 DEF BaseInv, TypeInv
<1>6. UdevOK'
  <2>1. UdevOK
    BY DEF BaseInv
  <2>2. \A n \in 1 .. Len(udev) : udev[n][2] # d
    <3>1. udev \in Seq({"add", "remove"} \X Device)
      BY <2>1 DEF UdevOK
    <3> QED BY <1>1, <3>1
  <2>3. d \in alive' \ opened' /\ \A x \in Device : x # d => (x \in alive' <=> x \in alive) /\ (x \in opened' <=> x \in opened)
    BY <1>1
  <2> QED BY <1>1, <2>1, <2>2, <2>3, UdevAppend
<1>7. ASSUME NEW x \in Device PROVE DeviceOK(x)'
  <2>1. DeviceOK(x)
    BY DEF BaseInv
  <2>2. CASE x = d
    BY <1>1, <1>3, <2>2 DEF DeviceOK
  <2>3. CASE x # d
    BY <1>1, <1>3, <2>1, <2>3 DEF DeviceOK
  <2> QED BY <2>2, <2>3
<1> QED BY <1>5, <1>6, <1>7 DEF BaseInv

\* udev's messages without the first one
LEMMA UdevTail ==
  ASSUME UdevOK, udev # <<>>, udev' = Tail(udev), alive' = alive,
         \A x \in Device : x # Head(udev)[2] => (x \in opened' <=> x \in opened)
  PROVE  UdevOK'
<1> DEFINE l == Len(udev)
           u == udev'
<1>1. udev \in Seq({"add", "remove"} \X Device) /\ l \in Nat \ {0} /\ Head(udev) = udev[1] /\ 1 \in 1 .. l
  BY DEF UdevOK
<1>2. /\ u \in Seq({"add", "remove"} \X Device) /\ Len(u) = l - 1
      /\ \A n \in 1 .. l - 1 : u[n] = udev[n + 1]
  BY <1>1
<1>3. ASSUME NEW n \in 1 .. l - 1
      PROVE  /\ n + 1 \in 1 .. l /\ n + 1 # 1 /\ u[n] = udev[n + 1] /\ u[n] \in {"add", "remove"} \X Device
             /\ u[n][1] = "add" => u[n][2] \in alive' \ opened'
             /\ u[n][1] = "remove" => u[n][2] \in opened' \ alive'
  <2>1. n + 1 \in 1 .. l /\ n + 1 # 1 /\ u[n] = udev[n + 1]
    BY <1>1, <1>2
  <2>2. udev[n + 1] \in {"add", "remove"} \X Device
    BY <1>1, <2>1
  <2>3. /\ udev[n + 1][1] = "add" => udev[n + 1][2] \in alive \ opened
        /\ udev[n + 1][1] = "remove" => udev[n + 1][2] \in opened \ alive
        /\ udev[1][2] # udev[n + 1][2]
    BY <1>1, <2>1 DEF UdevOK
  <2> QED BY <1>1, <2>1, <2>2, <2>3
<1>4. ASSUME NEW n \in 1 .. l - 1, NEW m \in 1 .. l - 1, m # n PROVE u[m][2] # u[n][2]
  <2>1. n + 1 \in 1 .. l /\ m + 1 \in 1 .. l /\ m + 1 # n + 1 /\ u[n] = udev[n + 1] /\ u[m] = udev[m + 1]
    BY <1>3, <1>4
  <2> QED BY <2>1 DEF UdevOK
<1> HIDE DEF u
<1> QED BY <1>2, <1>3, <1>4 DEF UdevOK, u

\* What a message of udev says: a device is opened or closed.
LEMMA PollIs ==
  ASSUME BaseInv, Poll
  PROVE  /\ ready' = {d \in opened : queue[d] # <<>>} /\ ready = {} /\ ~crashed
         /\ UNCHANGED <<kernel, queue, alive, crashed, setup, app, current, keys, pressed, mouse, paired, unseen>>
         /\ UdevOK'
         /\ \/ UNCHANGED <<opened, synced, td, down>>
            \/ \E d \in alive \ opened :
                 /\ opened' = opened \union {d} /\ synced' = [synced EXCEPT ![d] = Told(FreshKernel)]
                 /\ down' = [down EXCEPT ![d] = [s \in Slot |-> None]] /\ td' = [td EXCEPT ![d] = FreshDevice]
            \/ \E d \in opened \ alive : opened' = opened \ {d} /\ UNCHANGED <<synced, td, down>>
<1>1. /\ ready' = {d \in opened : queue[d] # <<>>} /\ ready = {} /\ ~crashed
      /\ UNCHANGED <<kernel, queue, alive, crashed, setup, app, current, keys, pressed, mouse, paired, unseen>>
  BY DEF Poll, Readable, receiver
<1>2. UdevOK
  BY DEF BaseInv
<1>3. CASE udev = <<>>
  <2>1. UNCHANGED <<udev, opened, synced, td, down>>
    BY <1>3 DEF Poll
  <2>2. UdevOK'
    BY <1>1, <1>2, <2>1 DEF UdevOK
  <2> QED BY <1>1, <2>1, <2>2
<1>4. CASE udev # <<>>
  <2> DEFINE d == Head(udev)[2]
  <2>1. /\ Head(udev) \in {"add", "remove"} \X Device
        /\ Head(udev)[1] = "add" => d \in alive \ opened
        /\ Head(udev)[1] = "remove" => d \in opened \ alive
    <3>1. Len(udev) \in Nat \ {0} /\ Head(udev) = udev[1] /\ 1 \in 1 .. Len(udev) /\ udev[1] \in {"add", "remove"} \X Device
      BY <1>2, <1>4 DEF UdevOK
    <3> QED BY <1>2, <3>1 DEF UdevOK
  <2>2. udev' = Tail(udev)
    BY <1>4 DEF Poll
  <2>3. CASE Head(udev)[1] = "add"
    <3>1. d \in alive \ opened
      BY <2>1, <2>3
    <3>2. /\ opened' = opened \union {d} /\ synced' = [synced EXCEPT ![d] = Told(FreshKernel)]
          /\ down' = [down EXCEPT ![d] = [s \in Slot |-> None]] /\ td' = [td EXCEPT ![d] = FreshDevice]
      BY <1>4, <2>3, <3>1 DEF Poll
    <3>3. UdevOK'
      BY <1>1, <1>2, <1>4, <2>2, <3>2, UdevTail
    <3> QED BY <1>1, <3>1, <3>2, <3>3
  <2>4. CASE Head(udev)[1] = "remove"
    <3>1. d \in opened \ alive /\ Head(udev)[1] # "add"
      BY <2>1, <2>4
    <3>2. opened' = opened \ {d} /\ UNCHANGED <<synced, td, down>>
      BY <1>4, <3>1 DEF Poll
    <3>3. UdevOK'
      BY <1>1, <1>2, <1>4, <2>2, <3>2, UdevTail
    <3> QED BY <1>1, <3>1, <3>2, <3>3
  <2> QED BY <2>1, <2>3, <2>4
<1> QED BY <1>3, <1>4

LEMMA PollBase ==
  ASSUME BaseInv, Poll
  PROVE  BaseInv'
<1>1. /\ ready' = {d \in opened : queue[d] # <<>>}
      /\ UNCHANGED <<kernel, queue, alive, crashed, setup, app, paired>> /\ UdevOK'
  BY PollIs
<1>2. TypeInv /\ paired = TRUE /\ \A x \in Device : DeviceOK(x)
  BY DEF BaseInv
<1>3. ready' \subseteq Device /\ opened \subseteq Device /\ alive \subseteq Device
  BY <1>1, <1>2 DEF TypeInv
<1>4. CASE UNCHANGED <<opened, synced, td, down>>
  <2>1. TypeInv'
    BY <1>1, <1>2, <1>3, <1>4 DEF TypeInv
  <2>2. \A x \in Device : DeviceOK(x)'
    BY <1>1, <1>2, <1>4 DEF DeviceOK
  <2> QED BY <1>1, <1>2, <2>1, <2>2 DEF BaseInv
<1>5. ASSUME NEW d \in opened \ alive, opened' = opened \ {d}, UNCHANGED <<synced, td, down>>
      PROVE  BaseInv'
  <2>1. TypeInv'
    BY <1>1, <1>2, <1>3, <1>5 DEF TypeInv
  <2>2. \A x \in Device : DeviceOK(x)'
    BY <1>1, <1>2, <1>5 DEF DeviceOK
  <2> QED BY <1>1, <1>2, <2>1, <2>2 DEF BaseInv
<1>6. ASSUME NEW d \in alive \ opened, opened' = opened \union {d}, synced' = [synced EXCEPT ![d] = Told(FreshKernel)],
             down' = [down EXCEPT ![d] = [s \in Slot |-> None]], td' = [td EXCEPT ![d] = FreshDevice]
      PROVE  BaseInv'
  <2>1. d \in Device /\ d \in setup
    BY <1>2, <1>3 DEF TypeInv
  <2>2. /\ Told(FreshKernel) \in Views /\ FreshDevice \in Devs /\ FreshDevice.changed = {}
        /\ [s \in Slot |-> None] \in [Slot -> HeldIds]
    BY <2>1, FreshIs DEF HeldIds, Tracks, FreshDevice
  <2>3. synced \in [Device -> Views] /\ td \in [Device -> Devs] /\ down \in [Device -> [Slot -> HeldIds]]
    BY <1>2 DEF TypeInv
  <2>4. /\ synced'[d] = Told(FreshKernel) /\ td'[d] = FreshDevice /\ down'[d] = [s \in Slot |-> None]
        /\ \A x \in Device : x # d => synced'[x] = synced[x] /\ td'[x] = td[x] /\ down'[x] = down[x]
        /\ synced' \in [Device -> Views] /\ td' \in [Device -> Devs] /\ down' \in [Device -> [Slot -> HeldIds]]
    BY <1>6, <2>1, <2>2, <2>3
  <2>5. TypeInv'
    BY <1>1, <1>2, <1>3, <1>6, <2>1, <2>2, <2>4 DEF TypeInv
  <2>6. ASSUME NEW x \in Device PROVE DeviceOK(x)'
    <3>1. CASE x = d
      <4>1. kernel[d] = FreshKernel /\ queue[d] \in {<<>>, Dropped}
        BY <1>2, <1>6, <2>1 DEF DeviceOK
      <4>2. Known(d, kernel[d], queue[d], Told(FreshKernel))
        BY <2>1, <4>1, FreshIs
      <4>3. Between(d, Told(FreshKernel), FreshDevice) /\ Held(d, Told(FreshKernel)) = [s \in Slot |-> None]
        BY <2>1, FreshIs
      <4> QED BY <1>1, <1>6, <2>4, <3>1, <4>2, <4>3 DEF DeviceOK
    <3>2. CASE x # d
      BY <1>1, <1>2, <1>6, <2>4, <3>2 DEF DeviceOK
    <3> QED BY <3>1, <3>2
  <2> QED BY <1>1, <1>2, <2>5, <2>6 DEF BaseInv
<1> QED BY <1>4, <1>5, <1>6, PollIs

\* What reading a device may do
Reads(d) ==
  \E order \in Orders :
    LET r == ReadOf(d, ReportsOf(d), synced[d], td[d], order)
    IN /\ td' = [td EXCEPT ![d] = r.t]
       /\ synced' = [synced EXCEPT ![d] = r.view]
       /\ queue' = [queue EXCEPT ![d] = Tail(queue[d])]
       /\ ready' \in {ready, ready \ {d}}
       /\ Deliver(r.evs)
       /\ UNCHANGED <<kernel, alive, udev, opened, crashed>>

LEMMA ReadIs ==
  ASSUME NEW d, Read(d)
  PROVE  /\ ~crashed /\ d \in ready
         /\ \/ /\ d \notin opened /\ crashed' = TRUE
               /\ UNCHANGED <<input, opened, ready, synced, td, receiver, history>>
            \/ /\ ready' = ready \ {d}
               /\ UNCHANGED <<input, opened, synced, td, crashed, receiver, history>>
            \/ /\ d \in alive \intersect opened /\ queue[d] # <<>> /\ Reads(d)
<1>1. ~crashed /\ d \in ready
  BY DEF Read
<1>2. CASE d \notin opened
  BY <1>1, <1>2 DEF Read
<1>3. CASE d \in opened /\ (d \notin alive \/ queue[d] = <<>>)
  BY <1>1, <1>3 DEF Read
<1>4. CASE d \in opened /\ ~ (d \notin alive \/ queue[d] = <<>>)
  <2> DEFINE After1(order) ==
               LET r == ReadOf(d, ReportsOf(d), synced[d], td[d], order)
               IN /\ td' = [td EXCEPT ![d] = r.t]
                  /\ synced' = [synced EXCEPT ![d] = r.view]
                  /\ queue' = [queue EXCEPT ![d] = Tail(@)]
                  /\ ready' = IF Len(queue[d]) = 1 THEN ready \ {d} ELSE ready
                  /\ Deliver(r.evs)
                  /\ UNCHANGED <<kernel, alive, udev, opened, crashed>>
  <2>1. \E order \in Orders : After1(order)
    BY <1>4 DEF Read, ReadOf, ReportsOf
  <2>2. PICK order \in Orders : After1(order)
    BY <2>1
  <2> DEFINE r == ReadOf(d, ReportsOf(d), synced[d], td[d], order)
  <2>3. /\ td' = [td EXCEPT ![d] = r.t]
        /\ synced' = [synced EXCEPT ![d] = r.view]
        /\ queue' = [queue EXCEPT ![d] = Tail(queue[d])]
        /\ ready' \in {ready, ready \ {d}}
        /\ Deliver(r.evs)
        /\ UNCHANGED <<kernel, alive, udev, opened, crashed>>
    BY <2>2
  <2>4. Reads(d)
    BY <2>3 DEF Reads
  <2> QED BY <1>1, <1>4, <2>4
<1> QED BY <1>2, <1>3, <1>4

\* A reading leaves what is known of the device, and tells what is held.
LEMMA ReadLeaves ==
  ASSUME BaseInv, NEW d \in alive \intersect opened, queue[d] # <<>>, Reads(d)
  PROVE  /\ UNCHANGED <<kernel, alive, udev, opened, crashed, setup, app>>
         /\ queue' = [queue EXCEPT ![d] = Tail(queue[d])] /\ ready' \in {ready, ready \ {d}}
         /\ \E v \in Views, t \in Devs :
              /\ synced' = [synced EXCEPT ![d] = v] /\ td' = [td EXCEPT ![d] = t]
              /\ Known(d, kernel[d], Tail(queue[d]), v) /\ Between(d, v, t)
              /\ Delivered(d, alive \intersect opened, Held(d, v),
                           [down |-> down', paired |-> paired', current |-> current', keys |-> keys',
                            pressed |-> pressed', mouse |-> mouse', unseen |-> unseen'])
<1>1. d \in Device /\ DeviceOK(d) /\ down \in [Device -> [Slot -> HeldIds]] /\ alive \intersect opened \in SUBSET Device
  BY DEF BaseInv, TypeInv
<1>2. Known(d, kernel[d], queue[d], synced[d]) /\ Between(d, synced[d], td[d]) /\ down[d] = Held(d, synced[d])
  BY <1>1 DEF DeviceOK
<1>3. PICK order \in Orders :
        LET r == ReadOf(d, ReportsOf(d), synced[d], td[d], order)
        IN /\ td' = [td EXCEPT ![d] = r.t]
           /\ synced' = [synced EXCEPT ![d] = r.view]
           /\ queue' = [queue EXCEPT ![d] = Tail(queue[d])]
           /\ ready' \in {ready, ready \ {d}}
           /\ Deliver(r.evs)
           /\ UNCHANGED <<kernel, alive, udev, opened, crashed>>
  BY DEF Reads
<1> DEFINE r == ReadOf(d, ReportsOf(d), synced[d], td[d], order)
           h == ReceivedUpTo(r.evs)[Len(r.evs)]
           g == [down |-> down', paired |-> paired', current |-> current', keys |-> keys',
                 pressed |-> pressed', mouse |-> mouse', unseen |-> unseen']
           live == alive \intersect opened
<1>4. /\ Known(d, kernel[d], Tail(queue[d]), r.view) /\ Between(d, r.view, r.t)
      /\ Tells(d, down[d], r.evs, Held(d, r.view))
  BY <1>1, <1>2, ReadKnown
<1> DEFINE v == r.view
           t == r.t
           evs == r.evs
<1>5. /\ synced' = [synced EXCEPT ![d] = v] /\ td' = [td EXCEPT ![d] = t]
      /\ queue' = [queue EXCEPT ![d] = Tail(queue[d])] /\ ready' \in {ready, ready \ {d}}
      /\ UNCHANGED <<kernel, alive, udev, opened, crashed>> /\ Deliver(evs)
  BY <1>3
<1>6. /\ Known(d, kernel[d], Tail(queue[d]), v) /\ Between(d, v, t) /\ Tells(d, down[d], evs, Held(d, v))
      /\ h = ReceivedUpTo(evs)[Len(evs)]
  BY <1>4
<1> HIDE DEF v, t, evs, h, r
<1>7. v \in Views /\ t \in Devs
  BY <1>6 DEF Known, Between, Mid
<1> DEFINE p == Held(d, v)
<1>8. Delivered(d, live, p, h)
  <2> HIDE DEF p
  <2>1. Tells(d, down[d], evs, p)
    BY <1>6 DEF p
  <2> QED BY <1>1, <1>6, <2>1, Delivers
<1>9. /\ down' = h.down /\ (paired' = h.paired) /\ unseen' = h.unseen /\ current' = h.current
      /\ keys' = h.keys /\ pressed' = h.pressed /\ mouse' = h.mouse /\ setup' = setup /\ app' = app
  BY <1>5, <1>6 DEF Deliver
<1>10. /\ g.down = h.down /\ (g.paired = h.paired) /\ g.unseen = h.unseen /\ g.current = h.current
       /\ g.keys = h.keys /\ g.pressed = h.pressed /\ g.mouse = h.mouse
  BY <1>9
<1> HIDE DEF g, p
<1>11. Delivered(d, live, p, g)
  <2>1. ReceiverOK(h, live) => ReceiverOK(g, live)
    BY <1>10 DEF ReceiverOK, GestureOK, KeypadOK, MouseOK
  <2>2. g.paired = h.paired /\ g.down = h.down
    BY <1>10
  <2> QED BY <1>8, <2>1, <2>2 DEF Delivered
<1> QED BY <1>5, <1>6, <1>7, <1>9, <1>11 DEF g, p

LEMMA ReadBase ==
  ASSUME BaseInv, NEW d \in Device, Read(d)
  PROVE  BaseInv'
<1>1. TypeInv /\ UdevOK /\ paired = TRUE /\ \A x \in Device : DeviceOK(x)
  BY DEF BaseInv
<1>2. CASE /\ d \notin opened /\ crashed' = TRUE
           /\ UNCHANGED <<input, opened, ready, synced, td, receiver, history>>
  <2>1. UNCHANGED <<kernel, queue, alive, udev, opened, ready, synced, td, setup, app, down, paired>>
    BY <1>2 DEF input, receiver, history
  <2>2. TypeInv' /\ UdevOK' /\ paired' = TRUE
    BY <1>1, <1>2, <2>1 DEF TypeInv, UdevOK
  <2>3. \A x \in Device : DeviceOK(x)'
    BY <1>1, <2>1 DEF DeviceOK
  <2> QED BY <2>2, <2>3 DEF BaseInv
<1>3. CASE /\ ready' = ready \ {d}
           /\ UNCHANGED <<input, opened, synced, td, crashed, receiver, history>>
  <2>1. UNCHANGED <<kernel, queue, alive, udev, opened, crashed, synced, td, setup, app, down, paired>>
    BY <1>3 DEF input, receiver, history
  <2>2. TypeInv' /\ UdevOK' /\ paired' = TRUE
    BY <1>1, <1>3, <2>1 DEF TypeInv, UdevOK
  <2>3. \A x \in Device : DeviceOK(x)'
    BY <1>1, <2>1 DEF DeviceOK
  <2> QED BY <2>2, <2>3 DEF BaseInv
<1>4. CASE d \in alive \intersect opened /\ queue[d] # <<>> /\ Reads(d)
  <2>1. /\ UNCHANGED <<kernel, alive, udev, opened, crashed, setup, app>>
        /\ queue' = [queue EXCEPT ![d] = Tail(queue[d])] /\ ready' \in {ready, ready \ {d}}
    BY <1>4, ReadLeaves
  <2>2. PICK v \in Views, t \in Devs :
          /\ synced' = [synced EXCEPT ![d] = v] /\ td' = [td EXCEPT ![d] = t]
          /\ Known(d, kernel[d], Tail(queue[d]), v) /\ Between(d, v, t)
          /\ Delivered(d, alive \intersect opened, Held(d, v),
                       [down |-> down', paired |-> paired', current |-> current', keys |-> keys',
                        pressed |-> pressed', mouse |-> mouse', unseen |-> unseen'])
    BY <1>4, ReadLeaves
  <2> DEFINE q == Tail(queue[d])
             p == Held(d, v)
  <2>3. down' = [down EXCEPT ![d] = p] /\ paired' = TRUE
    BY <1>1, <2>2 DEF Delivered
  <2>4. q \in Reports /\ Len(q) <= MaxQueue /\ t.changed = {} /\ p \in [Slot -> HeldIds]
    <3>1. queue[d] \in Reports /\ Len(queue[d]) <= MaxQueue /\ MaxQueue \in Nat
      BY <1>1, TouchAssumption DEF TypeInv
    <3>2. q \in Reports /\ Len(q) = Len(queue[d]) - 1 /\ Len(queue[d]) \in Nat
      BY <1>4, <3>1 DEF Reports
    <3>3. t.changed = {} /\ p \in [Slot -> HeldIds]
      BY <2>2, HeldIs DEF Between
    <3> HIDE DEF q, p
    <3> QED BY <3>1, <3>2, <3>3
  <2>5. /\ kernel \in [Device -> Kernels] /\ queue \in [Device -> Reports] /\ synced \in [Device -> Views]
        /\ td \in [Device -> Devs] /\ down \in [Device -> [Slot -> HeldIds]]
        /\ \A x \in Device : Len(queue[x]) <= MaxQueue /\ td[x].changed = {}
    BY <1>1 DEF TypeInv
  <2>6. Known(d, kernel[d], q, v)
    BY <2>2
  <2>7. queue' = [queue EXCEPT ![d] = q]
    BY <2>1
  <2> HIDE DEF q, p
  <2>8. /\ queue'[d] = q /\ synced'[d] = v /\ td'[d] = t /\ down'[d] = p
        /\ \A x \in Device : x # d => /\ queue'[x] = queue[x] /\ synced'[x] = synced[x]
                                      /\ td'[x] = td[x] /\ down'[x] = down[x]
    BY <2>2, <2>3, <2>5, <2>7
  <2>9. /\ queue' \in [Device -> Reports] /\ synced' \in [Device -> Views]
        /\ td' \in [Device -> Devs] /\ down' \in [Device -> [Slot -> HeldIds]]
    BY <2>2, <2>3, <2>4, <2>5, <2>7
  <2>10. \A x \in Device : Len(queue'[x]) <= MaxQueue /\ td'[x].changed = {}
    BY <2>4, <2>5, <2>8
  <2>11. TypeInv'
    BY <1>1, <2>1, <2>9, <2>10 DEF TypeInv
  <2>12. UdevOK'
    BY <1>1, <2>1 DEF UdevOK
  <2>13. ASSUME NEW x \in Device PROVE DeviceOK(x)'
    <3>1. CASE x = d
      BY <1>4, <2>1, <2>2, <2>6, <2>8, <3>1 DEF DeviceOK, p
    <3>2. CASE x # d
      BY <1>1, <2>1, <2>8, <3>2 DEF DeviceOK
    <3> QED BY <3>1, <3>2
  <2> QED BY <2>3, <2>11, <2>12, <2>13 DEF BaseInv
<1> QED BY <1>2, <1>3, <1>4, ReadIs

LEMMA NextBase == BaseInv /\ [Next]_vars => BaseInv'
<1> SUFFICES ASSUME BaseInv, [Next]_vars PROVE BaseInv'
  OBVIOUS
<1>1. ASSUME NEW d \in Device, Touched(d) PROVE BaseInv'
  BY <1>1, TouchedBase
<1>2. ASSUME NEW d \in Device, Flood(d) PROVE BaseInv'
  BY <1>2, FloodBase
<1>3. ASSUME NEW d \in Device, TakeAway(d) PROVE BaseInv'
  BY <1>3, TakeAwayBase
<1>4. ASSUME NEW d \in Device, Create(d) PROVE BaseInv'
  BY <1>4, CreateBase
<1>5. ASSUME NEW d \in Device, Read(d) PROVE BaseInv'
  BY <1>5, ReadBase
<1>6. CASE Poll
  BY <1>6, PollBase
<1>7. CASE MouseMode \/ UNCHANGED vars
  <2>1. UNCHANGED <<kernel, queue, alive, udev, opened, ready, synced, td, crashed, setup, app, down, paired>>
    BY <1>7 DEF MouseMode, vars, input, reader, receiver, history
  <2>2. TypeInv' /\ UdevOK' /\ paired' = TRUE
    BY <2>1 DEF BaseInv, TypeInv, UdevOK
  <2>3. \A x \in Device : DeviceOK(x)'
    BY <2>1 DEF BaseInv, DeviceOK
  <2> QED BY <2>2, <2>3 DEF BaseInv
<1> QED BY <1>1, <1>2, <1>3, <1>4, <1>5, <1>6, <1>7 DEF Next, Touched

\* The events of a touch come as one Down and one Up, however reports are merged, lost in
\* an overflow, or sent by two viewers at once (TouchDevice::handleEvent, readEvents).
THEOREM TouchEventsPaired == Spec => []EventsPaired
<1>1. BaseInv => EventsPaired
  BY DEF BaseInv, EventsPaired
<1> QED BY <1>1, InitBase, NextBase, PTL DEF Spec

------------------------------------------------------------------------------
(* Nothing is left with a touch that is gone, when rm2fb's server takes its   *)
(* devices away only after all was read of them.                              *)

Live == alive \intersect opened

QuietInv ==
  /\ crashed = FALSE /\ ready \subseteq opened
  /\ \A d \in opened \ alive : queue[d] = <<>>
  /\ ReceiverOK(Received, Live)

LEMMA ReceivedIs ==
  /\ Received.down = down /\ Received.current = current /\ Received.keys = keys
  /\ Received.pressed = pressed /\ Received.mouse = mouse /\ Received.unseen = unseen
BY DEF Received

LEMMA ReceiverCarries ==
  ASSUME NEW live, NEW live2, NEW h, NEW g, ReceiverOK(h, live),
         g.current = h.current, g.keys = h.keys, g.pressed = h.pressed, h.unseen \subseteq g.unseen,
         g.mouse \in [slot : Slot \union {None, PenSlot}, on : BOOLEAN], g.mouse.slot = h.mouse.slot,
         app # "mouse" => \A i : HoldsId(h.down, live, i) => HoldsId(g.down, live2, i) \/ i \in g.unseen,
         app = "mouse" => \A z : HoldsSlot(h.down, live, z) => HoldsSlot(g.down, live2, z) \/ z \in g.unseen
  PROVE  ReceiverOK(g, live2)
<1>1. GestureOK(g, live2)
  BY DEF ReceiverOK, GestureOK
<1>2. KeypadOK(g, live2)
  <2>1. g.unseen = {} => h.unseen = {}
    OBVIOUS
  <2>2. app = "keypad" /\ g.unseen = {} => \A i : HoldsId(h.down, live, i) => HoldsId(g.down, live2, i)
    OBVIOUS
  <2>3. /\ h.pressed \subseteq Area /\ DOMAIN h.keys \subseteq ReceivedIds
        /\ app # "keypad" => h.pressed = {} /\ DOMAIN h.keys = {}
        /\ PointersApart /\ h.unseen = {} =>
             /\ \A i \in DOMAIN h.keys : HoldsId(h.down, live, i)
             /\ \A a \in h.pressed : \E i \in DOMAIN h.keys : h.keys[i] = a
    BY DEF ReceiverOK, KeypadOK
  <2>4. ASSUME PointersApart, g.unseen = {} PROVE \A i \in DOMAIN g.keys : HoldsId(g.down, live2, i)
    <3>1. CASE app = "keypad"
      BY <2>1, <2>2, <2>3, <2>4, <3>1
    <3>2. CASE app # "keypad"
      BY <2>3, <3>2
    <3> QED BY <3>1, <3>2
  <2>5. ASSUME PointersApart, g.unseen = {} PROVE \A a \in g.pressed : \E i \in DOMAIN g.keys : g.keys[i] = a
    BY <2>1, <2>3, <2>5
  <2> QED BY <2>3, <2>4, <2>5 DEF KeypadOK
<1>3. MouseOK(g, live2)
  <2>1. /\ h.mouse.slot # None => app = "mouse" /\ (HoldsSlot(h.down, live, h.mouse.slot) \/ h.mouse.slot \in h.unseen)
    BY DEF ReceiverOK, MouseOK
  <2> QED BY <2>1 DEF MouseOK
<1> QED BY <1>1, <1>2, <1>3 DEF ReceiverOK

\* The receiver is not told anything, and touches on open devices stay.
LEMMA ReceiverStays ==
  ASSUME ReceiverOK(Received, Live),
         UNCHANGED <<app, current, keys, pressed, mouse>>, unseen \subseteq unseen',
         app # "mouse" => \A i : HoldsId(down, Live, i) => HoldsId(down', Live', i) \/ i \in unseen',
         app = "mouse" => \A z : HoldsSlot(down, Live, z) => HoldsSlot(down', Live', z) \/ z \in unseen'
  PROVE  ReceiverOK(Received, Live)'
<1> DEFINE h == Received
           g == [down |-> down', paired |-> paired', current |-> current', keys |-> keys',
                 pressed |-> pressed', mouse |-> mouse', unseen |-> unseen']
           l2 == Live'
<1>1. /\ g.current = h.current /\ g.keys = h.keys /\ g.pressed = h.pressed /\ h.unseen \subseteq g.unseen
      /\ g.mouse = h.mouse /\ h.down = down /\ g.down = down' /\ g.unseen = unseen'
  BY ReceivedIs
<1>2. h.mouse \in [slot : Slot \union {None, PenSlot}, on : BOOLEAN]
  BY DEF ReceiverOK, MouseOK
<1>3. g.down = down' /\ g.current = current' /\ g.keys = keys' /\ g.pressed = pressed' /\ g.mouse = mouse' /\ g.unseen = unseen'
  OBVIOUS
<1>5. /\ app # "mouse" => \A i : HoldsId(h.down, Live, i) => HoldsId(g.down, l2, i) \/ i \in g.unseen
      /\ app = "mouse" => \A z : HoldsSlot(h.down, Live, z) => HoldsSlot(g.down, l2, z) \/ z \in g.unseen
  BY <1>1
<1> HIDE DEF g, h, l2
<1>4. ReceiverOK(g, l2)
  BY <1>1, <1>2, <1>5, ReceiverCarries DEF h
<1> QED BY <1>3, <1>4 DEF ReceiverOK, GestureOK, KeypadOK, MouseOK, Received, g, l2

LEMMA ApartIs ==
  ASSUME BaseInv
  PROVE  Apart(down, Live)
<1> SUFFICES ASSUME PointersApart, app = "keypad", NEW x \in Live \ KeyDevices
             PROVE  /\ \A s \in Slot : down[x][s] \in IdsOf(x) \union {None}
                    /\ \A y \in Live \ KeyDevices : x # y => IdsOf(x) \cap IdsOf(y) = {}
  BY DEF Apart
<1>1. /\ <<setup, app>> \in Setups /\ Live \subseteq setup /\ Live \subseteq Device /\ x \in Device
      /\ DeviceOK(x)
  BY DEF BaseInv, TypeInv, Live
<1>2. \A y \in Live \ KeyDevices : x # y => IdsOf(x) \cap IdsOf(y) = {}
  <2> DEFINE S == <<setup, app>>
  <2>1. S \in Setups /\ S[1] = setup /\ S[2] = "keypad"
    BY <1>1
  <2> QED BY <1>1, <2>1 DEF PointersApart
<1>3. down[x] = Held(x, synced[x]) /\ Fits(x, synced[x])
  BY <1>1 DEF DeviceOK, Live, Known
<1>4. ASSUME NEW s \in Slot PROVE down[x][s] \in IdsOf(x) \union {None}
  <2>1. down[x][s] = IF synced[x].track[s] = None THEN None
                     ELSE IF x \in PenDevices THEN PenId ELSE synced[x].track[s]
    BY <1>3 DEF Held
  <2>2. CASE x \in PenDevices
    BY <2>1, <2>2 DEF IdsOf
  <2>3. CASE x \in TouchDevices \cap Remote
    BY <1>3, <2>1, <2>3, Numbers, TouchAssumption DEF Fits, IdsOf
  <2>4. CASE x \in TouchDevices \ Remote
    BY <1>3, <2>1, <2>4, TouchAssumption DEF Fits, IdsOf
  <2> QED BY <1>1, <2>2, <2>3, <2>4 DEF Device
<1> QED BY <1>2, <1>4

\* Queues change of devices that are there, and nothing else.
LEMMA QuietNews ==
  ASSUME BaseInv, QuietInv, NEW d \in alive, NEW q, queue' = [queue EXCEPT ![d] = q],
         UNCHANGED <<alive, opened, ready, crashed, setup, app, current, keys, pressed, mouse, down, unseen>>
  PROVE  QuietInv'
<1>1. crashed' = FALSE /\ ready' \subseteq opened'
  BY DEF QuietInv
<1>2. \A x \in opened' \ alive' : queue'[x] = <<>>
  BY DEF QuietInv, BaseInv, TypeInv
<1>3. Live' = Live
  BY DEF Live
<1>4. ReceiverOK(Received, Live)'
  BY <1>3, ReceiverStays DEF QuietInv
<1> QED BY <1>1, <1>2, <1>4 DEF QuietInv

LEMMA TouchedQuiet ==
  ASSUME BaseInv, QuietInv, NEW d \in Device, Touched(d)
  PROVE  QuietInv'
<1>1. PICK writes : Report(d, writes)
  BY TouchedReports
<1> DEFINE q == QueueAfter(queue[d], WrittenUpTo(d, writes)[Len(writes)].out)
<1>2. /\ d \in alive /\ queue' = [queue EXCEPT ![d] = q]
      /\ UNCHANGED <<alive, opened, ready, crashed, setup, app, current, keys, pressed, mouse, down, unseen>>
  BY <1>1 DEF Report, QueueAfter, reader, receiver, history
<1> HIDE DEF q
<1> QED BY <1>2, QuietNews

LEMMA FloodQuiet ==
  ASSUME BaseInv, QuietInv, NEW d \in Device, Flood(d)
  PROVE  QuietInv'
<1>1. /\ d \in alive /\ queue' = [queue EXCEPT ![d] = Dropped]
      /\ UNCHANGED <<alive, opened, ready, crashed, setup, app, current, keys, pressed, mouse, down, unseen>>
  BY DEF Flood, reader, receiver, history
<1> QED BY <1>1, QuietNews

\* When all was read the app knows what the kernel has.
LEMMA AllTold ==
  ASSUME NEW d, NEW k, NEW v, Known(d, k, <<>>, v)
  PROVE  v = Told(k) /\ k \in Kernels
<1> DEFINE w == Told(k)
<1>1. Chain(d, <<>>, v, w)
  <2>1. <<>> # Dropped
    BY DroppedIs
  <2> QED BY <2>1 DEF Known
<1> HIDE DEF w
<1>2. v = w
  BY <1>1 DEF Chain
<1> QED BY <1>2 DEF w, Known

\* Of a device that goes away all was read: what it held is what the kernel has.
LEMMA TakeAwayQuiet ==
  ASSUME BaseInv, QuietInv, QuietUnplug = TRUE, NEW d \in Device, TakeAway(d)
  PROVE  QuietInv'
<1>1. /\ d \in alive \intersect opened /\ queue[d] = <<>> /\ alive' = alive \ {d}
      /\ UNCHANGED <<queue, opened, ready, crashed, setup, app, current, keys, pressed, mouse, down>>
      /\ unseen' = unseen \union {IF app = "mouse" THEN SlotOf(d, s) ELSE IdOf(d, s) :
                                   s \in {t \in Slot : kernel[d].track[t] # None}}
  BY DEF TakeAway, reader, receiver
<1>2. Known(d, kernel[d], queue[d], synced[d]) /\ down[d] = Held(d, synced[d])
  BY <1>1 DEF BaseInv, DeviceOK
<1>3. synced[d] = Told(kernel[d]) /\ kernel[d] \in Kernels
  BY <1>1, <1>2, AllTold
<1>4. \A s \in Slot : synced[d].track[s] = kernel[d].track[s]
  BY <1>3, ToldIs
<1>5. Live' = Live \ {d}
  BY <1>1 DEF Live
<1>6. ASSUME NEW s \in Slot, d \notin KeyDevices, down[d][s] # None
      PROVE  /\ down[d][s] = IdOf(d, s)
             /\ (IF app = "mouse" THEN SlotOf(d, s) ELSE IdOf(d, s)) \in unseen'
  <2>1. down[d][s] = IF kernel[d].track[s] = None THEN None
                     ELSE IF d \in PenDevices THEN PenId ELSE kernel[d].track[s]
    BY <1>2, <1>4, <1>6 DEF Held
  <2>2. kernel[d].track[s] # None
    BY <1>6, <2>1
  <2> QED BY <1>1, <2>1, <2>2 DEF IdOf
<1>7. ASSUME app # "mouse", NEW i, HoldsId(down, Live, i)
      PROVE  HoldsId(down', Live', i) \/ i \in unseen'
  <2>1. PICK x \in Live \ KeyDevices : \E s \in Slot : down[x][s] = i
    BY <1>7 DEF HoldsId
  <2>2. PICK s \in Slot : down[x][s] = i
    BY <2>1
  <2>3. i # None
    BY <1>7 DEF HoldsId
  <2>4. CASE x = d
    BY <1>6, <1>7, <2>2, <2>3, <2>4
  <2>5. CASE x # d
    <3>1. x \in Live' \ KeyDevices /\ down'[x][s] = i
      BY <1>1, <1>5, <2>2, <2>5
    <3> QED BY <2>3, <3>1 DEF HoldsId
  <2> QED BY <2>4, <2>5
<1>8. ASSUME app = "mouse", NEW z, HoldsSlot(down, Live, z)
      PROVE  HoldsSlot(down', Live', z) \/ z \in unseen'
  <2>1. PICK x \in Live \ KeyDevices : \E s \in Slot : down[x][s] # None /\ z = IF x \in PenDevices THEN PenSlot ELSE s
    BY <1>8 DEF HoldsSlot
  <2>2. PICK s \in Slot : down[x][s] # None /\ z = IF x \in PenDevices THEN PenSlot ELSE s
    BY <2>1
  <2>4. CASE x = d
    <3>1. SlotOf(d, s) \in unseen'
      BY <1>6, <1>8, <2>2, <2>4
    <3> QED BY <2>2, <2>4, <3>1 DEF SlotOf
  <2>5. CASE x # d
    <3>1. x \in Live' \ KeyDevices /\ down'[x][s] # None
      BY <1>1, <1>5, <2>2, <2>5
    <3> QED BY <2>2, <3>1 DEF HoldsSlot
  <2> QED BY <2>4, <2>5
<1>9. ReceiverOK(Received, Live)'
  <2>1. unseen \subseteq unseen'
    BY <1>1
  <2> QED BY <1>1, <1>7, <1>8, <2>1, ReceiverStays DEF QuietInv
<1>10. crashed' = FALSE /\ ready' \subseteq opened' /\ \A x \in opened' \ alive' : queue'[x] = <<>>
  BY <1>1 DEF QuietInv
<1> QED BY <1>9, <1>10 DEF QuietInv

LEMMA CreateQuiet ==
  ASSUME BaseInv, QuietInv, NEW d \in Device, Create(d)
  PROVE  QuietInv'
<1>1. /\ d \notin alive \union opened /\ alive' = alive \union {d} /\ queue' = [queue EXCEPT ![d] = <<>>]
      /\ UNCHANGED <<opened, ready, crashed, setup, app, current, keys, pressed, mouse, down, unseen>>
  BY DEF Create, reader, receiver, history
<1>2. crashed' = FALSE /\ ready' \subseteq opened'
  BY <1>1 DEF QuietInv
<1>3. \A x \in opened' \ alive' : queue'[x] = <<>>
  <2>1. \A x \in opened \ alive : queue[x] = <<>>
    BY DEF QuietInv
  <2>2. opened \subseteq Device /\ queue \in [Device -> Reports]
    BY DEF BaseInv, TypeInv
  <2> QED BY <1>1, <2>1, <2>2
<1>4. Live' = Live
  BY <1>1 DEF Live
<1>5. ReceiverOK(Received, Live)'
  BY <1>1, <1>4, ReceiverStays DEF QuietInv
<1> QED BY <1>2, <1>3, <1>5 DEF QuietInv

LEMMA PollQuiet ==
  ASSUME BaseInv, QuietInv, Poll
  PROVE  QuietInv'
<1>1. /\ ready' = {d \in opened : queue[d] # <<>>}
      /\ UNCHANGED <<queue, alive, crashed, setup, app, current, keys, pressed, mouse, unseen>>
  BY PollIs
<1>2. /\ crashed = FALSE /\ (\A d \in opened \ alive : queue[d] = <<>>) /\ ReceiverOK(Received, Live)
  BY DEF QuietInv
<1>3. CASE UNCHANGED <<opened, synced, td, down>>
  <2>1. Live' = Live
    BY <1>1, <1>3 DEF Live
  <2>2. ReceiverOK(Received, Live)'
    BY <1>1, <1>2, <1>3, <2>1, ReceiverStays
  <2> QED BY <1>1, <1>2, <1>3, <2>2 DEF QuietInv
<1>4. ASSUME NEW d \in opened \ alive, opened' = opened \ {d}, UNCHANGED <<synced, td, down>>
      PROVE  QuietInv'
  <2>1. Live' = Live
    BY <1>1, <1>4 DEF Live
  <2>2. ReceiverOK(Received, Live)'
    BY <1>1, <1>2, <1>4, <2>1, ReceiverStays
  <2>3. ready' \subseteq opened' /\ \A x \in opened' \ alive' : queue'[x] = <<>>
    BY <1>1, <1>2, <1>4
  <2> QED BY <1>1, <1>2, <2>2, <2>3 DEF QuietInv
<1>5. ASSUME NEW d \in alive \ opened, opened' = opened \union {d}, down' = [down EXCEPT ![d] = [s \in Slot |-> None]]
      PROVE  QuietInv'
  <2>1. Live' = Live \union {d} /\ d \notin Live
    BY <1>1, <1>5 DEF Live
  <2>2. \A x \in Live : down'[x] = down[x]
    <3>1. down \in [Device -> [Slot -> HeldIds]] /\ Live \subseteq Device
      BY DEF BaseInv, TypeInv, Live
    <3> QED BY <1>5, <2>1, <3>1
  <2>3. \A i : HoldsId(down, Live, i) => HoldsId(down', Live', i)
    BY <2>1, <2>2 DEF HoldsId
  <2>4. \A z : HoldsSlot(down, Live, z) => HoldsSlot(down', Live', z)
    <3> SUFFICES ASSUME NEW z, HoldsSlot(down, Live, z) PROVE HoldsSlot(down', Live', z)
      OBVIOUS
    <3>1. PICK x \in Live \ KeyDevices : \E s \in Slot : down[x][s] # None /\ z = IF x \in PenDevices THEN PenSlot ELSE s
      BY DEF HoldsSlot
    <3>2. x \in Live' \ KeyDevices /\ down'[x] = down[x]
      BY <2>1, <2>2
    <3>3. \E s \in Slot : down'[x][s] # None /\ z = IF x \in PenDevices THEN PenSlot ELSE s
      BY <3>1, <3>2
    <3> QED BY <3>2, <3>3 DEF HoldsSlot
  <2>5. ReceiverOK(Received, Live)'
    BY <1>1, <1>2, <2>3, <2>4, ReceiverStays
  <2>6. ready' \subseteq opened' /\ \A x \in opened' \ alive' : queue'[x] = <<>>
    BY <1>1, <1>2, <1>5
  <2> QED BY <1>1, <1>2, <2>5, <2>6 DEF QuietInv
<1> QED BY <1>3, <1>4, <1>5, PollIs

LEMMA ReadQuiet ==
  ASSUME BaseInv, QuietInv, NEW d \in Device, Read(d)
  PROVE  QuietInv'
<1>1. crashed = FALSE /\ ready \subseteq opened /\ (\A x \in opened \ alive : queue[x] = <<>>) /\ ReceiverOK(Received, Live)
  BY DEF QuietInv
<1>2. CASE d \notin opened
  BY <1>1, <1>2, ReadIs
<1>3. CASE /\ ready' = ready \ {d}
           /\ UNCHANGED <<input, opened, synced, td, crashed, receiver, history>>
  <2>1. UNCHANGED <<queue, alive, opened, crashed, app, current, keys, pressed, mouse, down, unseen>>
    BY <1>3 DEF input, receiver, history
  <2>2. Live' = Live
    BY <2>1 DEF Live
  <2>3. ReceiverOK(Received, Live)'
    BY <1>1, <2>1, <2>2, ReceiverStays
  <2> QED BY <1>1, <1>3, <2>1, <2>3 DEF QuietInv
<1>4. CASE d \in alive \intersect opened /\ queue[d] # <<>> /\ Reads(d)
  <2> DEFINE g == [down |-> down', paired |-> paired', current |-> current', keys |-> keys',
                   pressed |-> pressed', mouse |-> mouse', unseen |-> unseen']
  <2>1. /\ UNCHANGED <<kernel, alive, udev, opened, crashed, setup, app>>
        /\ queue' = [queue EXCEPT ![d] = Tail(queue[d])] /\ ready' \in {ready, ready \ {d}}
        /\ \E v \in Views : Delivered(d, Live, Held(d, v), g)
    BY <1>4, ReadLeaves DEF Live
  <2>2. PICK v \in Views : Delivered(d, Live, Held(d, v), g)
    BY <2>1
  <2>3. ReceiverOK(g, Live)
    BY <1>1, <2>2, ApartIs DEF Delivered
  <2>4. Live' = Live
    BY <2>1 DEF Live
  <2>5. ReceiverOK(Received, Live)'
    BY <2>1, <2>3, <2>4 DEF ReceiverOK, GestureOK, KeypadOK, MouseOK, Received
  <2>6. \A x \in opened' \ alive' : queue'[x] = <<>>
    BY <1>1, <1>4, <2>1 DEF BaseInv, TypeInv
  <2> QED BY <1>1, <2>1, <2>5, <2>6 DEF QuietInv
<1> QED BY <1>1, <1>2, <1>3, <1>4, ReadIs

LEMMA MouseModeQuiet ==
  ASSUME QuietInv, MouseMode
  PROVE  QuietInv'
<1>1. /\ mouse' = [mouse EXCEPT !.on = ~ mouse.on]
      /\ UNCHANGED <<queue, alive, opened, ready, crashed, app, current, keys, pressed, down, unseen>>
  BY DEF MouseMode, input, reader, history
<1>2. ReceiverOK(Received, Live) /\ mouse \in [slot : Slot \union {None, PenSlot}, on : BOOLEAN]
  BY ReceivedIs DEF QuietInv, ReceiverOK, MouseOK
<1>3. mouse' \in [slot : Slot \union {None, PenSlot}, on : BOOLEAN] /\ mouse'.slot = mouse.slot /\ Live' = Live
  BY <1>1, <1>2 DEF Live
<1>4. GestureOK(Received, Live)' /\ KeypadOK(Received, Live)'
  BY <1>1, <1>2, <1>3 DEF ReceiverOK, GestureOK, KeypadOK, Received
<1>5. MouseOK(Received, Live)'
  <2>1. mouse.slot # None => app = "mouse" /\ (HoldsSlot(down, Live, mouse.slot) \/ mouse.slot \in unseen)
    BY <1>2, ReceivedIs DEF ReceiverOK, MouseOK
  <2>2. mouse'.slot # None => app' = "mouse" /\ (HoldsSlot(down', Live', mouse'.slot) \/ mouse'.slot \in unseen')
    BY <1>1, <1>3, <2>1
  <2> QED BY <1>3, <2>2 DEF MouseOK, Received
<1> QED BY <1>1, <1>4, <1>5 DEF QuietInv, ReceiverOK

LEMMA InitQuiet == Init => QuietInv
<1> SUFFICES ASSUME Init PROVE QuietInv
  OBVIOUS
<1>1. /\ crashed = FALSE /\ ready = {} /\ opened = alive /\ current = [a \in Area |-> None]
      /\ keys = <<>> /\ pressed = {} /\ mouse = [slot |-> None, on |-> TRUE]
  BY DEF Init
<1>2. GestureOK(Received, Live)
  BY <1>1, ReceivedIs DEF GestureOK
<1>3. KeypadOK(Received, Live)
  <2>1. DOMAIN keys = {}
    BY <1>1
  <2> QED BY <1>1, <2>1, ReceivedIs DEF KeypadOK
<1>4. MouseOK(Received, Live)
  <2>1. mouse \in [slot : Slot \union {None, PenSlot}, on : BOOLEAN] /\ mouse.slot = None
    BY <1>1
  <2> QED BY <2>1, ReceivedIs DEF MouseOK
<1> QED BY <1>1, <1>2, <1>3, <1>4 DEF QuietInv, ReceiverOK

LEMMA NextQuiet == QuietUnplug = TRUE /\ BaseInv /\ QuietInv /\ [Next]_vars => QuietInv'
<1> SUFFICES ASSUME QuietUnplug = TRUE, BaseInv, QuietInv, [Next]_vars PROVE QuietInv'
  OBVIOUS
<1>1. ASSUME NEW d \in Device, Touched(d) PROVE QuietInv'
  BY <1>1, TouchedQuiet
<1>2. ASSUME NEW d \in Device, Flood(d) PROVE QuietInv'
  BY <1>2, FloodQuiet
<1>3. ASSUME NEW d \in Device, TakeAway(d) PROVE QuietInv'
  BY <1>3, TakeAwayQuiet
<1>4. ASSUME NEW d \in Device, Create(d) PROVE QuietInv'
  BY <1>4, CreateQuiet
<1>5. ASSUME NEW d \in Device, Read(d) PROVE QuietInv'
  BY <1>5, ReadQuiet
<1>6. CASE Poll
  BY <1>6, PollQuiet
<1>7. CASE MouseMode
  BY <1>7, MouseModeQuiet
<1>8. CASE UNCHANGED vars
  <2>1. /\ UNCHANGED <<queue, alive, opened, ready, crashed, app, current, keys, pressed, mouse, down, unseen>>
    BY <1>8 DEF vars, input, reader, receiver, history
  <2>2. Live' = Live
    BY <2>1 DEF Live
  <2>3. ReceiverOK(Received, Live)'
    BY <2>1, <2>2, ReceiverStays DEF QuietInv
  <2> QED BY <2>1, <2>3 DEF QuietInv
<1> QED BY <1>1, <1>2, <1>3, <1>4, <1>5, <1>6, <1>7, <1>8 DEF Next, Touched

\* A device of which all was read holds the touches the kernel has.
LEMMA ReadOut ==
  ASSUME BaseInv, NEW d \in Live, queue[d] = <<>>
  PROVE  /\ d \in Device /\ kernel[d] \in Kernels
         /\ \A s \in Slot : down[d][s] = HeldIn(d, s) /\ td[d].pos[s] = kernel[d].pos[s]
<1>1. /\ d \in Device /\ Known(d, kernel[d], queue[d], synced[d]) /\ Between(d, synced[d], td[d])
      /\ down[d] = Held(d, synced[d])
  BY DEF BaseInv, TypeInv, DeviceOK, Live
<1>2. synced[d] = Told(kernel[d]) /\ kernel[d] \in Kernels
  BY <1>1, AllTold
<1>3. /\ synced[d].tool = kernel[d].tool /\ synced[d].track = kernel[d].track
      /\ synced[d].pos = kernel[d].pos /\ td[d].pos = synced[d].pos
  BY <1>1, <1>2, ToldIs DEF Between, Mid
<1>4. ASSUME NEW s \in Slot PROVE down[d][s] = HeldIn(d, s)
  <2>1. down[d][s] = IF d \in KeyDevices THEN IF s = 0 /\ kernel[d].tool = 1 THEN 1 ELSE None
                     ELSE IF kernel[d].track[s] = None THEN None
                     ELSE IF d \in PenDevices THEN PenId ELSE kernel[d].track[s]
    BY <1>1, <1>3 DEF Held
  <2> QED BY <2>1 DEF HeldIn, IdOf
<1> QED BY <1>1, <1>2, <1>3, <1>4

LEMMA HeldIsTouching ==
  ASSUME BaseInv, Quiet
  PROVE  /\ \A i : HoldsId(down, Live, i) => i \in TouchingIds
         /\ \A z : HoldsSlot(down, Live, z) => z \in TouchingSlots
<1>1. ASSUME NEW x \in Live \ KeyDevices, NEW s \in Slot, down[x][s] # None
      PROVE  <<x, s>> \in Touching /\ down[x][s] = IdOf(x, s)
  <2>1. x \in Device /\ x \in alive
    BY DEF BaseInv, TypeInv, Live
  <2>2. down[x][s] = HeldIn(x, s)
    BY <2>1, ReadOut DEF Quiet
  <2> QED BY <1>1, <2>1, <2>2 DEF HeldIn, Touching
<1>2. ASSUME NEW i, HoldsId(down, Live, i) PROVE i \in TouchingIds
  <2>1. i # None /\ \E x \in Live \ KeyDevices : \E s \in Slot : down[x][s] = i
    BY <1>2 DEF HoldsId
  <2>2. PICK x \in Live \ KeyDevices : \E s \in Slot : down[x][s] = i
    BY <2>1
  <2>3. PICK s \in Slot : down[x][s] = i
    BY <2>2
  <2>4. <<x, s>> \in Touching /\ i = IdOf(x, s)
    BY <1>1, <2>1, <2>3
  <2> DEFINE t == <<x, s>>
  <2>5. t \in Touching /\ t[1] = x /\ t[2] = s
    BY <2>4
  <2> HIDE DEF t
  <2> QED BY <2>4, <2>5 DEF TouchingIds
<1>3. ASSUME NEW z, HoldsSlot(down, Live, z) PROVE z \in TouchingSlots
  <2>1. PICK x \in Live \ KeyDevices : \E s \in Slot : down[x][s] # None /\ z = IF x \in PenDevices THEN PenSlot ELSE s
    BY <1>3 DEF HoldsSlot
  <2>2. PICK s \in Slot : down[x][s] # None /\ z = IF x \in PenDevices THEN PenSlot ELSE s
    BY <2>1
  <2>3. <<x, s>> \in Touching /\ z = SlotOf(x, s)
    BY <1>1, <2>2 DEF SlotOf
  <2> DEFINE t == <<x, s>>
  <2>4. t \in Touching /\ t[1] = x /\ t[2] = s
    BY <2>3
  <2> HIDE DEF t
  <2> QED BY <2>3, <2>4 DEF TouchingSlots
<1> QED BY <1>2, <1>3

LEMMA BaseCaughtUp == BaseInv => CaughtUp
BY ReadOut DEF CaughtUp, Live

LEMMA QuietTypes == BaseInv /\ QuietInv => TypeOK
<1> SUFFICES ASSUME BaseInv, QuietInv PROVE TypeOK
  OBVIOUS
<1>1. TypeInv /\ paired = TRUE
  BY DEF BaseInv
<1>2. GestureOK(Received, Live) /\ KeypadOK(Received, Live) /\ MouseOK(Received, Live)
  BY DEF QuietInv, ReceiverOK
<1>3. app \in Receiver
  <2> DEFINE S == <<setup, app>>
  <2>1. S \in (SUBSET Device) \X Receiver /\ S[2] = app
    BY <1>1, TouchAssumption DEF TypeInv
  <2> QED BY <2>1
<1>4. /\ \A a \in Area : current[a] \in Ids \union {None, FakeId, PenId}
      /\ pressed \subseteq Area /\ DOMAIN keys \subseteq Ids \union {FakeId, PenId}
      /\ mouse \in [slot : Slot \union {None, PenSlot}, on : BOOLEAN]
  BY <1>2, ReceivedIs DEF GestureOK, KeypadOK, MouseOK, ReceivedIds
<1>5. \A d \in Device : td[d].slot \in Slot
  BY <1>1 DEF TypeInv, Devs
<1>6. ASSUME NEW d \in Device, NEW s \in Slot
      PROVE  kernel[d].track[s] \in Ids \union {None, FakeId, 1} /\ kernel[d].pos[s] \in Pos
  <2>1. kernel[d] \in Kernels
    BY <1>1 DEF TypeInv
  <2> QED BY <2>1 DEF Kernels, Tracks
<1>7. /\ alive \subseteq Device /\ opened \subseteq Device /\ ready \subseteq Device
      /\ \A d \in Device : Len(queue[d]) <= MaxQueue /\ td[d].changed = {}
      /\ crashed \in BOOLEAN /\ paired \in BOOLEAN
  BY <1>1 DEF TypeInv
<1> QED BY <1>3, <1>4, <1>5, <1>6, <1>7 DEF TypeOK

LEMMA QuietLeaves == PointersApart /\ BaseInv /\ QuietInv => TouchesLeave
<1> SUFFICES ASSUME PointersApart, BaseInv, QuietInv PROVE TouchesLeave
  OBVIOUS
<1>1. GestureOK(Received, Live) /\ KeypadOK(Received, Live) /\ MouseOK(Received, Live)
  BY DEF QuietInv, ReceiverOK
<1>2. DetectorsFree
  BY <1>1, ReceivedIs, HeldIsTouching DEF DetectorsFree, GestureOK
<1>3. KeysReleased
  <2> SUFFICES ASSUME Quiet, unseen = {}
               PROVE  /\ DOMAIN keys \subseteq TouchingIds
                      /\ \A a \in pressed : \E i \in DOMAIN keys : keys[i] = a
    BY DEF KeysReleased
  <2>1. \A i \in DOMAIN keys : HoldsId(down, Live, i)
    BY <1>1, ReceivedIs DEF KeypadOK
  <2>2. \A a \in pressed : \E i \in DOMAIN keys : keys[i] = a
    BY <1>1, ReceivedIs DEF KeypadOK
  <2> QED BY <2>1, <2>2, HeldIsTouching
<1>4. MouseReleased
  BY <1>1, ReceivedIs, HeldIsTouching DEF MouseReleased, MouseOK
<1> QED BY <1>2, <1>3, <1>4 DEF TouchesLeave

\* When all is read, every device knows the touches and places the kernel has, also after
\* SYN_DROPPED and rocket's flood, and no device is read that was removed (readEvents,
\* waitForInput).
THEOREM TouchViewComplete ==
  ASSUME QuietUnplug = TRUE
  PROVE  Spec => []ViewComplete
<1>1. Init => BaseInv /\ QuietInv
  BY InitBase, InitQuiet
<1>2. BaseInv /\ QuietInv /\ [Next]_vars => (BaseInv /\ QuietInv)'
  BY NextBase, NextQuiet
<1>3. BaseInv /\ QuietInv => ViewComplete
  <2>1. QuietInv => NoFreedRead
    BY DEF QuietInv, NoFreedRead
  <2> QED BY <2>1, BaseCaughtUp, QuietTypes DEF ViewComplete
<1> QED BY <1>1, <1>2, <1>3, PTL DEF Spec

\* No detector, no key of the calculator and no mouse button of the terminal is left with a
\* touch that is gone when all was read, whatever devices come and go in between
\* (GestureRenderObject::handlePointerEv, KeypadRenderObject and ScreenRenderObject::handleInput).
THEOREM NoTouchLeft ==
  ASSUME QuietUnplug = TRUE, PointersApart
  PROVE  Spec => []TouchesLeave
<1>1. Init => BaseInv /\ QuietInv
  BY InitBase, InitQuiet
<1>2. BaseInv /\ QuietInv /\ [Next]_vars => (BaseInv /\ QuietInv)'
  BY NextBase, NextQuiet
<1>3. BaseInv /\ QuietInv => TouchesLeave
  BY QuietLeaves
<1> QED BY <1>1, <1>2, <1>3, PTL DEF Spec

==============================================================================
