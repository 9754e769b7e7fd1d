------------------------------ MODULE UILayout ------------------------------
(***************************************************************************)
(* The arithmetic of rMlib's user interface: rectangles (MathUtil.h),      *)
(* constraints and update regions (Util.h), and what each widget makes of  *)
(* the constraints it is given and the rectangle it is drawn in (Layout.h, *)
(* Flex.h, Wrap.h, Stack.h, Text.h, Image.h, Blank.h).                     *)
(*                                                                         *)
(* Points and sizes are functions of the axis, so that what the code says  *)
(* once for width and once for height is said once.  Rectangles include    *)
(* both corners.                                                           *)
(***************************************************************************)
EXTENDS Integers, Sequences

Axes == {"x", "y"}
Cross(axis) == IF axis = "x" THEN "y" ELSE "x"
Dim(x, y) == [x |-> x, y |-> y]
Both(F(_)) == Dim(F("x"), F("y"))

\* numeric_limits<int>::max(), as far as these sizes are concerned.
Unbound == 1000

Larger(a, b) == IF a >= b THEN a ELSE b
Smaller(a, b) == IF a <= b THEN a ELSE b
Clamped(n, low, high) == IF n < low THEN low ELSE IF high < n THEN high ELSE n

\* Division of C++, which rounds towards zero.
Half(n) == IF n >= 0 THEN n \div 2 ELSE -((-n) \div 2)

\* The sum and the largest of the first numbers of a sequence, and of all.
SumUpTo(seq) ==
  LET sum[n \in 0 .. Len(seq)] == IF n = 0 THEN 0 ELSE sum[n - 1] + seq[n] IN sum
LargestUpTo(seq) ==
  LET most[n \in 0 .. Len(seq)] == IF n = 0 THEN 0 ELSE Larger(most[n - 1], seq[n]) IN most
Total(seq) == SumUpTo(seq)[Len(seq)]
Largest(seq) == LargestUpTo(seq)[Len(seq)]

\* The sizes along an axis.
Along(sizes, a) == [n \in DOMAIN sizes |-> sizes[n][a]]

----------------------------------------------------------------------------
(* Rectangles and update regions                                            *)

Rect(topLeft, size) == [tl |-> topLeft, br |-> Both(LAMBDA a : topLeft[a] + size[a] - 1)]
NoRect == Rect(Dim(0, 0), Dim(0, 0))
SizeOf(rect) == Both(LAMBDA a : rect.br[a] - rect.tl[a] + 1)
RectEmpty(rect) == \A a \in Axes : SizeOf(rect)[a] = 0
Covers(rect, point) == \A a \in Axes : rect.tl[a] <= point[a] /\ point[a] <= rect.br[a]
Intersect(r, s) == [tl |-> Both(LAMBDA a : Larger(r.tl[a], s.tl[a])),
                    br |-> Both(LAMBDA a : Smaller(r.br[a], s.br[a]))]

Join(r, s) ==
  IF RectEmpty(s) THEN r
  ELSE IF RectEmpty(r) THEN s
  ELSE [tl |-> Both(LAMBDA a : Smaller(r.tl[a], s.tl[a])),
        br |-> Both(LAMBDA a : Larger(r.br[a], s.br[a]))]

Shrink(rect, inset) == [tl |-> Both(LAMBDA a : rect.tl[a] + inset),
                        br |-> Both(LAMBDA a : rect.br[a] - inset)]

\* The rectangle of a child in its parent's.
Placed(rect, size, offset) == Rect(Both(LAMBDA a : rect.tl[a] + offset[a]), size)

----------------------------------------------------------------------------
(* Constraints                                                              *)

Limits(min, max) == [min |-> min, max |-> max]
Bounded(c, a) == c.max[a] # Unbound
Fits(c, size) == \A a \in Axes : c.min[a] <= size[a] /\ size[a] <= c.max[a]
Loose(c) == Limits(Dim(0, 0), c.max)

Inset(c, inset) ==
  LET min == Both(LAMBDA a : Larger(0, c.min[a] - 2 * inset)) IN
  Limits(min, Both(LAMBDA a : IF Bounded(c, a) THEN Larger(min[a], c.max[a] - 2 * inset)
                            ELSE Unbound))

Expand(c, size, inset) == Both(LAMBDA a : Smaller(size[a] + 2 * inset, c.max[a]))

----------------------------------------------------------------------------
(* Leaves                                                                   *)

TextSize(c, dim) ==
  Both(LAMBDA a : IF dim[a] > c.max[a] THEN c.max[a]
                  ELSE IF dim[a] < c.min[a] THEN c.min[a] ELSE dim[a])

\* One cell more than the text at the right and the bottom, where there is room.
TextRect(rect, dim) ==
  LET at == Both(LAMBDA a : rect.tl[a] + Larger(0, Half(SizeOf(rect)[a] - dim[a]))) IN
  Intersect([tl |-> at, br |-> Both(LAMBDA a : at[a] + dim[a])], rect)

\* An image is scaled to fit, n cells of the rectangle for d of its own, and put in the middle.
ImageCovers(rect, dim, point) ==
  LET fits == SizeOf(rect)
      tight == IF fits.x * dim.y > fits.y * dim.x THEN "y" ELSE "x"
      n == fits[tight]
      d == dim[tight]
      offset(a) == IF a = tight THEN 0 ELSE (fits[a] * d - dim[a] * n) \div (2 * d)
  IN \A a \in Axes :
       LET from == (point[a] - rect.tl[a] - offset(a)) * d IN
       -n < from /\ from < dim[a] * n

ImageSize(c, dim) == Both(LAMBDA a : Clamped(dim[a], c.min[a], c.max[a]))
ColoredSize(c) == Both(LAMBDA a : IF c.max[a] = Unbound THEN c.min[a] ELSE c.max[a])
BlankSize(c, expand) == IF expand THEN c.max ELSE c.min

----------------------------------------------------------------------------
(* Widgets with one child                                                   *)

\* Center and Corner take all there is, or the size of their child.
CenterSize(c, size) == Both(LAMBDA a : IF Bounded(c, a) THEN c.max[a] ELSE size[a])
\* All there is, also where there is no limit.
CornerSizeAll(c, size) == c.max
CornerSize(c, size) == Both(LAMBDA a : IF Bounded(c, a) THEN c.max[a] ELSE size[a])
\* Half of the free space, but of the rectangle and not of what the child leaves of it.
CenterRectUnsized(rect, size) == Placed(rect, size, Both(LAMBDA a : Half(SizeOf(rect)[a])))

\* In the middle.
CenterRect(rect, size) == Placed(rect, size, Both(LAMBDA a : Half(SizeOf(rect)[a] - size[a])))

\* Corners 0, 1, 2, 3: clockwise from the top left.
CornerRect(rect, size, corner) ==
  LET free == Both(LAMBDA a : SizeOf(rect)[a] - size[a]) IN
  Placed(rect, size, Dim(IF corner \in {1, 2} THEN free.x ELSE 0, IF corner \in {2, 3} THEN free.y ELSE 0))

\* Sized forces the sizes it was given, within its own constraints.
SizedCons(c, dim) ==
  LET forced(a, bound) == IF dim[a] >= 0 THEN Clamped(dim[a], c.min[a], c.max[a]) ELSE bound[a] IN
  Limits(Both(LAMBDA a : forced(a, c.min)), Both(LAMBDA a : forced(a, c.max)))

PositionedCons(c, pos) == Limits(Dim(0, 0), Both(LAMBDA a : c.max[a] - pos[a]))
PositionedSize(c, size) == Both(LAMBDA a : IF Bounded(c, a) THEN c.max[a] ELSE size[a])

----------------------------------------------------------------------------
(* Widgets with many children                                               *)

StackSize(c, sizes) == Both(LAMBDA a : Larger(c.min[a], Largest(Along(sizes, a))))

\* Children without a flex are as long as they want, ...
FlexCons(c, axis) == Limits([c.min EXCEPT ![axis] = 0], [c.max EXCEPT ![axis] = Unbound])
Used(axis, flexes, sizes) ==
  Total([n \in DOMAIN sizes |-> IF flexes[n] = 0 THEN sizes[n][axis] ELSE 0])

\* ... the others share what is left.
ExpandedCons(c, axis, flexes, i, used) ==
  LET share == (flexes[i] * (c.max[axis] - used)) \div Total(flexes) IN
  Limits([c.min EXCEPT ![axis] = share], [c.max EXCEPT ![axis] = share])

FlexTotal(axis, sizes) ==
  Both(LAMBDA a : IF a = axis THEN Total(Along(sizes, a)) ELSE Largest(Along(sizes, a)))
FlexSize(c, axis, sizes) == Both(LAMBDA a : Larger(FlexTotal(axis, sizes)[a], c.min[a]))

FlexRect(rect, axis, sizes, i) ==
  LET free == SizeOf(rect)[axis] - FlexTotal(axis, sizes)[axis]
  IN Placed(rect, sizes[i], Both(LAMBDA a : IF a = axis THEN Half(free) + SumUpTo(Along(sizes, axis))[i - 1]
                                            ELSE Half(SizeOf(rect)[a] - sizes[i][a])))

\* Wrap: runs of children, as many in each as the constraints allow; the last one is open.
WrapCons(c, axis) == Limits(Dim(0, 0), [c.max EXCEPT ![axis] = Unbound])

WithChild(axis, run, size) == Both(LAMBDA a : IF a = axis THEN run[a] + size[a] ELSE Larger(run[a], size[a]))
RunsUpTo(axis, sizes, limit) ==
  LET runs[n \in 0 .. Len(sizes)] ==
        IF n = 0 THEN << Dim(0, 0) >>
        ELSE LET before == runs[n - 1]  run == before[Len(before)] IN
             IF run[axis] + sizes[n][axis] > limit THEN Append(before, sizes[n])
             ELSE [before EXCEPT ![Len(before)] = WithChild(axis, run, sizes[n])]
  IN runs
Runs(axis, sizes, limit) == RunsUpTo(axis, sizes, limit)[Len(sizes)]

WrapTotal(axis, runs) == FlexTotal(Cross(axis), runs)
WrapSize(c, axis, sizes) ==
  Both(LAMBDA a : Larger(WrapTotal(axis, Runs(axis, sizes, c.max[axis]))[a], c.min[a]))

\* Where each child is put, and where the next one would be: the ends of the runs are found
\* again, by the rectangle.
WrapUpTo(axis, sizes, runs, rect) ==
  LET origin == Both(LAMBDA a : Half(SizeOf(rect)[a] - WrapTotal(axis, runs)[a]))
      put[n \in 0 .. Len(sizes)] ==
        IF n = 0 THEN [at |-> origin, next |-> origin, run |-> 1]
        ELSE LET p == put[n - 1]
                 turn == p.next[axis] + sizes[n][axis] > SizeOf(rect)[axis]
                 at == IF turn THEN Both(LAMBDA a : IF a = axis THEN origin[a] ELSE p.next[a] + runs[p.run][a])
                       ELSE p.next
             IN [at |-> at, next |-> [at EXCEPT ![axis] = @ + sizes[n][axis]],
                 run |-> IF turn THEN p.run + 1 ELSE p.run]
  IN put
WrapRect(rect, c, axis, sizes, i) ==
  Placed(rect, sizes[i], WrapUpTo(axis, sizes, Runs(axis, sizes, c.max[axis]), rect)[i].at)

----------------------------------------------------------------------------
(* All widgets: what a widget asks of its i-th child, its own size by those *)
(* of its children, and where it draws them.                                *)

Through == {"stateful", "stateless", "dynamic", "gesture", "cleared"}
Bordered == {"padding", "border", "roundborder"}

\* A widget with n children and arguments it may be given.
WidgetOK(w, n) ==
  LET sizes == [x : Int, y : Int] IN
  \/ w.kind \in Through \union {"center", "corner"} /\ n = 1
  \/ w.kind = "positioned" /\ n = 1 /\ w.pos \in sizes
  \/ w.kind \in Bordered /\ n = 1 /\ w.inset \in Nat
  \/ w.kind = "sized" /\ n = 1 /\ w.dim \in sizes /\ \A a \in Axes : w.dim[a] < Unbound
  \/ w.kind = "stack"
  \/ w.kind = "flex" /\ w.axis \in Axes /\ w.flexes \in [1 .. n -> Nat]
  \/ w.kind = "wrap" /\ w.axis \in Axes
  \/ w.kind \in {"text", "image"} /\ n = 0 /\ w.dim \in sizes /\ \A a \in Axes : w.dim[a] \in 0 .. Unbound - 1
  \/ w.kind \in {"colored", "lcd"} /\ n = 0
  \/ w.kind = "blank" /\ n = 0 /\ w.expand \in BOOLEAN

\* Only children without a flex count for the size of the others.
ChildCons(w, c, i, sizes) ==
  CASE w.kind \in Through \union {"stack"} -> c
    [] w.kind \in {"center", "corner"} -> Loose(c)
    [] w.kind = "positioned" -> PositionedCons(c, w.pos)
    [] w.kind \in Bordered -> Inset(c, w.inset)
    [] w.kind = "sized" -> SizedCons(c, w.dim)
    [] w.kind = "flex" -> IF w.flexes[i] = 0 THEN FlexCons(c, w.axis)
                          ELSE ExpandedCons(c, w.axis, w.flexes, i, Used(w.axis, w.flexes, sizes))
    [] w.kind = "wrap" -> WrapCons(c, w.axis)

WidgetSize(w, c, sizes) ==
  CASE w.kind \in Through \union {"sized"} -> sizes[1]
    [] w.kind = "center" -> CenterSize(c, sizes[1])
    [] w.kind = "corner" -> CornerSize(c, sizes[1])
    [] w.kind = "positioned" -> PositionedSize(c, sizes[1])
    [] w.kind \in Bordered -> Expand(c, sizes[1], w.inset)
    [] w.kind = "stack" -> StackSize(c, sizes)
    [] w.kind = "flex" -> FlexSize(c, w.axis, sizes)
    [] w.kind = "wrap" -> WrapSize(c, w.axis, sizes)
    [] w.kind = "text" -> TextSize(c, w.dim)
    [] w.kind = "image" -> ImageSize(c, w.dim)
    [] w.kind = "colored" -> ColoredSize(c)
    [] w.kind = "lcd" -> c.max
    [] w.kind = "blank" -> BlankSize(c, w.expand)

ChildRect(w, c, rect, sizes, i) ==
  CASE w.kind \in Through \union {"sized"} -> rect
    [] w.kind = "center" -> CenterRect(rect, sizes[i])
    [] w.kind = "corner" -> CornerRect(rect, sizes[i], w.corner)
    [] w.kind = "positioned" -> Placed(rect, sizes[i], w.pos)
    [] w.kind \in Bordered -> Shrink(rect, w.inset)
    [] w.kind = "stack" -> Rect(rect.tl, sizes[i])
    [] w.kind = "flex" -> FlexRect(rect, w.axis, sizes, i)
    [] w.kind = "wrap" -> WrapRect(rect, c, w.axis, sizes, i)

\* A widget was laid out: its children with what it asks of them, and it has its size by theirs.
LaidOut(w, c, size, conses, sizes) ==
  size = WidgetSize(w, c, sizes) /\ \A i \in DOMAIN sizes : conses[i] = ChildCons(w, c, i, sizes)

\* What RenderObject::layout asserts of a size: it is one, and keeps the constraints.
SizeKept(c, size) == Unbound \notin {size[a] : a \in Axes} /\ Fits(c, size)

\* There is room for what a widget holds: insets and positions leave some, the children of a
\* flex and of a wrap fit, and what takes all there is has a limit.
HasRoom(w, c, sizes) ==
  /\ w.kind = "lcd" \/ (w.kind = "blank" /\ w.expand) => \A a \in Axes : Bounded(c, a)
  /\ w.kind \in Bordered => \A a \in Axes :
       IF Bounded(c, a) THEN 2 * w.inset <= c.max[a] ELSE sizes[1][a] + 2 * w.inset < Unbound
  /\ w.kind = "positioned" => \A a \in Axes : w.pos[a] >= 0 /\ w.pos[a] <= IF Bounded(c, a) THEN c.max[a] ELSE 0
  /\ w.kind = "flex" =>
       LET used == Used(w.axis, w.flexes, sizes) IN
       IF Bounded(c, w.axis) THEN used <= c.max[w.axis]
       ELSE used < Unbound /\ \A i \in DOMAIN w.flexes : w.flexes[i] = 0
  /\ w.kind = "wrap" => \A a \in Axes :
       LET total == WrapTotal(w.axis, Runs(w.axis, sizes, c.max[w.axis])) IN
       total[a] <= c.max[a] /\ total[a] < Unbound
==============================================================================
