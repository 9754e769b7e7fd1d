---------------------------- MODULE RenderObjects ----------------------------
(***************************************************************************)
(* The render objects of rMlib.  A widget is a record of its kind and      *)
(* arguments; a render object keeps the widget it shows, its children,     *)
(* where it was drawn, and what is to be done again: rebuilding, layout,   *)
(* drawing.  The operators below are the methods; each returns the object  *)
(* as the method leaves it.                                                *)
(*                                                                         *)
(* Kinds: stateful, stateless, dynamic, gesture, cleared, center, corner,  *)
(* positioned, padding, border, roundborder, sized (one child); stack,     *)
(* flex, wrap (children); text, image, colored, blank, lcd (leaves; lcd is *)
(* the screen of the calculator).  Insets are the same on all sides.       *)
(***************************************************************************)
EXTENDS UILayout, SequencesExt

White == "white"

\* F of every element, as a tuple.
Each(seq, F(_)) == [i \in DOMAIN seq |-> F(seq[i])] \o <<>>
Indices(seq) == [i \in DOMAIN seq |-> i]
Sizes(ros) == Each(ros, LAMBDA ro : ro.size)

Single == {"dynamic", "gesture", "cleared", "center", "corner", "positioned", "padding", "border",
           "roundborder", "sized"}
Building == {"stateful", "stateless"}

\* typeId<Widget>: the templates name the types of children that cannot vary.
RECURSIVE TypeOf(_)
TypeOf(w) ==
  CASE w.kind = "stateful" -> <<w.kind, w.type>>
    [] w.kind = "dynamic" -> <<w.kind>>
    [] w.kind \in {"stack", "wrap"} -> <<w.kind>> \o (IF w.kids = <<>> THEN <<>> ELSE TypeOf(w.kids[1]))
    [] OTHER -> <<w.kind>> \o FoldLeft(LAMBDA t, kid : t \o TypeOf(kid), <<>>, w.kids)

RECURSIVE Create(_)
Create(w) ==
  [w |-> w, kids |-> IF w.kind \in Building THEN <<>> ELSE Each(w.kids, Create),
   val |-> 1, rebuild |-> w.kind \in Building,
   cons |-> Limits(Dim(0, 0), Dim(0, 0)), size |-> Dim(0, 0), rect |-> NoRect,
   layout |-> TRUE, draw |-> "full", layoutCache |-> "unset", drawCache |-> "unset", old |-> 0]

----------------------------------------------------------------------------
(* Marks                                                                    *)

RECURSIVE MarkLayout(_)
MarkLayout(ro) == [ro EXCEPT !.layout = TRUE, !.kids = Each(ro.kids, MarkLayout)]

MarkSelf(ro, how) == [ro EXCEPT !.draw = IF how = "full" \/ @ = "no" THEN how ELSE @]

RECURSIVE MarkDraw(_, _)
MarkDraw(ro, how) ==
  [MarkSelf(ro, how) EXCEPT !.kids = Each(ro.kids, LAMBDA kid : MarkDraw(kid, how))]

MarkIf(ro, changed) == IF changed THEN MarkDraw(MarkLayout(ro), "full") ELSE ro

\* What the children answered before is not asked again until it is reset.
RECURSIVE Reset(_)
Reset(ro) == [ro EXCEPT !.layoutCache = "unset", !.drawCache = "unset",
                        !.kids = Each(ro.kids, Reset)]

Answer(cache, kids, own, field) ==
  IF cache # "unset" THEN cache
  ELSE IF own \/ \E i \in DOMAIN kids : kids[i][field] = "yes" THEN "yes" ELSE "no"

\* The children are all asked here; the code leaves some for later, with the same answer.
RECURSIVE AskLayout(_)
AskLayout(ro) ==
  IF ro.layoutCache # "unset" THEN ro
  ELSE LET kids == Each(ro.kids, AskLayout) IN
       [ro EXCEPT !.kids = kids, !.layoutCache = Answer(@, kids, ro.layout, "layoutCache")]

RECURSIVE AskDraw(_)
AskDraw(ro) ==
  IF ro.drawCache # "unset" THEN ro
  ELSE LET kids == Each(ro.kids, AskDraw) IN
       [ro EXCEPT !.kids = kids, !.drawCache = Answer(@, kids, ro.draw # "no", "drawCache")]

----------------------------------------------------------------------------
(* update: the object takes the new widget, and marks what changed          *)

TextUpdate(ro, w) == MarkIf(ro, w.ink # ro.w.ink)
ColoredUpdate(ro, w) == IF w.ink # ro.w.ink THEN MarkDraw(ro, "full") ELSE ro
ImageUpdate(ro, w) == IF w.ink # ro.w.ink THEN MarkDraw(ro, "full") ELSE ro
PaddingUpdate(ro, w) == MarkIf(ro, w.inset # ro.w.inset)
SizedUpdate(ro, w) == MarkIf(ro, w.dim # ro.w.dim)
ClearedUpdate(ro, w) == IF w.ink # ro.w.ink THEN MarkDraw(ro, "full") ELSE ro
FlexUpdate(ro, w) == MarkIf(ro, w.axis # ro.w.axis)

\* The colour of a border only draws the border.
BorderUpdate(ro, w) ==
  LET sized == IF w.inset # ro.w.inset THEN MarkLayout(ro) ELSE ro
  IN IF w.ink # ro.w.ink THEN MarkSelf(sized, "partial") ELSE sized

\* Only the child's place is cleared.
PositionedUpdate(ro, w) ==
  IF w.pos = ro.w.pos THEN ro
  ELSE [MarkSelf(MarkLayout(ro), "partial") EXCEPT !.kids[1] = MarkDraw(MarkLayout(ro.kids[1]), "full")]

\* Only when a child left.
StackRedrawsFewer(ro, w) == Len(w.kids) < Len(ro.kids)

\* The stack looks at the flag of the widget it had.
StackRedraws(ro, w) == Len(w.kids) < Len(ro.kids) \/ ro.w.shouldUpdate
WrapRedraws(ro, w) == w.axis # ro.w.axis \/ Len(w.kids) # Len(ro.kids)

Marked(ro, w) ==
  CASE w.kind = "text" -> TextUpdate(ro, w)
    [] w.kind = "colored" -> ColoredUpdate(ro, w)
    [] w.kind = "image" -> ImageUpdate(ro, w)
    [] w.kind = "padding" -> PaddingUpdate(ro, w)
    [] w.kind = "sized" -> SizedUpdate(ro, w)
    [] w.kind = "cleared" -> ClearedUpdate(ro, w)
    [] w.kind = "flex" -> FlexUpdate(ro, w)
    [] w.kind \in {"border", "roundborder"} -> BorderUpdate(ro, w)
    [] w.kind = "positioned" -> PositionedUpdate(ro, w)
    [] OTHER -> ro

\* The new object is drawn, and nothing says that the place is to be cleared.
DynamicUpdateUnmarked(ro, w) == [ro EXCEPT !.w = w, !.kids = <<Create(w.kids[1])>>]

\* Another type of widget gets a new object, in the place of the old one.
DynamicUpdate(ro, w) == [MarkDraw(ro, "full") EXCEPT !.w = w, !.kids = <<Create(w.kids[1])>>]

StatefulUpdate(ro, w) == [ro EXCEPT !.w = w, !.rebuild = TRUE]

RECURSIVE Update(_, _)

\* Objects without a child stay.
updateChildrenKept(ro, w) ==
  [ro EXCEPT !.kids = Each(Indices(IF Len(ro.kids) > Len(w.kids) THEN ro.kids ELSE w.kids), LAMBDA i :
                        IF i > Len(w.kids) THEN ro.kids[i]
                        ELSE IF i <= Len(ro.kids) THEN Update(ro.kids[i], w.kids[i])
                        ELSE Create(w.kids[i]))]

\* The objects of the children that are left over are dropped, those that lack are made.
updateChildren(ro, w) ==
  [ro EXCEPT !.kids = Each(Indices(w.kids), LAMBDA i :
                        IF i <= Len(ro.kids) THEN Update(ro.kids[i], w.kids[i]) ELSE Create(w.kids[i]))]

Update(ro, w) ==
  CASE w.kind \in Building -> StatefulUpdate(ro, w)
    [] w.kind = "dynamic" /\ TypeOf(ro.w.kids[1]) # TypeOf(w.kids[1]) -> DynamicUpdate(ro, w)
    [] w.kind = "stack" ->
         MarkIf([updateChildren(ro, w) EXCEPT !.w = w], StackRedraws(ro, w))
    [] w.kind = "wrap" ->
         MarkIf([updateChildren(ro, w) EXCEPT !.w = w], WrapRedraws(ro, w))
    [] OTHER -> [updateChildren(Marked(ro, w), w) EXCEPT !.w = w]

\* What build returns: a stateful widget's depends on its state.
Build(ro) == IF ro.w.kind = "stateful" THEN ro.w.views[ro.val] ELSE ro.w.kids[1]

RECURSIVE Rebuild(_)
doRebuild(ro) ==
  [ro EXCEPT !.rebuild = FALSE,
             !.kids = <<IF @ = <<>> THEN Create(Build(ro)) ELSE Update(@[1], Build(ro))>>]
Rebuild(ro) ==
  LET built == IF ro.rebuild THEN doRebuild(ro) ELSE ro
  IN [built EXCEPT !.kids = Each(built.kids, Rebuild)]

----------------------------------------------------------------------------
(* Layout                                                                   *)

\* Drawn again only when it became wider.
BorderMovesWider(ro, size) == size.x > ro.size.x

\* A border whose size changed is drawn again with everything in it.
BorderMoves(ro, size) == size # ro.size

\* The child that changed is drawn again, its siblings are not.
FlexMovesNone(ro, kids) == FALSE

\* Drawn again when a child's length along the axis is not what it was.
FlexMoves(ro, kids) == \E i \in DOMAIN kids : kids[i].size[ro.w.axis] # ro.kids[i].size[ro.w.axis]
WrapMoves(ro, kids) == \E i \in DOMAIN kids : kids[i].size # ro.kids[i].size

Moves(ro, kids, size) ==
  \/ ro.w.kind \in {"border", "roundborder"} /\ BorderMoves(ro, size)
  \/ ro.w.kind = "flex" /\ FlexMoves(ro, kids)
  \/ ro.w.kind = "wrap" /\ WrapMoves(ro, kids)

RECURSIVE Layout(_, _)

\* The children of a flex that take what is left come after the others.
doLayout(ro, c) ==
  LET w == ro.w
      waits(i) == w.kind = "flex" /\ w.flexes[i] # 0
      laid(kids, i) == Layout(kids[i], ChildCons(w, c, i, Sizes(kids)))
      fixed == Each(Indices(ro.kids), LAMBDA i : IF waits(i) THEN ro.kids[i] ELSE laid(ro.kids, i))
      kids == Each(Indices(fixed), LAMBDA i : IF waits(i) THEN laid(fixed, i) ELSE fixed[i])
      size == WidgetSize(w, c, Sizes(kids))
      done == [ro EXCEPT !.kids = kids, !.size = size]
  IN IF Moves(ro, kids, size) THEN MarkDraw(done, "full") ELSE done

Layout(asked, c) ==
  LET ro == AskLayout(asked) IN
  IF ro.layoutCache = "yes" \/ c # ro.cons
  THEN [doLayout([ro EXCEPT !.cons = c], c) EXCEPT !.layout = FALSE]
  ELSE ro

----------------------------------------------------------------------------
(* Drawing: the canvas is a sequence of rows                                 *)

\* The cells of the rectangle that are to have the ink.
FillWhere(canvas, rect, ink, In(_)) ==
  Each(Indices(canvas), LAMBDA y :
    IF y - 1 < rect.tl.y \/ rect.br.y < y - 1 THEN canvas[y]
    ELSE Each(Indices(canvas[y]), LAMBDA x :
           IF rect.tl.x < x /\ x - 1 <= rect.br.x /\ In(Dim(x - 1, y - 1)) THEN ink ELSE canvas[y][x]))
Fill(canvas, rect, ink) == FillWhere(canvas, rect, ink, LAMBDA p : TRUE)

\* What is to be drawn in full is first cleared where it was.
RECURSIVE Cleanup(_, _)
Cleanup(ro, out) ==
  IF ro.draw = "full"
  THEN [canvas |-> Fill(out.canvas, ro.rect, White), region |-> Join(out.region, ro.rect)]
  ELSE FoldLeft(LAMBDA o, kid : Cleanup(kid, o), out, ro.kids)

PaintWhere(out, rect, ink, In(_)) ==
  [out EXCEPT !.canvas = FillWhere(@, rect, ink, In), !.region = Join(@, rect)]
Paint(out, rect, ink) == PaintWhere(out, rect, ink, LAMBDA p : TRUE)

\* The lines of a border, as thick as it is.
BorderDraw(ro, rect, out) ==
  PaintWhere(out, rect, ro.w.ink, LAMBDA p : ~Covers(Shrink(rect, ro.w.inset), p))

\* Circles around the middle, half as wide as the rectangle.
RoundBorderDraw(ro, rect, out) ==
  LET middle == Both(LAMBDA a : rect.tl[a] + (rect.br[a] - rect.tl[a]) \div 2)
      r == (rect.br.x - rect.tl.x) \div 2
      Distance(p) == (p.x - middle.x) * (p.x - middle.x) + (p.y - middle.y) * (p.y - middle.y)
      inner == r - ro.w.inset
      square == [tl |-> Both(LAMBDA a : middle[a] - r), br |-> Both(LAMBDA a : middle[a] + r)]
  IN [out EXCEPT !.canvas = FillWhere(@, square, ro.w.ink,
                              LAMBDA p : Distance(p) <= r * r /\ Distance(p) > inner * inner),
                 !.region = Join(@, rect)]

\* The calculator's screen, if there is a calculator and it is not what was drawn last.
LcdDraw(ro, rect, out, lcd) ==
  IF ~ro.w.calc \/ (ro.draw = "partial" /\ ro.old = lcd) THEN out ELSE Paint(out, rect, lcd)

RECURSIVE Draw(_, _, _, _)

\* The children in their order, each on what the ones before have drawn.
DrawChildren(ro, rect, out, lcd) ==
  FoldLeft(LAMBDA acc, i :
             LET drawn == Draw(acc.ro.kids[i], ChildRect(ro.w, ro.cons, rect, Sizes(ro.kids), i), acc.out, lcd)
             IN [ro |-> [acc.ro EXCEPT !.kids[i] = drawn.ro], out |-> drawn.out],
           [ro |-> ro, out |-> out], Indices(ro.kids))

\* What the object itself draws over its children.
DrawOver(ro, rect, out, lcd) ==
  LET w == ro.w IN
  CASE w.kind = "border" /\ ro.draw # "no" -> BorderDraw(ro, rect, out)
    [] w.kind = "roundborder" /\ ro.draw # "no" -> RoundBorderDraw(ro, rect, out)
    [] w.kind = "text" -> Paint(out, TextRect(rect, w.dim), w.ink)
    [] w.kind = "colored" -> Paint(out, rect, w.ink)
    [] w.kind = "image" -> PaintWhere(out, rect, w.ink, LAMBDA p : ImageCovers(rect, w.dim, p))
    [] w.kind = "blank" -> [out EXCEPT !.region = Join(@, rect)]
    [] w.kind = "lcd" -> LcdDraw(ro, rect, out, lcd)
    [] OTHER -> out

doDraw(ro, rect, out, lcd) ==
  LET before == IF ro.w.kind = "cleared" /\ ro.draw = "full" THEN Paint(out, rect, ro.w.ink) ELSE out
  IN [DrawChildren(ro, rect, before, lcd) EXCEPT
        !.out = DrawOver(ro, rect, @, lcd),
        !.ro.old = IF ro.w.kind = "lcd" THEN lcd ELSE @]

Draw(asked, rect, out, lcd) ==
  LET ro == AskDraw(asked) IN
  IF ro.drawCache = "no" THEN [ro |-> ro, out |-> out]
  ELSE LET done == doDraw([ro EXCEPT !.rect = rect], rect, out, lcd)
       IN [done EXCEPT !.ro.draw = "no"]
==============================================================================
