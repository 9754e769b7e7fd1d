----------------------------- MODULE RenderTree -----------------------------
(***************************************************************************)
(* One app's tree of render objects, redrawn in every round of its event   *)
(* loop (AppContext::step): only what is marked is built, laid out and     *)
(* drawn again, and only the region that was drawn is sent to the panel.   *)
(***************************************************************************)
EXTENDS RenderObjects

CONSTANTS
  Screens,   \* the root widgets an app may have
  Size,      \* of the frame buffer
  Lcds       \* what the calculator's screen may show

VARIABLES
  root,    \* the root render object
  canvas,  \* the frame buffer
  panel,   \* what the panel shows of it
  lcd,     \* what the calculator's screen shows
  phase,   \* where in step() the app is
  places   \* history: where each Cleared was drawn since it was filled

vars == <<root, canvas, panel, lcd, phase, places>>

Screen == Rect(Dim(0, 0), Size)
Empty == [y \in 1 .. Size.y |-> [x \in 1 .. Size.x |-> White]]

Init ==
  /\ \E w \in Screens : root = Create(w)
  /\ canvas = Empty /\ panel = Empty
  /\ lcd = White
  /\ phase = "step"
  /\ places = {}

\* The panel takes the region from the canvas.
Sent(shown, out) ==
  Each(Indices(shown), LAMBDA y :
    IF y <= out.region.tl.y \/ out.region.br.y < y - 1 THEN shown[y]
    ELSE LET row == out.canvas[y] IN
         Each(Indices(row), LAMBDA x :
           IF out.region.tl.x < x /\ x - 1 <= out.region.br.x THEN row[x] ELSE shown[y][x]))

\* The render objects, each before its children, and the paths to those of a kind.
RECURSIVE Objects(_)
Objects(ro) == FoldLeft(LAMBDA seq, kid : seq \o Objects(kid), <<ro>>, ro.kids)

RECURSIVE Paths(_, _)
Paths(ro, kind) ==
  (IF ro.w.kind = kind THEN {<<>>} ELSE {}) \cup
  UNION {{<<i>> \o path : path \in Paths(ro.kids[i], kind)} : i \in DOMAIN ro.kids}

RECURSIVE At(_, _)
At(ro, path) == IF path = <<>> THEN ro ELSE At(ro.kids[Head(path)], Tail(path))

\* A Cleared that is not drawn in full keeps what it was filled with, where it was.
Drawings(laid, drawn) ==
  {[path |-> path, rect |-> At(drawn, path).rect] : path \in Paths(drawn, "cleared")} \cup
  {place \in places : place.path \in Paths(drawn, "cleared") /\ At(laid, place.path).draw # "full"}

\* The first half of step(): all that changed is built, laid out, cleared and drawn.
Frame ==
  /\ phase = "step"
  /\ \E laid \in {Layout(Rebuild(root), Limits(Size, Size))} :
     \E cleaned \in {Cleanup(laid, [canvas |-> canvas, region |-> NoRect])} :
     \E drawn \in {Draw(laid, Rect(Dim(0, 0), laid.size), cleaned, lcd)} :
        /\ root' = drawn.ro
        /\ canvas' = drawn.out.canvas
        /\ panel' = Sent(panel, drawn.out)
        /\ places' = Drawings(laid, drawn.ro)
  /\ phase' = "events"
  /\ UNCHANGED lcd

\* The stateful objects that an event is handed to: a stack may keep it for its top.
RECURSIVE handleInput(_)
handleInput(ro) ==
  LET heard == IF ro.w.kind = "stack" /\ ro.w.onlyTop THEN {Len(ro.kids)} ELSE DOMAIN ro.kids
  IN (IF ro.w.kind = "stateful" THEN {<<>>} ELSE {}) \cup
     UNION {{<<i>> \o path : path \in handleInput(ro.kids[i])} : i \in heard}

RECURSIVE Replace(_, _, _)
Replace(ro, path, new) ==
  IF path = <<>> THEN new ELSE [ro EXCEPT !.kids[Head(path)] = Replace(@, Tail(path), new)]

\* An event or a timer changes the state of a widget, to one its handlers can reach.
setState ==
  /\ phase = "events"
  /\ \E path \in handleInput(root) :
       LET ro == At(root, path) IN
       \E val \in ro.w.next[ro.val] :
         root' = Replace(root, path, [ro EXCEPT !.val = val, !.rebuild = TRUE])
  /\ UNCHANGED <<canvas, panel, lcd, phase, places>>

\* The calculator has run: its screen is to be drawn where that differs.
stateFrameCallback ==
  /\ phase = "events"
  /\ \E path \in Paths(root, "lcd") :
       /\ At(root, path).w.calc
       /\ root' = Replace(root, path, MarkSelf(At(root, path), "partial"))
  /\ lcd' \in Lcds
  /\ UNCHANGED <<canvas, panel, phase, places>>

\* The end of step().
EndStep ==
  /\ phase = "events"
  /\ root' = Reset(root)
  /\ phase' = "step"
  /\ UNCHANGED <<canvas, panel, lcd, places>>

Next == Frame \/ setState \/ stateFrameCallback \/ EndStep

Spec == Init /\ [][Next]_vars

----------------------------------------------------------------------------
(* Properties                                                               *)

\* A tree that is made anew for the widgets and states of this one.
RECURSIVE Anew(_, _)
Anew(w, ro) ==
  IF TypeOf(ro.w) # TypeOf(w) THEN Rebuild(Create(w))
  ELSE IF w.kind \in Building
  THEN LET made == [Create(w) EXCEPT !.val = ro.val, !.rebuild = FALSE]
       IN [made EXCEPT !.kids = <<Anew(Build(made), ro.kids[1])>>]
  ELSE [Create(w) EXCEPT !.kids = [i \in DOMAIN w.kids |->
          IF i <= Len(ro.kids) THEN Anew(w.kids[i], ro.kids[i]) ELSE Rebuild(Create(w.kids[i]))]]

Fresh == Layout(Anew(root.w, root), Limits(Size, Size))
DrawnFrom(laid) == Draw(laid, Screen, [canvas |-> Empty, region |-> NoRect], lcd)
Drawn == DrawnFrom(Fresh)

\* What is below a Cleared that does not fill its place is seen around what it holds.
Unfilled(path) ==
  DrawnFrom(Replace(Fresh, path, [At(Fresh, path) EXCEPT !.draw = "no"])).out.canvas

\* After an event the tree is not drawn yet.
Settled ==
  LET all == Objects(root) IN
  phase = "events" /\ \A i \in DOMAIN all : ~all[i].rebuild /\ all[i].draw = "no"

Rects(ro) == Each(Objects(ro), LAMBDA object : object.rect)

\* The marks, caches and children of every object are ones its class can have, and the loop is at a
\* place where something is drawn or an event handled.
TypeOK ==
  /\ phase \in {"step", "events"} /\ lcd \in Lcds \cup {White}
  /\ LET all == Objects(root) IN
     \A i \in DOMAIN all :
       LET ro == all[i] IN
       /\ ro.draw \in {"no", "partial", "full"} /\ ro.layout \in BOOLEAN /\ ro.rebuild \in BOOLEAN
       /\ {ro.layoutCache, ro.drawCache} \subseteq {"unset", "yes", "no"}
       /\ ro.w.kind \notin Building => Len(ro.kids) = Len(ro.w.kids)

\* The cells around a Cleared that changed its size since it was filled, with nothing drawn in
\* full around it (a stack that does not update, Stack.h): they are white where the Cleared was
\* and no longer is, and what is below shows through where it was not yet.
Cells == {Dim(x - 1, y - 1) : x \in 1 .. Size.x, y \in 1 .. Size.y}
Ink(shown, p) == shown[p.y + 1][p.x + 1]
Outgrown(place) ==
  LET now == At(root, place.path).rect
      unfilled == Unfilled(place.path)
  IN IF place.rect = now THEN {}
     ELSE {p \in Cells :
             \/ Covers(place.rect, p) /\ ~Covers(now, p) /\ Ink(panel, p) = White
             \/ Covers(now, p) /\ ~Covers(place.rect, p) /\ Ink(panel, p) = Ink(unfilled, p)}

\* The panel shows what a tree made anew would have drawn on an empty screen: nothing that
\* was to be drawn again, cleared or sent to the panel was forgotten (the marks, caches
\* and partial draws of RenderObject.h and the update methods).  Only around a dialog that
\* changed its size, and until it is closed, a cell may differ, and then as it is said above.
ShowsState ==
  Settled =>
    LET fresh == Drawn.out.canvas IN
    panel # fresh =>
      {p \in Cells : Ink(panel, p) # Ink(fresh, p)} \subseteq UNION {Outgrown(place) : place \in places}

\* Every object knows where it would be drawn now: a touch goes to what is seen there
\* (Gesture.h asks getRect()).
RectsCurrent == Settled => Rects(root) = Rects(Drawn.ro)

\* The two assertions of RenderObject::layout: a size is never unbound, and keeps the
\* constraints that were given.  Every widget has room, as Flex.h asserts of its children.
SizesFit ==
  phase = "events" =>
    LET all == Objects(root) IN
    \A i \in DOMAIN all :
      LET ro == all[i] IN
      /\ ~ro.layout => SizeKept(ro.cons, ro.size)
      /\ LaidOut(ro.w, ro.cons, ro.size, Each(ro.kids, LAMBDA kid : kid.cons), Sizes(ro.kids))
      /\ WidgetOK(ro.w, Len(ro.kids)) /\ HasRoom(ro.w, ro.cons, Sizes(ro.kids))

\* The assertions of Canvas.h: what is drawn and cleared is inside of the frame buffer.
OnCanvas ==
  LET rects == Rects(root) IN
  \A i \in DOMAIN rects :
    LET rect == rects[i] IN
    RectEmpty(rect) \/ (Covers(Screen, rect.tl) /\ Covers(Screen, rect.br))

\* The assertions of the code hold, and the variables keep their types.
AssertionsHold == TypeOK /\ SizesFit /\ OnCanvas
==============================================================================
