----------------------------- MODULE AppScreens -----------------------------
(***************************************************************************)
(* What the apps build: the widgets of rocket's launcher (Launcher.h),     *)
(* its lock screen (Lockscreen.h) and viewer of screenshots                *)
(* (Screenshoter.h), of tilem's calculator (Calculator.h, Dialog.h) and of *)
(* yaft (YaftWidget.h).  The nesting is that of the build methods; sizes   *)
(* are scaled down, rows of the same kind are shown once or twice, and a   *)
(* text is an ink and a width.  A stateful widget lists what it builds in  *)
(* each of its states, and the states its handlers lead to.                *)
(***************************************************************************)
EXTENDS RenderObjects

One(kind, kid) == [kind |-> kind, kids |-> <<kid>>]

\* The ink of a text is its letters, also of a number.
Text(ink, width) == [kind |-> "text", ink |-> ToString(ink), dim |-> Dim(width, 1), kids |-> <<>>]
Image(ink, size) == [kind |-> "image", ink |-> ink, dim |-> size, kids |-> <<>>]
Colored(ink) == [kind |-> "colored", ink |-> ink, kids |-> <<>>]
Blank == [kind |-> "blank", expand |-> TRUE, kids |-> <<>>]
Center(kid) == One("center", kid)
GestureDetector(kid) == One("gesture", kid)
DynamicWidget(kid) == One("dynamic", kid)
StatelessWidget(kid) == One("stateless", kid)
Padding(inset, kid) == [kind |-> "padding", inset |-> inset, kids |-> <<kid>>]
Border(inset, ink, kid) == [kind |-> "border", inset |-> inset, ink |-> ink, kids |-> <<kid>>]
RoundBorder(inset, ink, kid) == [kind |-> "roundborder", inset |-> inset, ink |-> ink, kids |-> <<kid>>]
Corner(kid, corner) == [kind |-> "corner", corner |-> corner, kids |-> <<kid>>]
Cleared(kid) == [kind |-> "cleared", ink |-> White, kids |-> <<kid>>]
Sized(kid, size) == [kind |-> "sized", dim |-> size, kids |-> <<kid>>]
Positioned(kid, pos) == [kind |-> "positioned", pos |-> pos, kids |-> <<kid>>]
Flex(axis, flexes, kids) == [kind |-> "flex", axis |-> axis, flexes |-> flexes, kids |-> kids]
Column(kids) == Flex("y", Each(kids, LAMBDA kid : 0), kids)
Row(kids) == Flex("x", Each(kids, LAMBDA kid : 0), kids)
Wrap(kids) == [kind |-> "wrap", axis |-> "x", kids |-> kids]
Stack(kids, onlyTop, update) ==
  [kind |-> "stack", onlyTop |-> onlyTop, shouldUpdate |-> update, kids |-> Each(kids, DynamicWidget)]
StatefulWidget(type, views, next) ==
  [kind |-> "stateful", type |-> type, views |-> views, next |-> next, kids |-> <<>>]

\* container of Layout.h
container(kid, padding, border, margin) == Padding(margin, Border(border, "black", Padding(padding, kid)))

\* Pressed and not; the border around the one that changes is left out.
Button(ink) ==
  StatefulWidget("Button",
    Each(<<White, "black">>, LAMBDA color : GestureDetector(Border(1, color, Text(ink, 1)))), <<{2}, {1}>>)
RoundButton(ink) ==
  StatefulWidget("RoundButton",
    Each(<<White, "black">>, LAMBDA color : GestureDetector(RoundBorder(1, color, Text(ink, 1)))), <<{2}, {1}>>)

----------------------------------------------------------------------------
(* rocket                                                                   *)

\* The power dialog, and the one that confirms a copy.
Dialog(title, width) ==
  Center(Cleared(Border(1, "black", Column(<<Text(title, width), Row(<<Button("no"), Text("yes", 2)>>)>>))))

RunningAppWidget(isCurrent) ==
  StatelessWidget(
    container(Column(<<GestureDetector(Sized(Image("saved", Dim(6, 6)), Dim(2, 2))),
                       Row(<<Text("name", 1), Corner(Text("X", 1), 2)>>)>>),
              IF isCurrent THEN 1 ELSE 2, IF isCurrent THEN 2 ELSE 1, 1))
AppWidget(ink) ==
  StatelessWidget(
    container(GestureDetector(Column(<<Sized(Image(ink, Dim(3, 3)), Dim(2, 1)), Text(ink, 4)>>)), 0, 1, 0))

StatusBarWidget ==
  StatefulWidget("StatusBar",
    Each(<<2, 3>>, LAMBDA width : DynamicWidget(Border(1, "black", Text(width, width)))), <<{2}, {1}>>)

\* The header is empty or counts down.
launcher(running, apps, header, isManagingPower) ==
  Stack(<<Corner(Column(<<Button("off"), Text("reboot", 3)>>), 0),
          Corner(StatusBarWidget, 3),
          Corner(Padding(1, Text(header, header)), 1),
          Center(Column(<<Wrap(running), Wrap(apps)>>))>>
        \o (IF isManagingPower THEN <<Dialog("sure", 5)>> ELSE <<>>), isManagingPower, TRUE)

Launcher ==
  StatefulWidget("Launcher",
    Each(<<launcher(<<>>, <<AppWidget("app"), AppWidget("tool"), AppWidget("game")>>, 0, FALSE),
           launcher(<<RunningAppWidget(TRUE)>>, <<AppWidget("tool")>>, 2, FALSE),
           launcher(<<RunningAppWidget(FALSE)>>, <<AppWidget("tool")>>, 1, FALSE),
           launcher(<<>>, <<AppWidget("app"), AppWidget("tool")>>, 2, TRUE),
           Cleared(Center(Text("zzz", 4))),
           Colored(White),
           Center(Sized(Image("splash", Dim(6, 3)), Dim(4, 4)))>>,
         LAMBDA ui : GestureDetector(DynamicWidget(ui))),
    <<{2, 4, 5, 7}, {3, 5, 6}, {1, 2}, {1, 3}, {1, 3}, {2, 3, 5}, {1, 6}>>)

\* Typing a digit, deleting one.
LockscreenWidget ==
  StatefulWidget("Lockscreen",
    Each(<<0, 1, 2>>, LAMBDA typed :
      DynamicWidget(Cleared(Column(
        <<Padding(1, Text("enter", 3)), Padding(1, Text(typed, typed)),
          Row(<<Padding(1, RoundButton("1")), Padding(1, RoundButton("2"))>>)>>)))),
    <<{2}, {1, 3}, {1, 2}>>)

\* Its least value, the shortest, and another.
SpinWidget ==
  StatefulWidget("Spin",
    Each(<<1, 4>>, LAMBDA value :
      Row(<<Text("label", 1), Padding(0, Column(<<Button("less"), Text("fewer", 3)>>)),
            Text(value, value), Padding(0, Column(<<Text("more", 1), Text("most", 1)>>))>>)),
    <<{2}, {1}>>)

\* The row of a spin is the widest, so that the dialog is as wide as its value makes it.
copy_dialog == Center(Cleared(Border(1, "black", Column(<<Padding(0, Row(<<Text("copy", 4)>>)), Padding(0, Row(<<SpinWidget>>))>>))))

screenshot_controls ==
  Corner(Cleared(Border(1, "black", Row(<<Text("shot", 1), Text("copy", 1), Button("x")>>))), 1)

\* Without a selection, with one of two, with the dialogs; only while it is selecting the
\* stack is for all touches and draws everything again.
ScreenshoterWidget(size) ==
  LET screenshot == GestureDetector(Center(Image("shot", size)))
      selection(pos, dim) == Positioned(Border(1, "black", Sized(Blank, dim)), pos)
      screenshoter(widgets, isSelecting) == DynamicWidget(Stack(<<screenshot>> \o widgets, ~isSelecting, isSelecting))
      first == selection(Dim(2, 3), Dim(4, 3))
  IN StatefulWidget("Screenshoter",
       <<screenshoter(<<screenshot_controls>>, TRUE),
         screenshoter(<<first, screenshot_controls>>, TRUE),
         screenshoter(<<selection(Dim(3, 2), Dim(2, 5)), screenshot_controls>>, TRUE),
         screenshoter(<<first, screenshot_controls, copy_dialog>>, FALSE),
         screenshoter(<<first, screenshot_controls, copy_dialog, Dialog("confirm", 7)>>, FALSE)>>,
       <<{2, 3}, {1, 3, 4}, {1, 2}, {1, 4, 5}, {1}>>)

----------------------------------------------------------------------------
(* tilem and yaft                                                           *)

closeButton == Sized(GestureDetector(Text("X", 1)), Dim(1, 1))
header == Border(1, "black", Row(<<Sized(Text("tilem", 3), Dim(4, -1)), closeButton>>))
Calculator(calc) ==
  StatefulWidget("Calculator",
    <<Cleared(Center(Border(1, "black", Column(
        <<header, Sized([kind |-> "lcd", calc |-> calc, kids |-> <<>>], Dim(7, 4)),
          Sized(Text("keys", 6), Dim(7, -1))>>))))>>,
    <<{}>>)

ErrorDialog ==
  StatelessWidget(Center(Border(1, "black", Cleared(Column(
    <<Text("failed", 9), Row(<<Padding(1, Button("exit"))>>)>>)))))

\* With a ROM, and without one: then the dialog comes up, and its button ends the app.
Tilem ==
  {StatefulWidget("Navigator", <<Stack(<<Calculator(TRUE)>>, TRUE, FALSE)>>, <<{}>>),
   StatefulWidget("Navigator",
     <<Stack(<<Calculator(FALSE)>>, TRUE, FALSE), Stack(<<Calculator(FALSE), ErrorDialog>>, TRUE, FALSE)>>,
     <<{2}, {}>>)}

\* The terminal has what the keyboard leaves, whose layout may change.
Yaft ==
  StatefulWidget("Yaft",
    Each(<<1, 2, 4>>, LAMBDA rows :
      Flex("y", <<1, 0>>, <<Colored("term"), [Text(rows, 9) EXCEPT !.dim.y = rows]>>)),
    <<{2, 3}, {1, 3}, {1, 2}>>)
==============================================================================
