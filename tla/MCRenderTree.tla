---------------------------- MODULE MCRenderTree ----------------------------
(***************************************************************************)
(* RenderTree for the screens of all apps, on a frame buffer of 16 by 20   *)
(* cells.                                                                  *)
(***************************************************************************)
EXTENDS RenderTree, AppScreens

MCSize == Dim(16, 20)
MCScreens == {Launcher, LockscreenWidget, ScreenshoterWidget(MCSize), Yaft} \cup Tilem
==============================================================================
