-------------------------- MODULE MCBrowserSession --------------------------
(* Two documents; the first of them makes two of the calls. *)
EXTENDS BrowserSession, TLC

CONSTANTS d1, d2, c1, c2

OneTab == {d1}
TwoTabs == {d1, d2}
MCOwner == c1 :> d1 @@ c2 :> d1
=============================================================================
