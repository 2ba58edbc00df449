-------------------------- MODULE MCBrowserSession --------------------------
(***************************************************************************)
(* Two pages for TLC, one of which makes two calls at the same time.       *)
(***************************************************************************)
EXTENDS BrowserSession, TLC

CONSTANTS c1, c2, c3, p1, p2

MCCalls == {c1, c2, c3}
MCPage == c1 :> p1 @@ c2 :> p1 @@ c3 :> p2
MCKinds == c1 :> {"any"} @@ c2 :> {"any"} @@ c3 :> {"login", "logout"}
=============================================================================
