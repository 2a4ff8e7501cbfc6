--------------------------- MODULE MCBrowserView ---------------------------
(***************************************************************************)
(* Model-checking instance of BrowserView: one song, one page.             *)
(***************************************************************************)
EXTENDS BrowserView

CONSTANTS a, p1
OneSong == {a}
OnePage == {p1}
=============================================================================
