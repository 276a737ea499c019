------------------------ MODULE MCBrowserController ------------------------
(* Small instances of BrowserController: a temporary mode and main-profile. *)
EXTENDS BrowserController
=============================================================================
