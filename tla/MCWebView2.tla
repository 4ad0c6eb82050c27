----------------------------- MODULE MCWebView2 -----------------------------
(* TLC instance of WebView2: the run takes every constant from its .cfg. *)
EXTENDS WebView2
=============================================================================
