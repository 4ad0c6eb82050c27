---------------------------- MODULE MCAntiCheat ----------------------------
(* TLC instance of AntiCheat: the run takes every constant from its .cfg. *)
EXTENDS AntiCheat
=============================================================================
