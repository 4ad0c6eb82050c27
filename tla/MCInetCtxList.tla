--------------------------- MODULE MCInetCtxList ---------------------------
(* TLC instance of InetCtxList.  No symmetry: a refinement is checked. *)
EXTENDS InetCtxList

(* Once freed memory was touched or a handle missed, nothing more is asked. *)
Unharmed == ~harm
=============================================================================
