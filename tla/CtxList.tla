------------------------------- MODULE CtxList -------------------------------
(***************************************************************************)
(* What the list of contexts of src/src/hooks/wininet/netredir.c promises  *)
(* the hooks: a sequence without repetitions that grows at its end and     *)
(* from which any one element may be taken; NetRedir is built on it.  The  *)
(* promise ends (Lose) when operations overlap that the code leaves        *)
(* unlocked.                                                               *)
(***************************************************************************)
EXTENDS SequencesExt

CONSTANTS Ctx, Lost

VARIABLES list

Init == list = <<>>

Insert(c) == list # Lost /\ c \notin ToSet(list) /\ list' = Append(list, c)
Delete(c) ==
  /\ list # Lost
  /\ \E i \in DOMAIN list : list[i] = c /\ list' = RemoveAt(list, i)
Lose == list # Lost /\ list' = Lost

Next == Lose \/ \E c \in Ctx : Insert(c) \/ Delete(c)

Spec == Init /\ [][Next]_list
=============================================================================
