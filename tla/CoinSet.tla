------------------------------- MODULE CoinSet -------------------------------
(***************************************************************************)
(* What the coin table of src/src/hooks/comctl32/dynamic_patch.c promises  *)
(* the drawing hooks: a set of at most CAPACITY objects, to which an object *)
(* is added if there is room and from which any object can be taken.       *)
(***************************************************************************)
EXTENDS FiniteSets, Naturals

CONSTANTS Addr, CAPACITY

VARIABLE coins

TypeOK == coins \in SUBSET Addr

Init == coins = {}

Add(p) ==
  /\ p \in coins \/ Cardinality(coins) < CAPACITY
  /\ coins' = coins \cup {p}

Del(p) == coins' = coins \ {p}

Next == \E p \in Addr : Add(p) \/ Del(p)

Spec == Init /\ [][Next]_coins
=============================================================================
