----------------------------- MODULE CoinTable -----------------------------
(***************************************************************************)
(* The coin wireframe of src/src/hooks/comctl32/dynamic_patch.c.           *)
(*                                                                         *)
(* The constructor hook of the game's PetBody objects notes the addresses  *)
(* of those whose name contains "coin" in g_coins; the drawing hooks look  *)
(* an address up there and draw what they find as a wire frame.  Nothing   *)
(* hooks the destructor: an address stays noted until an object with       *)
(* another name is constructed there.  Drawing may nest, as the original   *)
(* draw functions may draw parts.                                          *)
(*                                                                         *)
(* All of this runs on the game's render thread.  Left out are the names,  *)
(* the log of names seen and the checks that the device's pointers can be  *)
(* read: the device is always there.                                       *)
(***************************************************************************)
EXTENDS FiniteSets, Sequences, Integers

CONSTANTS
  Addr,           \* addresses the game may construct a PetBody at
  NULL,           \* the value of an array entry never written
  CAPACITY,       \* entries of g_coins
  MaxDepth        \* bound: draw calls inside draw calls

ASSUME CapacityAssumption == CAPACITY \in Nat /\ MaxDepth \in Nat
ASSUME AddrAssumption == NULL \notin Addr

VARIABLES
  g_coins, g_coinN,
  object,         \* what the live PetBody at an address is, "none" without one
  dropped,        \* live coins that found the table full
  fill,           \* the device's fill mode
  drawing         \* the hooked draw calls in progress, outermost first

table == <<g_coins, g_coinN>>
vars == <<table, object, dropped, fill, drawing>>

Index == 0 .. CAPACITY - 1
Used == 0 .. g_coinN - 1
Coins == {g_coins[i] : i \in Used}

(* Type correctness; the count never exceeds the array. *)
TypeOK ==
  /\ g_coins \in [Index -> Addr \cup {NULL}]
  /\ g_coinN \in 0 .. CAPACITY
  /\ object \in [Addr -> {"none", "coin", "other", "unnamed"}]
  /\ dropped \in SUBSET Addr
  /\ fill \in {"solid", "wire"}
  /\ drawing \in Seq([this : Addr \cup {NULL}, wire : BOOLEAN])

Init ==
  /\ g_coins = [i \in Index |-> NULL]
  /\ g_coinN = 0
  /\ object = [p \in Addr |-> "none"]
  /\ dropped = {}
  /\ fill = "solid"
  /\ drawing = <<>>

-----------------------------------------------------------------------------
(* Mutant: the array is taken to have one entry more. *)
Bug_CoinAddPastEnd(p) ==
  \/ p \in Coins /\ UNCHANGED <<table, dropped>>
  \/ /\ p \notin Coins /\ g_coinN <= CAPACITY
     /\ g_coins' = [g_coins EXCEPT ![g_coinN] = p]
     /\ g_coinN' = g_coinN + 1
     /\ UNCHANGED dropped
  \/ /\ p \notin Coins /\ g_coinN > CAPACITY
     /\ dropped' = dropped \cup {p}
     /\ UNCHANGED table

(* Already there; room; no room, and the coin is not noted. *)
CoinAdd(p) ==
  \/ p \in Coins /\ UNCHANGED <<table, dropped>>
  \/ /\ p \notin Coins /\ g_coinN < CAPACITY
     /\ g_coins' = [g_coins EXCEPT ![g_coinN] = p]
     /\ g_coinN' = g_coinN + 1
     /\ UNCHANGED dropped
  \/ /\ p \notin Coins /\ g_coinN = CAPACITY
     /\ dropped' = dropped \cup {p}
     /\ UNCHANGED table

(* Mutant: the count is decremented after it was used as the index. *)
Bug_CoinDelDecrementsLate(p) ==
  \/ p \notin Coins /\ UNCHANGED table
  \/ \E i \in Used :
       /\ g_coins[i] = p
       /\ g_coins' = [g_coins EXCEPT ![i] =
                        IF g_coinN < CAPACITY THEN g_coins[g_coinN] ELSE NULL]
       /\ g_coinN' = g_coinN - 1

(* Mutant: the table shrinks but the last entry is not moved down. *)
Bug_CoinDelLosesLast(p) ==
  \/ p \notin Coins /\ UNCHANGED table
  \/ p \in Coins /\ g_coinN' = g_coinN - 1 /\ UNCHANGED g_coins

(* The last entry takes the place of the first one that is p. *)
CoinDel(p) ==
  \/ p \notin Coins /\ UNCHANGED table
  \/ \E i \in Used :
       /\ g_coins[i] = p /\ \A j \in 0 .. i - 1 : g_coins[j] # p
       /\ g_coins' = [g_coins EXCEPT ![i] = g_coins[g_coinN - 1]]
       /\ g_coinN' = g_coinN - 1

IsCoin(p) == p \in Coins

(* The hook sees the name before the constructor runs.  An object without a *)
(* readable name leaves the table alone.                                     *)
PetCtorHook ==
  \E p \in Addr :
    /\ object[p] = "none"
    /\ \/ object' = [object EXCEPT ![p] = "coin"] /\ CoinAdd(p)
       \/ object' = [object EXCEPT ![p] = "other"] /\ CoinDel(p) /\ UNCHANGED dropped
       \/ object' = [object EXCEPT ![p] = "unnamed"] /\ UNCHANGED <<table, dropped>>
    /\ UNCHANGED <<fill, drawing>>

(* The game destroys an object; no hook hears of it. *)
PetDestroyed ==
  \E p \in Addr :
    /\ object[p] # "none"
    /\ object' = [object EXCEPT ![p] = "none"]
    /\ dropped' = dropped \ {p}
    /\ UNCHANGED <<table, fill, drawing>>

(* A draw call that sets the wire frame does so before the original runs. *)
BeginDraw(p, wire) ==
  /\ Len(drawing) < MaxDepth
  /\ drawing' = Append(drawing, [this |-> p, wire |-> wire])
  /\ fill' = IF wire THEN "wire" ELSE fill
  /\ UNCHANGED <<table, object, dropped>>

PetRenderHook == \E p \in Addr : object[p] # "none" /\ BeginDraw(p, IsCoin(p))

(* Ground items, the club and the wind arrow are always wire frames. *)
AlwaysWire == BeginDraw(NULL, TRUE)

(* Mutant: the address is looked up again after the original has run. *)
Bug_EndDrawLooksUpAgain ==
  /\ drawing # <<>>
  /\ LET d == drawing[Len(drawing)]
     IN fill' = IF d.this = NULL \/ IsCoin(d.this) THEN "solid" ELSE fill
  /\ drawing' = SubSeq(drawing, 1, Len(drawing) - 1)
  /\ UNCHANGED <<table, object, dropped>>

(* The original returns: what set the wire frame sets the solid mode. *)
EndDraw ==
  /\ drawing # <<>>
  /\ fill' = IF drawing[Len(drawing)].wire THEN "solid" ELSE fill
  /\ drawing' = SubSeq(drawing, 1, Len(drawing) - 1)
  /\ UNCHANGED <<table, object, dropped>>

Next == PetCtorHook \/ PetDestroyed \/ PetRenderHook \/ AlwaysWire \/ EndDraw

Spec == Init /\ [][Next]_vars

-----------------------------------------------------------------------------
(* Properties *)

(* No address is in the table twice, however often it is reused: one        *)
(* CoinDel is enough to forget it.                                          *)
NoDuplicates == \A i, j \in Used : g_coins[i] = g_coins[j] => i = j

(* An address is looked up as what was last constructed there: a coin is    *)
(* found unless the table was full, and no object with another name is.     *)
FoundAsConstructed ==
  \A p \in Addr : /\ object[p] = "coin" => IsCoin(p) \/ p \in dropped
                  /\ object[p] = "other" => ~ IsCoin(p)

(* When the last draw call has returned, the device is back in solid mode,  *)
(* whatever was constructed and drawn in between.                           *)
FillRestored == drawing = <<>> => fill = "solid"

(* The array with its count and its swap on delete is a bounded set.        *)
Abstract == INSTANCE CoinSet WITH coins <- Coins
RefinesCoinSet == Abstract!Spec
=============================================================================
