-------------------------- MODULE CoinTableProofs --------------------------
(***************************************************************************)
(* Proofs about CoinTable for a table of any size and any number of        *)
(* objects: its type, the absence of duplicates, what a lookup finds, the  *)
(* fill mode after drawing, and that the array implements the bounded set  *)
(* of CoinSet.                                                             *)
(***************************************************************************)
EXTENDS CoinTable, FiniteSetTheorems, SequenceTheorems, TLAPS

(* What the entries in use hold; the number of coins is the count. *)
TableInv ==
  /\ \A i \in Used : g_coins[i] \in Addr
  /\ NoDuplicates
  /\ IsFiniteSet(Coins) /\ Cardinality(Coins) = g_coinN

(* Wire mode is owed to a draw call in progress. *)
WireOwed == fill = "wire" => \E i \in 1 .. Len(drawing) : drawing[i].wire

(* The inductive invariant. *)
CoinInv == TypeOK /\ TableInv /\ FoundAsConstructed /\ WireOwed

-----------------------------------------------------------------------------
(* The table operations *)

(* CoinAdd keeps the table's type. *)
LEMMA AddType ==
  ASSUME TypeOK, NEW p \in Addr, CoinAdd(p)
  PROVE  /\ g_coins' \in [Index -> Addr \cup {NULL}]
         /\ g_coinN' \in 0 .. CAPACITY
         /\ dropped' \in SUBSET Addr
  BY CapacityAssumption DEF TypeOK, CoinAdd, table, Index

(* CoinDel keeps the table's type. *)
LEMMA DelType ==
  ASSUME TypeOK, NEW p \in Addr, CoinDel(p)
  PROVE  /\ g_coins' \in [Index -> Addr \cup {NULL}]
         /\ g_coinN' \in 0 .. CAPACITY
<1>1. CASE p \notin Coins /\ UNCHANGED table
  BY <1>1 DEF TypeOK, table
<1>2. ASSUME NEW i \in Used, g_coins' = [g_coins EXCEPT ![i] = g_coins[g_coinN - 1]],
             g_coinN' = g_coinN - 1
      PROVE  /\ g_coins' \in [Index -> Addr \cup {NULL}]
             /\ g_coinN' \in 0 .. CAPACITY
  BY <1>2, CapacityAssumption DEF TypeOK, Used, Index
<1>. QED BY <1>1, <1>2 DEF CoinDel

(* CoinAdd adds p, or finds the table full and says so. *)
LEMMA AddEffect ==
  ASSUME TypeOK, TableInv, NEW p \in Addr, CoinAdd(p)
  PROVE  /\ TableInv'
         /\ \/ /\ Coins' = Coins \cup {p} /\ dropped' = dropped
               /\ p \in Coins \/ Cardinality(Coins) < CAPACITY
            \/ Coins' = Coins /\ dropped' = dropped \cup {p}
<1>1. CASE UNCHANGED table
  <2>1. Coins' = Coins /\ TableInv'
    BY <1>1 DEF table, Coins, Used, TableInv, NoDuplicates
  <2>. QED BY <1>1, <2>1, CapacityAssumption DEF CoinAdd, TypeOK, table
<1>2. CASE /\ p \notin Coins /\ g_coinN < CAPACITY
           /\ g_coins' = [g_coins EXCEPT ![g_coinN] = p]
           /\ g_coinN' = g_coinN + 1
           /\ UNCHANGED dropped
  <2>1. g_coinN \in Nat /\ g_coinN \in Index /\ Used \subseteq Index
    BY <1>2, CapacityAssumption DEF TypeOK, Index, Used
  <2>2. Used' = Used \cup {g_coinN} /\ g_coinN \notin Used
    BY <1>2, <2>1 DEF Used
  <2>3. /\ g_coins'[g_coinN] = p
        /\ \A i \in Used : g_coins'[i] = g_coins[i]
    BY <1>2, <2>1, <2>2 DEF TypeOK
  <2>4. Coins' = Coins \cup {p}
    BY <2>2, <2>3 DEF Coins
  <2>5. \A i \in Used' : g_coins'[i] \in Addr
    BY <2>2, <2>3 DEF TableInv
  <2>6. NoDuplicates'
    BY <1>2, <2>2, <2>3 DEF TableInv, NoDuplicates, Coins
  <2>7. IsFiniteSet(Coins') /\ Cardinality(Coins') = g_coinN'
    BY <1>2, <2>4, FS_AddElement DEF TableInv
  <2>. QED BY <1>2, <2>4, <2>5, <2>6, <2>7 DEF TableInv
<1>. QED BY <1>1, <1>2 DEF CoinAdd

(* CoinDel takes p out and nothing else. *)
LEMMA DelEffect ==
  ASSUME TypeOK, TableInv, NEW p \in Addr, CoinDel(p)
  PROVE  TableInv' /\ Coins' = Coins \ {p}
<1>1. CASE p \notin Coins /\ UNCHANGED table
  BY <1>1 DEF table, Coins, Used, TableInv, NoDuplicates
<1>2. CASE p \in Coins
  <2>1. PICK i \in Used : /\ g_coins[i] = p
                          /\ g_coins' = [g_coins EXCEPT ![i] = g_coins[g_coinN - 1]]
                          /\ g_coinN' = g_coinN - 1
    BY <1>2 DEF CoinDel
  <2>. DEFINE last == g_coinN - 1
  <2>2. g_coinN \in Nat \ {0} /\ Used \subseteq Index /\ last \in Used
    BY <2>1, CapacityAssumption DEF TypeOK, Index, Used
  <2>3. Used' = Used \ {last}
    BY <2>1, <2>2 DEF Used
  <2>4. /\ g_coins'[i] = g_coins[last]
        /\ \A j \in Used : j # i => g_coins'[j] = g_coins[j]
    BY <2>1, <2>2 DEF TypeOK
  <2>. HIDE DEF last
  <2>5. \A j, k \in Used : g_coins[j] = g_coins[k] => j = k
    BY DEF TableInv, NoDuplicates
  <2>6. Coins' \subseteq Coins \ {p}
    BY <2>1, <2>2, <2>3, <2>4, <2>5 DEF Coins
  <2>7. Coins \ {p} \subseteq Coins'
    <3>1. SUFFICES ASSUME NEW j \in Used, j # i
                   PROVE  g_coins[j] \in Coins'
      BY <2>1 DEF Coins
    <3>2. CASE j = last
      BY <2>2, <2>3, <2>4, <3>1, <3>2 DEF Coins
    <3>3. CASE j # last
      BY <2>3, <2>4, <3>1, <3>3 DEF Coins
    <3>. QED BY <3>2, <3>3
  <2>8. Coins' = Coins \ {p}
    BY <2>6, <2>7
  <2>9. \A j \in Used' : g_coins'[j] \in Addr
    BY <2>2, <2>3, <2>4 DEF TableInv
  <2>10. NoDuplicates'
    BY <2>1, <2>2, <2>3, <2>4, <2>5 DEF NoDuplicates
  <2>11. IsFiniteSet(Coins') /\ Cardinality(Coins') = g_coinN'
    BY <1>2, <2>1, <2>2, <2>8, FS_RemoveElement DEF TableInv
  <2>. QED BY <2>8, <2>9, <2>10, <2>11 DEF TableInv
<1>3. p \notin Coins => UNCHANGED table
  BY DEF CoinDel, Coins
<1>. QED BY <1>1, <1>2, <1>3

-----------------------------------------------------------------------------
(* The inductive invariant *)

(* The initial state satisfies the invariant: no entry is in use. *)
LEMMA InitCoin == Init => CoinInv
<1>. SUFFICES ASSUME Init PROVE CoinInv
  OBVIOUS
<1>1. Used = {} /\ Coins = {}
  BY DEF Init, Used, Coins
<1>2. TypeOK
  BY CapacityAssumption DEF Init, TypeOK, Index
<1>3. TableInv
  BY <1>1, FS_EmptySet DEF Init, TableInv, NoDuplicates
<1>4. FoundAsConstructed /\ WireOwed
  BY <1>1 DEF Init, FoundAsConstructed, WireOwed
<1>. QED BY <1>2, <1>3, <1>4 DEF CoinInv

(* Constructing an object keeps the invariant, and changes the set of coins *)
(* by at most the object's address.                                         *)
LEMMA CtorStep ==
  ASSUME CoinInv, PetCtorHook
  PROVE  CoinInv' /\ [Abstract!Next]_Coins
<1>1. PICK p \in Addr :
        /\ object[p] = "none"
        /\ \/ object' = [object EXCEPT ![p] = "coin"] /\ CoinAdd(p)
           \/ object' = [object EXCEPT ![p] = "other"] /\ CoinDel(p) /\ UNCHANGED dropped
           \/ object' = [object EXCEPT ![p] = "unnamed"] /\ UNCHANGED <<table, dropped>>
        /\ UNCHANGED <<fill, drawing>>
  BY DEF PetCtorHook
<1>2. WireOwed'
  BY <1>1 DEF CoinInv, WireOwed
<1>3. CASE object' = [object EXCEPT ![p] = "coin"] /\ CoinAdd(p)
  <2>1. TypeOK'
    BY <1>1, <1>3, AddType DEF CoinInv, TypeOK
  <2>2. /\ TableInv'
        /\ \/ /\ Coins' = Coins \cup {p} /\ dropped' = dropped
              /\ p \in Coins \/ Cardinality(Coins) < CAPACITY
           \/ Coins' = Coins /\ dropped' = dropped \cup {p}
    BY <1>3, AddEffect DEF CoinInv
  <2>3. FoundAsConstructed'
    BY <1>3, <2>2 DEF CoinInv, TypeOK, FoundAsConstructed, IsCoin
  <2>4. Abstract!Add(p) \/ Coins' = Coins
    BY <2>2 DEF Abstract!Add, Cardinality, Abstract!Cardinality
  <2>5. [Abstract!Next]_Coins
    BY <2>4 DEF Abstract!Next
  <2>. QED BY <1>2, <2>1, <2>2, <2>3, <2>5 DEF CoinInv
<1>4. CASE object' = [object EXCEPT ![p] = "other"] /\ CoinDel(p) /\ UNCHANGED dropped
  <2>1. TypeOK'
    BY <1>1, <1>4, DelType DEF CoinInv, TypeOK
  <2>2. TableInv' /\ Coins' = Coins \ {p}
    BY <1>4, DelEffect DEF CoinInv
  <2>3. FoundAsConstructed'
    BY <1>4, <2>2 DEF CoinInv, TypeOK, FoundAsConstructed, IsCoin
  <2>4. [Abstract!Next]_Coins
    BY <2>2 DEF Abstract!Next, Abstract!Del
  <2>. QED BY <1>2, <2>1, <2>2, <2>3, <2>4 DEF CoinInv
<1>5. CASE object' = [object EXCEPT ![p] = "unnamed"] /\ UNCHANGED <<table, dropped>>
  <2>1. TypeOK'
    BY <1>1, <1>5 DEF CoinInv, TypeOK, table
  <2>2. TableInv' /\ Coins' = Coins
    BY <1>5 DEF CoinInv, TableInv, NoDuplicates, Coins, Used, table
  <2>3. FoundAsConstructed'
    BY <1>5, <2>2 DEF CoinInv, TypeOK, FoundAsConstructed, IsCoin
  <2>. QED BY <1>2, <2>1, <2>2, <2>3 DEF CoinInv
<1>. QED BY <1>1, <1>3, <1>4, <1>5

(* Destroying an object keeps the invariant; the table does not notice. *)
LEMMA DestroyStep ==
  ASSUME CoinInv, PetDestroyed
  PROVE  CoinInv' /\ Coins' = Coins
<1>1. PICK p \in Addr : /\ object' = [object EXCEPT ![p] = "none"]
                        /\ dropped' = dropped \ {p}
                        /\ UNCHANGED <<table, fill, drawing>>
  BY DEF PetDestroyed
<1>2. TypeOK'
  BY <1>1 DEF CoinInv, TypeOK, table
<1>3. TableInv' /\ Coins' = Coins
  BY <1>1 DEF CoinInv, TableInv, NoDuplicates, Coins, Used, table
<1>4. FoundAsConstructed'
  BY <1>1, <1>3 DEF CoinInv, TypeOK, FoundAsConstructed, IsCoin
<1>5. WireOwed'
  BY <1>1 DEF CoinInv, WireOwed
<1>. QED BY <1>2, <1>3, <1>4, <1>5 DEF CoinInv

(* A sequence without its last element. *)
LEMMA DropLast ==
  ASSUME NEW R, NEW s \in Seq(R), Len(s) \in Nat \ {0}
  PROVE  /\ SubSeq(s, 1, Len(s) - 1) \in Seq(R)
         /\ Len(SubSeq(s, 1, Len(s) - 1)) = Len(s) - 1
         /\ \A i \in 1 .. Len(s) - 1 : SubSeq(s, 1, Len(s) - 1)[i] = s[i]
<1>1. PICK m \in Nat : m = Len(s) - 1
  OBVIOUS
<1>2. \A i \in 1 .. m : s[i] \in R
  BY <1>1
<1>3. /\ SubSeq(s, 1, m) \in Seq(R)
      /\ Len(SubSeq(s, 1, m)) = IF 1 <= m THEN m - 1 + 1 ELSE 0
      /\ \A i \in 1 .. m - 1 + 1 : SubSeq(s, 1, m)[i] = s[1 + i - 1]
  BY <1>2, SubSeqProperties
<1>. QED BY <1>1, <1>3

(* Starting a draw call keeps the invariant. *)
LEMMA BeginStep ==
  ASSUME CoinInv, NEW p \in Addr \cup {NULL}, NEW wire \in BOOLEAN, BeginDraw(p, wire)
  PROVE  CoinInv' /\ Coins' = Coins
<1>1. TypeOK'
  BY DEF CoinInv, TypeOK, BeginDraw, table
<1>2. TableInv' /\ Coins' = Coins
  BY DEF CoinInv, TableInv, NoDuplicates, Coins, Used, table, BeginDraw
<1>3. FoundAsConstructed'
  BY <1>2 DEF CoinInv, FoundAsConstructed, IsCoin, BeginDraw
<1>4. WireOwed'
  <2>1. /\ Len(drawing') = Len(drawing) + 1 /\ Len(drawing) \in Nat
        /\ drawing'[Len(drawing) + 1] = [this |-> p, wire |-> wire]
        /\ \A i \in 1 .. Len(drawing) : drawing'[i] = drawing[i]
    BY DEF CoinInv, TypeOK, BeginDraw
  <2>2. CASE wire
    <3>1. drawing'[Len(drawing) + 1].wire
      BY <2>1, <2>2
    <3>. QED BY <2>1, <3>1 DEF WireOwed
  <2>3. CASE ~ wire
    <3>1. fill' = fill
      BY <2>3 DEF BeginDraw
    <3>. QED BY <2>1, <3>1 DEF CoinInv, WireOwed
  <2>. QED BY <2>2, <2>3
<1>. QED BY <1>1, <1>2, <1>3, <1>4 DEF CoinInv

(* Ending a draw call keeps the invariant: if the call was not a wire frame, *)
(* the one that owes the solid mode is further out.                         *)
LEMMA EndStep ==
  ASSUME CoinInv, EndDraw
  PROVE  CoinInv' /\ Coins' = Coins
<1>. DEFINE n == Len(drawing)
<1>1. drawing \in Seq([this : Addr \cup {NULL}, wire : BOOLEAN]) /\ n \in Nat \ {0}
  BY DEF CoinInv, TypeOK, EndDraw
<1>2. /\ drawing' \in Seq([this : Addr \cup {NULL}, wire : BOOLEAN])
      /\ Len(drawing') = n - 1
      /\ \A i \in 1 .. n - 1 : drawing'[i] = drawing[i]
  <2>1. drawing' = SubSeq(drawing, 1, n - 1)
    BY DEF EndDraw
  <2>2. /\ SubSeq(drawing, 1, n - 1) \in Seq([this : Addr \cup {NULL}, wire : BOOLEAN])
        /\ Len(SubSeq(drawing, 1, n - 1)) = n - 1
        /\ \A i \in 1 .. n - 1 : SubSeq(drawing, 1, n - 1)[i] = drawing[i]
    BY <1>1, DropLast
  <2>. QED BY <2>1, <2>2
<1>3. TypeOK'
  BY <1>2 DEF CoinInv, TypeOK, EndDraw, table
<1>4. TableInv' /\ Coins' = Coins
  BY DEF CoinInv, TableInv, NoDuplicates, Coins, Used, table, EndDraw
<1>5. FoundAsConstructed'
  BY <1>4 DEF CoinInv, FoundAsConstructed, IsCoin, EndDraw
<1>6. WireOwed'
  <2>1. SUFFICES ASSUME fill' = "wire"
                 PROVE  \E i \in 1 .. n - 1 : drawing[i].wire
    BY <1>2 DEF WireOwed
  <2>2. ~ drawing[n].wire /\ fill = "wire"
    BY <2>1 DEF EndDraw
  <2>3. PICK i \in 1 .. n : drawing[i].wire
    BY <2>2 DEF CoinInv, WireOwed
  <2>4. i # n
    BY <2>2, <2>3
  <2>. QED BY <1>1, <2>3, <2>4
<1>. QED BY <1>3, <1>4, <1>5, <1>6 DEF CoinInv

(* Every step keeps the invariant and is a step of the bounded set. *)
LEMMA NextCoin == CoinInv /\ [Next]_vars => CoinInv' /\ [Abstract!Next]_Coins
<1>. SUFFICES ASSUME CoinInv, [Next]_vars PROVE CoinInv' /\ [Abstract!Next]_Coins
  OBVIOUS
<1>1. CASE UNCHANGED vars
  <2>1. Coins' = Coins /\ TableInv'
    BY <1>1 DEF vars, table, CoinInv, TableInv, NoDuplicates, Coins, Used
  <2>2. TypeOK' /\ WireOwed'
    BY <1>1 DEF vars, table, CoinInv, TypeOK, WireOwed
  <2>3. FoundAsConstructed'
    BY <1>1, <2>1 DEF vars, CoinInv, FoundAsConstructed, IsCoin
  <2>. QED BY <2>1, <2>2, <2>3 DEF CoinInv
<1>2. CASE PetCtorHook
  BY <1>2, CtorStep
<1>3. CASE PetDestroyed
  BY <1>3, DestroyStep
<1>4. CASE PetRenderHook
  <2>1. PICK p \in Addr : BeginDraw(p, IsCoin(p))
    BY <1>4 DEF PetRenderHook
  <2>2. IsCoin(p) \in BOOLEAN
    BY DEF IsCoin
  <2>3. CoinInv' /\ Coins' = Coins
    BY <2>1, <2>2, BeginStep
  <2>. QED BY <2>3
<1>5. CASE AlwaysWire
  BY <1>5, BeginStep DEF AlwaysWire
<1>6. CASE EndDraw
  BY <1>6, EndStep
<1>. QED BY <1>1, <1>2, <1>3, <1>4, <1>5, <1>6 DEF Next

(* The invariant holds in every state. *)
THEOREM CoinInvariant == Spec => []CoinInv
<1>. QED BY InitCoin, NextCoin, PTL DEF Spec

-----------------------------------------------------------------------------
(* What follows *)

(* The count stays within g_coins, whatever is constructed and destroyed. *)
THEOREM TableTyped == Spec => []TypeOK
<1>1. CoinInv => TypeOK
  BY DEF CoinInv
<1>. QED BY <1>1, CoinInvariant, PTL

(* An address is never in the table twice. *)
THEOREM TableNoDuplicates == Spec => []NoDuplicates
<1>1. CoinInv => NoDuplicates
  BY DEF CoinInv, TableInv
<1>. QED BY <1>1, CoinInvariant, PTL

(* The drawing hooks find a coin unless the table was full when it was      *)
(* constructed, and take nothing else for a coin, however addresses are     *)
(* reused: the unnamed and the destroyed are the only stale entries.        *)
THEOREM LookupRight == Spec => []FoundAsConstructed
<1>1. CoinInv => FoundAsConstructed
  BY DEF CoinInv
<1>. QED BY <1>1, CoinInvariant, PTL

(* After any nest of draw calls the device is back in solid mode, even if   *)
(* an object was reconstructed under another name while it was drawn.       *)
THEOREM FillAlwaysRestored == Spec => []FillRestored
<1>1. CoinInv => FillRestored
  BY DEF CoinInv, TypeOK, WireOwed, FillRestored
<1>. QED BY <1>1, CoinInvariant, PTL

(* The array with its count and its swap on delete implements the set.      *)
THEOREM TableImplementsSet == Spec => RefinesCoinSet
<1>1. Init => Abstract!Init
  BY DEF Init, Abstract!Init, Coins, Used
<1>. QED BY <1>1, CoinInvariant, NextCoin, PTL DEF Spec, RefinesCoinSet, Abstract!Spec
=============================================================================
