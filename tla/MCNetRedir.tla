----------------------------- MODULE MCNetRedir -----------------------------
(* TLC instance of NetRedir.  Of the free values that nothing remembers it   *)
(* is enough to let WinINet choose the lowest one.                           *)
EXTENDS NetRedir, TLC

LowestFree(S) == {h \in S : \A g \in S : h <= g}

SymmetryThread == Permutations(Thread)

(* Bound: handles of a kind the client has open at a time. *)
MaxOpen == [session |-> 1, connect |-> 2, request |-> 2]
Few == \A k \in Kind : Cardinality({h \in Handle : held[h] # NULL /\ live[h] = k}) <= MaxOpen[k]

(* Bound: what is explored after a value has come back, with fewer handles   *)
(* and without headers.                                                      *)
FewLater ==
  Few /\ (stale => /\ Cardinality({h \in Handle : held[h] # NULL}) <= 4
                  /\ moved = {} /\ \A h \in Handle : hdrs[h] = 0)

(* A run whose properties all end when a value comes back, or a request that *)
(* is waited on is closed, goes no further.                                  *)
FewUndisturbed == Few /\ ~stale /\ ~pulled

(* Handle values and contexts are told apart only by what refers to them, so *)
(* states that differ in their names alone are one: a context is its place   *)
(* in the list, and a handle the first place that refers to it, or what is   *)
(* known of it if none does.                                                 *)
Threads == SetToSeq(Thread)
Places ==
  FlattenSeq([i \in 1 .. Len(list) |->
      LET c == list[i] IN <<hOpen[c], hConnect[c], hRequest[c], hNewConnect[c], hNewRequest[c]>>])
    \o FlattenSeq([i \in 1 .. Len(Threads) |-> <<call[Threads[i]].h, call[Threads[i]].target>>])

UpToNames ==
  LET places == Places
      P == DOMAIN places
      named == {places[i] : i \in P}
      name == [h \in Handle \cup {NULL} |->
                 IF h = NULL THEN <<>>
                 ELSE IF h \in named
                      THEN <<CHOOSE i \in P : places[i] = h /\ \A j \in 1 .. i - 1 : places[j] # h>>
                      ELSE <<live[h], held[h]>>]
      known == [h \in Handle |->
                  <<live[h], held[h], hdrs[h], h \in moved, name[parent[h]], name[origin[h]]>>]
      others == {h \in Handle \ named : live[h] # "free"}
      place == [c \in Ctx \cup {NULL} |-> SelectInSeq(list, LAMBDA d : d = c)]
  IN <<[i \in 1 .. Len(list) |-> <<nHeaders[list[i]], list[i] \in stranded>>],
       [i \in P |-> name[places[i]]],
       {<<name[h], known[h]>> : h \in named \ {NULL}},
       {<<known[h], Cardinality({g \in others : known[g] = known[h]})>> : h \in others},
       [t \in Thread |-> <<call[t].op, call[t].pc, place[call[t].ctx],
                           [i \in DOMAIN call[t].frames |-> place[call[t].frames[i]]]>>],
       stale, pulled>>
=============================================================================
