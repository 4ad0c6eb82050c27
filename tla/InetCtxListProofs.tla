-------------------------- MODULE InetCtxListProofs --------------------------
(***************************************************************************)
(* Proofs about InetCtxList for every set of threads and of contexts: the  *)
(* state keeps its type, and as long as no operations overlapped that must *)
(* not, no freed memory is touched, no search misses its context, and the  *)
(* pointers are the sequence of CtxList.                                   *)
(***************************************************************************)
EXTENDS InetCtxList, FiniteSetTheorems, WellFoundedInduction, SequenceTheorems, TLAPS

-----------------------------------------------------------------------------
(* Type correctness *)

Pcs == {"outside", "walk", "step", "link", "back", "head", "search", "test", "after", "tieAfter",
        "before", "tieBefore", "destruct", "free", "lost"}
Operation ==
  [op : {"none", "insert", "find", "close"}, pc : Pcs, ctx : Ctx \cup {NULL},
   node : Ctx \cup {Root, NULL}]

(* What an operation may be at, and what it then holds. *)
Shape(c) ==
  /\ c.op = "insert" <=> c.pc \in {"walk", "step", "link", "back"}
  /\ c.op = "none" <=> c.pc \in {"outside", "lost"}
  /\ c.op = "find" => c.pc \in {"head", "search"}
  /\ c.op # "none" => c.ctx \in Ctx
  /\ c.op = "insert" => c.node # NULL \/ c.pc = "link"

(* TypeOK but for what it says of the null pointer. *)
NodeType ==
  /\ next \in [Ctx \cup {Root} -> Ctx \cup {NULL}]
  /\ prev \in [Ctx -> Ctx \cup {Root, NULL}]
  /\ heap \in [Ctx -> BOOLEAN]
  /\ owner \in [Ctx -> Thread \cup {NULL}]
CallType ==
  /\ call \in [Thread -> Operation]
  /\ \A t \in Thread : Shape(call[t])
ListType == NodeType /\ CallType /\ mixed \in BOOLEAN /\ harm \in BOOLEAN

LEMMA OutsideType ==
  /\ Outside \in Operation /\ Shape(Outside)
  /\ [Outside EXCEPT !.pc = "lost"] \in Operation /\ Shape([Outside EXCEPT !.pc = "lost"])
BY DEF Outside, Operation, Pcs, Shape

LEMMA ListTypeInit == Init => ListType
<1>. SUFFICES ASSUME Init PROVE ListType
  OBVIOUS
<1>1. NodeType
  BY DEF Init, NodeType
<1>2. CallType
  BY OutsideType DEF Init, CallType
<1>. QED BY <1>1, <1>2 DEF Init, ListType

LEMMA Holds ==
  ASSUME CallType, NEW t \in Thread
  PROVE  /\ call[t] \in Operation /\ Shape(call[t])
         /\ call[t].pc \in Pcs /\ call[t].node \in Ctx \cup {Root, NULL}
         /\ call[t].ctx \in Ctx \cup {NULL}
         /\ call[t].pc \notin {"outside", "lost"} => call[t].ctx \in Ctx
BY DEF CallType, Operation, Shape

LEMMA GoType ==
  ASSUME CallType, NEW t \in Thread, NEW c \in Operation, Shape(c), Go(t, c)
  PROVE  CallType'
BY DEF CallType, Go

(* A step that keeps an operation's kind and context. *)
LEMMA StepType ==
  ASSUME CallType, NEW t \in Thread, NEW p \in Pcs, NEW n \in Ctx \cup {Root, NULL},
         Shape([call[t] EXCEPT !.pc = p, !.node = n])
  PROVE  /\ Go(t, [call[t] EXCEPT !.pc = p, !.node = n]) => CallType'
         /\ n = call[t].node /\ Go(t, [call[t] EXCEPT !.pc = p]) => CallType'
         /\ p = call[t].pc /\ Go(t, [call[t] EXCEPT !.node = n]) => CallType'
<1>. DEFINE c == [call[t] EXCEPT !.pc = p, !.node = n]
<1>1. c \in Operation
  BY Holds DEF Operation
<1>2. n = call[t].node => [call[t] EXCEPT !.pc = p] = c
  BY Holds DEF Operation
<1>3. p = call[t].pc => [call[t] EXCEPT !.node = n] = c
  BY Holds DEF Operation
<1>4. Go(t, c) => CallType'
  <2>. HIDE DEF c
  <2>1. Shape(c)
    BY DEF c
  <2>. QED BY <1>1, <2>1, GoType
<1>. QED BY <1>2, <1>3, <1>4

Removing(t) ==
  Test(t) \/ TestAfter(t) \/ UnlinkAfter(t) \/ TestBefore(t) \/ UnlinkBefore(t) \/ Destruct(t)

LEMMA ListTypeNext == ListType /\ [Next]_vars => ListType'
<1>. SUFFICES ASSUME ListType, [Next]_vars PROVE ListType'
  OBVIOUS
<1>. USE DEF ListType
<1>0. CASE UNCHANGED vars
  BY <1>0 DEF vars, nodes, NodeType, CallType
<1>1. ASSUME NEW t \in Thread, NEW c \in Ctx, createInetCtx(t, c) PROVE ListType'
  <2>. DEFINE r == [op |-> "insert", pc |-> "walk", ctx |-> c, node |-> Root]
  <2>1. r \in Operation /\ Shape(r)
    BY ListAssumption DEF Operation, Pcs, Shape
  <2>2. Go(t, r)
    BY <1>1 DEF createInetCtx
  <2>3. CallType'
    <3>. HIDE DEF r
    <3>. QED BY <2>1, <2>2, GoType
  <2>4. NodeType'
    BY <1>1 DEF createInetCtx, NodeType
  <2>5. mixed' \in BOOLEAN /\ harm' \in BOOLEAN
    BY <1>1, Zenon DEF createInetCtx, Meets
  <2>. QED BY <2>3, <2>4, <2>5
<1>2. ASSUME NEW t \in Thread, Walk(t) \/ Step(t) PROVE ListType'
  <2>. DEFINE n == next[call[t].node]
  <2>1. call[t].op = "insert" /\ call[t].pc \in {"walk", "step"} /\ call[t].node # NULL
    BY <1>2, Holds DEF Walk, Step, Shape
  <2>2. n \in Ctx \cup {NULL}
    BY <2>1, Holds DEF NodeType
  <2>3. PICK p \in {"walk", "step", "link"}, m \in Ctx \cup {Root, NULL} :
          /\ m # NULL \/ p = "link"
          /\ \/ Go(t, [call[t] EXCEPT !.node = m, !.pc = p])
             \/ m = call[t].node /\ Go(t, [call[t] EXCEPT !.pc = p])
             \/ p = call[t].pc /\ Go(t, [call[t] EXCEPT !.node = m])
    <3>1. CASE Walk(t)
      <4>1. CASE n # NULL /\ call[t].node = Root
        <5>1. call[t].pc = "walk" /\ Go(t, [call[t] EXCEPT !.node = n])
          BY <3>1, <4>1 DEF Walk
        <5>. QED BY <2>2, <4>1, <5>1
      <4>2. CASE ~(n # NULL /\ call[t].node = Root)
        <5>1. \E p \in {"step", "link"} : Go(t, [call[t] EXCEPT !.pc = p])
          BY <3>1, <4>2 DEF Walk
        <5>. QED BY <2>1, <5>1, Holds
      <4>. QED BY <4>1, <4>2
    <3>2. CASE Step(t)
      <4>1. PICK p : p = IF n = NULL THEN "link" ELSE "walk"
        OBVIOUS
      <4>2. Go(t, [call[t] EXCEPT !.node = n, !.pc = p])
        BY <3>2, <4>1 DEF Step
      <4>. QED BY <2>2, <4>1, <4>2
    <3>. QED BY <1>2, <3>1, <3>2
  <2>4. Shape([call[t] EXCEPT !.pc = p, !.node = m])
    BY <2>1, <2>3, Holds DEF Shape, Operation
  <2>5. [call[t] EXCEPT !.pc = p, !.node = m] = [call[t] EXCEPT !.node = m, !.pc = p]
    BY Holds DEF Operation
  <2>6. CallType'
    <3>1. p \in Pcs /\ CallType
      BY DEF Pcs
    <3>2. /\ Go(t, [call[t] EXCEPT !.pc = p, !.node = m]) => CallType'
          /\ m = call[t].node /\ Go(t, [call[t] EXCEPT !.pc = p]) => CallType'
          /\ p = call[t].pc /\ Go(t, [call[t] EXCEPT !.node = m]) => CallType'
      BY <2>4, <3>1, StepType, Zenon
    <3>. QED BY <2>3, <2>5, <3>2
  <2>. QED BY <1>2, <2>6 DEF Walk, Step, nodes, NodeType
<1>3. ASSUME NEW t \in Thread, Link(t) PROVE ListType'
  <2>1. call[t].op = "insert" /\ call[t].pc = "link" /\ call[t].node # NULL /\ call[t].ctx \in Ctx
    BY <1>3, Holds DEF Link, Shape
  <2>2. Shape([call[t] EXCEPT !.pc = "back", !.node = call[t].node])
    BY <2>1, Holds DEF Shape, Operation
  <2>3. CallType'
    BY <1>3, <2>2, Holds, StepType DEF Link, Pcs
  <2>4. NodeType'
    BY <1>3, <2>1, Holds DEF Link, NodeType
  <2>. QED BY <1>3, <2>3, <2>4 DEF Link
<1>4. ASSUME NEW t \in Thread, LinkBack(t) PROVE ListType'
  <2>1. CallType'
    BY <1>4, OutsideType, GoType DEF LinkBack
  <2>2. NodeType'
    BY <1>4, Holds DEF LinkBack, NodeType
  <2>. QED BY <1>4, <2>1, <2>2 DEF LinkBack
<1>5. ASSUME NEW t \in Thread, NEW c \in Ctx, NEW op \in {"find", "close"}, Search(t, c, op)
      PROVE  ListType'
  <2>1. PICK p : p = IF next[Root] = NULL THEN "search" ELSE "head"
    OBVIOUS
  <2>. DEFINE r == [op |-> op, pc |-> p, ctx |-> c, node |-> NULL]
  <2>2. r \in Operation /\ Shape(r)
    BY <2>1 DEF Operation, Pcs, Shape
  <2>3. Go(t, r)
    BY <1>5, <2>1 DEF Search
  <2>4. CallType'
    <3>. HIDE DEF r
    <3>. QED BY <2>2, <2>3, GoType
  <2>5. mixed' \in BOOLEAN
    BY <1>5, Zenon DEF Search, Meets
  <2>. QED BY <1>5, <2>4, <2>5 DEF Search, nodes, NodeType
<1>6. ASSUME NEW t \in Thread, SearchNext(t) PROVE ListType'
  <2>. DEFINE n == next[call[t].node]
  <2>1. call[t].pc = "search" /\ call[t].node \in Ctx \cup {Root}
    BY <1>6, Holds DEF SearchNext
  <2>2. n \in Ctx \cup {NULL}
    BY <2>1 DEF NodeType
  <2>3. Shape([call[t] EXCEPT !.pc = "search", !.node = n])
    BY <2>1, Holds DEF Shape, Operation
  <2>4. CallType'
    BY <1>6, <2>1, <2>2, <2>3, StepType DEF SearchNext, Pcs
  <2>. QED BY <1>6, <2>4 DEF SearchNext, nodes, NodeType
<1>12. ASSUME NEW t \in Thread, SearchFirst(t) PROVE ListType'
  <2>. DEFINE n == next[Root]
  <2>1. call[t].pc = "head" /\ n \in Ctx \cup {NULL}
    BY <1>12 DEF SearchFirst, NodeType
  <2>2. Shape([call[t] EXCEPT !.pc = "search", !.node = n])
    BY <2>1, Holds DEF Shape, Operation
  <2>3. CallType'
    BY <1>12, <2>1, <2>2, StepType DEF SearchFirst, Pcs
  <2>. QED BY <1>12, <2>3 DEF SearchFirst, nodes, NodeType
<1>7. ASSUME NEW t \in Thread, Found(t) PROVE ListType'
  <2>1. CASE call[t].op = "find"
    <3>1. CallType'
      BY <1>7, <2>1, OutsideType, GoType DEF Found
    <3>. QED BY <1>7, <2>1, <3>1 DEF Found, nodes, NodeType
  <2>2. CASE call[t].op # "find"
    <3>1. Shape([call[t] EXCEPT !.pc = "test", !.node = call[t].node])
      BY <1>7, <2>2, Holds DEF Found, Shape, Operation
    <3>2. CallType'
      BY <1>7, <2>2, <3>1, Holds, StepType DEF Found, Pcs
    <3>3. mixed' \in BOOLEAN
      BY <1>7, <2>2, Zenon DEF Found, Meets
    <3>. QED BY <1>7, <3>2, <3>3 DEF Found, nodes, NodeType
  <2>. QED BY <2>1, <2>2
<1>8. ASSUME NEW t \in Thread, NotFound(t) PROVE ListType'
  <2>1. CallType'
    BY <1>8, OutsideType, GoType DEF NotFound
  <2>2. NodeType'
    BY <1>8 DEF NotFound, nodes, NodeType
  <2>. QED BY <1>8, <2>1, <2>2 DEF NotFound
<1>9. ASSUME NEW t \in Thread, Removing(t) PROVE ListType'
  <2>0. call[t].pc \in {"test", "after", "tieAfter", "before", "tieBefore", "destruct"}
    BY <1>9 DEF Removing, Test, TestAfter, UnlinkAfter, TestBefore, UnlinkBefore, Destruct
  <2>1. \A p \in {"after", "tieAfter", "before", "tieBefore", "destruct", "free"} :
          Shape([call[t] EXCEPT !.pc = p, !.node = call[t].node])
    BY <2>0, Holds DEF Shape, Operation
  <2>2. \E p \in {"after", "tieAfter", "before", "tieBefore", "destruct", "free"} :
          Go(t, [call[t] EXCEPT !.pc = p])
    BY <1>9 DEF Removing, Test, TestAfter, UnlinkAfter, TestBefore, UnlinkBefore, Destruct
  <2>3. CallType'
    BY <2>1, <2>2, Holds, StepType DEF Pcs
  <2>4. NodeType'
    <3>1. call[t].ctx \in Ctx
      BY <2>0, Holds
    <3>2. CASE Test(t) \/ TestAfter(t) \/ TestBefore(t)
      BY <3>2 DEF Test, TestAfter, TestBefore, nodes, NodeType
    <3>3. CASE UnlinkAfter(t)
      BY <3>1, <3>3 DEF UnlinkAfter, NodeType
    <3>4. CASE UnlinkBefore(t)
      BY <3>1, <3>4 DEF UnlinkBefore, NodeType
    <3>5. CASE Destruct(t)
      BY <3>1, <3>5 DEF Destruct, NodeType
    <3>. QED BY <1>9, <3>2, <3>3, <3>4, <3>5 DEF Removing
  <2>. QED BY <1>9, <2>3, <2>4
         DEF Removing, Test, TestAfter, UnlinkAfter, TestBefore, UnlinkBefore, Destruct
<1>10. ASSUME NEW t \in Thread, Free(t) PROVE ListType'
  <2>1. CallType'
    BY <1>10, OutsideType, GoType DEF Free
  <2>2. NodeType'
    BY <1>10, Holds DEF Free, NodeType
  <2>. QED BY <1>10, <2>1, <2>2 DEF Free
<1>11. ASSUME NEW t \in Thread, Faults(t) PROVE ListType'
  <2>1. CallType'
    BY <1>11, OutsideType, GoType DEF Faults
  <2>. QED BY <1>11, <2>1 DEF Faults, nodes, NodeType
<1>. QED
  BY <1>0, <1>1, <1>2, <1>3, <1>4, <1>5, <1>6, <1>7, <1>8, <1>9, <1>10, <1>11, <1>12
     DEF Next, Removing

LEMMA ListTyped == Spec => []ListType
BY ListTypeInit, ListTypeNext, PTL DEF Spec

-----------------------------------------------------------------------------
(* The pointers as a sequence *)

(* The i-th node of a list, the head being the 0-th. *)
At(q, i) == IF i = 0 THEN Root ELSE q[i]
InList(q, c) == \E i \in 1 .. Len(q) : q[i] = c

Linked(q) ==
  /\ \A i, j \in 1 .. Len(q) : q[i] = q[j] => i = j
  /\ \A i \in 0 .. Len(q) - 1 : next[At(q, i)] = q[i + 1]
  /\ next[At(q, Len(q))] = NULL

(* A node points back, but for the last while it is inserted, and the one    *)
(* behind a node that is taken out, which points back over it.               *)
BackLinked(q) ==
  \A i \in 1 .. Len(q) :
     \/ prev[q[i]] = At(q, i - 1)
     \/ \E t \in Thread : call[t].pc = "back" /\ call[t].ctx = q[i]
     \/ \E t \in Thread :
          call[t].pc \in {"before", "tieBefore"} /\ i > 1 /\ call[t].ctx = q[i - 1]

(* A context that is allocated has an owner, and is in the list or in the    *)
(* hands of a thread that is about to link it or to free it.                 *)
Aside == {"walk", "step", "link", "destruct", "free"}
Apart(c) == \E t \in Thread : call[t].ctx = c /\ call[t].pc \in Aside
Held(q) ==
  /\ \A c \in Ctx : heap[c] <=> owner[c] # NULL
  /\ \A i \in 1 .. Len(q) : heap[q[i]]
  /\ \A c \in Ctx : heap[c] => InList(q, c) \/ Apart(c)

(* What each operation relies on. *)
Busy(q, t) ==
  LET c == call[t] IN
  /\ c.pc # "lost"
  /\ c.op # "none" => owner[c.ctx] = t
  /\ c.pc \in {"walk", "step", "link"} =>
       ~InList(q, c.ctx) /\ next[c.ctx] = NULL /\ \E i \in 0 .. Len(q) : c.node = At(q, i)
  /\ c.pc = "step" => \E i \in 1 .. Len(q) - 1 : c.node = At(q, i)
  /\ c.pc = "link" => c.node = At(q, Len(q))
  /\ c.pc = "back" => Len(q) > 0 /\ c.ctx = q[Len(q)] /\ c.node = At(q, Len(q) - 1)
  /\ c.pc = "search" => \E i, j \in 1 .. Len(q) : i <= j /\ c.node = q[i] /\ c.ctx = q[j]
  /\ c.pc \in {"head", "test", "after", "tieAfter", "before", "tieBefore"} => InList(q, c.ctx)
  /\ c.pc = "tieAfter" => next[c.ctx] # NULL
  /\ c.pc \in {"before", "tieBefore"} =>
       \A k \in 1 .. Len(q) - 1 : q[k] = c.ctx => prev[q[k + 1]] = At(q, k - 1)
  /\ c.pc \in {"destruct", "free"} => ~InList(q, c.ctx)

(* One thread at a time inserts, and one that takes out is alone. *)
Exclusive ==
  \A t, u \in Thread :
    /\ call[t].op = "insert" /\ call[u].op = "insert" => t = u
    /\ Unlinking(t) /\ call[u].op # "none" => t = u

IsList(q) ==
  /\ q \in Seq(Ctx)
  /\ Linked(q) /\ BackLinked(q) /\ Held(q) /\ Exclusive
  /\ \A t \in Thread : Busy(q, t)

(* The strengthening of HarmNeedsOverlap. *)
ListInv == ~mixed => ~harm /\ \E q \in Seq(Ctx) : IsList(q)

LEMMA Nodes ==
  ASSUME NEW q \in Seq(Ctx), Linked(q)
  PROVE  /\ Len(q) \in Nat
         /\ \A i \in 1 .. Len(q) : q[i] \in Ctx /\ At(q, i) = q[i]
         /\ \A i \in 0 .. Len(q) : At(q, i) \in Ctx \cup {Root} /\ At(q, i) # NULL
         /\ \A i, j \in 0 .. Len(q) : At(q, i) = At(q, j) => i = j
         /\ At(q, 0) = Root
<1>1. Len(q) \in Nat /\ \A i \in 1 .. Len(q) : q[i] \in Ctx
  OBVIOUS
<1>. QED BY <1>1, ListAssumption DEF At, Linked

LEMMA NextOf ==
  ASSUME NEW q \in Seq(Ctx), Linked(q), NEW i \in 0 .. Len(q)
  PROVE  next[At(q, i)] = IF i = Len(q) THEN NULL ELSE q[i + 1]
<1>1. Len(q) \in Nat
  OBVIOUS
<1>. QED BY <1>1 DEF Linked

(* A step that changes a thread's operation and nothing of the nodes. *)
LEMMA CallOnly ==
  ASSUME NEW q \in Seq(Ctx), IsList(q), NEW t \in Thread,
         UNCHANGED <<nodes, owner>>,
         \A u \in Thread : u # t => call'[u] = call[u],
         call[t].pc \notin {"back", "tieBefore", "destruct", "free"},
         call[t].pc = "before" => call'[t].pc = "tieBefore" /\ call'[t].ctx = call[t].ctx,
         call[t].pc \in Aside => call'[t].pc \in Aside /\ call'[t].ctx = call[t].ctx,
         Busy(q, t)', Exclusive'
  PROVE  IsList(q)'
<1>1. next' = next /\ prev' = prev /\ heap' = heap /\ owner' = owner
  BY DEF nodes
<1>2. Linked(q)'
  BY <1>1 DEF IsList, Linked
<1>3. BackLinked(q)'
  <2>1. ASSUME NEW u \in Thread, call[u].pc = "back"
        PROVE  call'[u].pc = "back" /\ call'[u].ctx = call[u].ctx
    BY <2>1
  <2>2. ASSUME NEW u \in Thread, call[u].pc \in {"before", "tieBefore"}
        PROVE  call'[u].pc \in {"before", "tieBefore"} /\ call'[u].ctx = call[u].ctx
    BY <2>2
  <2>3. BackLinked(q)
    BY DEF IsList
  <2>. QED BY <1>1, <2>1, <2>2, <2>3 DEF BackLinked
<1>4. \A c \in Ctx : Apart(c) => Apart(c)'
  <2>1. ASSUME NEW c \in Ctx, NEW u \in Thread, call[u].ctx = c, call[u].pc \in Aside
        PROVE  call'[u].ctx = c /\ call'[u].pc \in Aside
    BY <2>1
  <2>. QED BY <2>1 DEF Apart, Aside
<1>5. Held(q)'
  BY <1>1, <1>4 DEF IsList, Held
<1>6. ASSUME NEW u \in Thread, u # t PROVE Busy(q, u)'
  <2>1. Busy(q, u) /\ call'[u] = call[u]
    BY <1>6 DEF IsList
  <2>. QED BY <1>1, <2>1 DEF Busy
<1>. QED BY <1>2, <1>3, <1>5, <1>6 DEF IsList

-----------------------------------------------------------------------------
(* Steps that only walk *)

LEMMA WalkList ==
  ASSUME ListType, NEW q \in Seq(Ctx), IsList(q), NEW t \in Thread, Walk(t) \/ Step(t)
  PROVE  IsList(q)'
<1>. DEFINE n == next[call[t].node]
<1>. USE DEF ListType
<1>1. /\ call[t].op = "insert" /\ call[t].pc \in {"walk", "step"}
      /\ next' = next /\ prev' = prev /\ heap' = heap /\ owner' = owner
      /\ UNCHANGED <<nodes, owner>>
  BY Holds DEF Walk, Step, nodes, Shape
<1>2. \A u \in Thread : u # t => call'[u] = call[u]
  BY DEF Walk, Step, Go, CallType
<1>3. PICK i \in 0 .. Len(q) :
        call[t].node = At(q, i) /\ (call[t].pc = "step" => i \in 1 .. Len(q) - 1)
  <2>1. Len(q) \in Nat
    OBVIOUS
  <2>. QED BY <1>1, <2>1 DEF IsList, Busy
<1>4. Linked(q) /\ Len(q) \in Nat
  BY DEF IsList
<1>5. n = IF i = Len(q) THEN NULL ELSE q[i + 1]
  BY <1>3, <1>4, NextOf
<1>6. i # Len(q) => n = At(q, i + 1) /\ n # NULL
  BY <1>4, <1>5, Nodes
<1>7. /\ call'[t].op = "insert" /\ call'[t].ctx = call[t].ctx
      /\ \/ i < Len(q) /\ call'[t].pc = "walk" /\ call'[t].node = At(q, i + 1)
         \/ i # 0 /\ i < Len(q) /\ call'[t].pc = "step" /\ call'[t].node = At(q, i)
         \/ i = Len(q) /\ call'[t].pc = "link" /\ call'[t].node = At(q, i)
  <2>1. call[t] \in Operation
    BY Holds
  <2>2. CASE Step(t)
    <3>1. call[t].pc = "step"
      BY <2>2 DEF Step
    <3>2. i < Len(q) /\ i # Len(q)
      BY <1>3, <1>4, <3>1
    <3>3. call'[t] = [call[t] EXCEPT !.node = n, !.pc = "walk"]
      BY <1>6, <2>2, <3>2 DEF Step, Go, CallType
    <3>. QED BY <1>1, <1>6, <2>1, <3>2, <3>3 DEF Operation
  <2>3. CASE Walk(t) /\ i = Len(q)
    <3>1. call'[t] = [call[t] EXCEPT !.pc = "link"]
      BY <1>5, <2>3 DEF Walk, Go, CallType
    <3>. QED BY <1>1, <1>3, <2>1, <2>3, <3>1 DEF Operation
  <2>4. CASE Walk(t) /\ i # Len(q) /\ call[t].node = Root
    <3>1. call'[t] = [call[t] EXCEPT !.node = n] /\ call[t].pc = "walk"
      BY <1>6, <2>4 DEF Walk, Go, CallType
    <3>2. i < Len(q)
      BY <1>4, <2>4
    <3>. QED BY <1>1, <1>6, <2>1, <2>4, <3>1, <3>2 DEF Operation
  <2>5. CASE Walk(t) /\ i # Len(q) /\ call[t].node # Root
    <3>1. call'[t] = [call[t] EXCEPT !.pc = "step"]
      BY <1>6, <2>5 DEF Walk, Go, CallType
    <3>2. i < Len(q) /\ i # 0
      BY <1>3, <1>4, <2>5, Nodes
    <3>. QED BY <1>1, <1>3, <2>1, <3>1, <3>2 DEF Operation
  <2>. QED BY <2>2, <2>3, <2>4, <2>5
<1>8. Busy(q, t)'
  <2>1. Busy(q, t)
    BY DEF IsList
  <2>2. \E j \in 0 .. Len(q) : call'[t].node = At(q, j)
    BY <1>4, <1>7
  <2>3. call'[t].pc = "step" => \E j \in 1 .. Len(q) - 1 : call'[t].node = At(q, j)
    BY <1>4, <1>7
  <2>. QED BY <1>1, <1>7, <2>1, <2>2, <2>3 DEF Busy
<1>9. Exclusive'
  BY <1>1, <1>2, <1>7 DEF IsList, Exclusive, Unlinking
<1>. QED BY <1>1, <1>2, <1>7, <1>8, <1>9, CallOnly DEF Aside

LEMMA SearchList ==
  ASSUME ListType, NEW q \in Seq(Ctx), IsList(q), NEW t \in Thread, NEW c \in Ctx,
         NEW op \in {"find", "close"}, Search(t, c, op), ~mixed'
  PROVE  IsList(q)'
<1>. USE DEF ListType
<1>1. /\ call[t].pc = "outside" /\ owner[c] = t
      /\ next' = next /\ prev' = prev /\ heap' = heap /\ owner' = owner
      /\ UNCHANGED <<nodes, owner>>
  BY DEF Search, nodes
<1>2. \A u \in Thread : u # t => call'[u] = call[u]
  BY DEF Search, Go, CallType
<1>3. \A o \in Thread : o # t => ~Unlinking(o)
  BY DEF Search, Meets, Conflicts
<1>4. call'[t] = [op |-> op, pc |-> IF next[Root] = NULL THEN "search" ELSE "head",
                  ctx |-> c, node |-> NULL]
  BY DEF Search, Go, CallType
<1>5. InList(q, c)
  <2>1. heap[c]
    BY <1>1, ListAssumption DEF IsList, Held
  <2>2. ~Apart(c)
    <3>1. SUFFICES ASSUME NEW u \in Thread, call[u].ctx = c,
                          call[u].pc \in Aside
                   PROVE  FALSE
      BY DEF Apart, Aside
    <3>2. call[u].op # "none"
      BY <3>1, Holds DEF Shape, Aside
    <3>3. owner[c] = u
      BY <3>1, <3>2 DEF IsList, Busy
    <3>. QED BY <1>1, <3>1, <3>3 DEF Aside
  <2>. QED BY <2>1, <2>2 DEF IsList, Held
<1>6. PICK j \in 1 .. Len(q) : q[j] = c
  BY <1>5 DEF InList
<1>7. next[Root] # NULL
  <2>1. Linked(q) /\ Len(q) \in Nat
    BY DEF IsList
  <2>2. next[At(q, 0)] = q[0 + 1] /\ q[1] # NULL
    BY <1>6, <2>1, ListAssumption DEF Linked
  <2>. QED BY <2>1, <2>2, Nodes
<1>8. call'[t].op = op /\ call'[t].pc = "head" /\ call'[t].ctx = c
  BY <1>4, <1>7
<1>9. Busy(q, t)'
  BY <1>1, <1>5, <1>8 DEF Busy
<1>10. Exclusive'
  BY <1>2, <1>3, <1>8 DEF IsList, Exclusive, Unlinking
<1>. QED BY <1>1, <1>2, <1>8, <1>9, <1>10, CallOnly DEF Aside

LEMMA SearchFirstList ==
  ASSUME ListType, NEW q \in Seq(Ctx), IsList(q), NEW t \in Thread, SearchFirst(t)
  PROVE  IsList(q)'
<1>. USE DEF ListType
<1>1. /\ call[t].pc = "head"
      /\ next' = next /\ prev' = prev /\ heap' = heap /\ owner' = owner
      /\ UNCHANGED <<nodes, owner>>
  BY DEF SearchFirst, nodes
<1>2. \A u \in Thread : u # t => call'[u] = call[u]
  BY DEF SearchFirst, Go, CallType
<1>3. /\ call'[t].op = call[t].op /\ call'[t].pc = "search"
      /\ call'[t].ctx = call[t].ctx /\ call'[t].node = next[Root]
  <2>1. call'[t] = [call[t] EXCEPT !.pc = "search", !.node = next[Root]]
    BY DEF SearchFirst, Go, CallType
  <2>. QED BY <2>1, Holds DEF Operation
<1>4. Busy(q, t) /\ Linked(q) /\ Len(q) \in Nat
  BY DEF IsList
<1>5. PICK j \in 1 .. Len(q) : q[j] = call[t].ctx
  BY <1>1, <1>4 DEF Busy, InList
<1>6. next[Root] = q[1] /\ 1 \in 1 .. Len(q) /\ 1 <= j
  <2>1. next[At(q, 0)] = q[0 + 1]
    BY <1>4, <1>5 DEF Linked
  <2>. QED BY <1>4, <1>5, <2>1, Nodes
<1>7. Busy(q, t)'
  BY <1>1, <1>3, <1>4, <1>5, <1>6 DEF Busy
<1>8. Exclusive'
  BY <1>1, <1>2, <1>3, Holds DEF IsList, Exclusive, Unlinking, Shape
<1>. QED BY <1>1, <1>2, <1>3, <1>7, <1>8, CallOnly DEF Aside

LEMMA SearchNextList ==
  ASSUME ListType, NEW q \in Seq(Ctx), IsList(q), NEW t \in Thread, SearchNext(t)
  PROVE  IsList(q)'
<1>. USE DEF ListType
<1>1. /\ call[t].pc = "search" /\ call[t].node # call[t].ctx
      /\ next' = next /\ prev' = prev /\ heap' = heap /\ owner' = owner
      /\ UNCHANGED <<nodes, owner>>
  BY DEF SearchNext, nodes
<1>2. \A u \in Thread : u # t => call'[u] = call[u]
  BY DEF SearchNext, Go, CallType
<1>3. PICK i \in 1 .. Len(q), j \in 1 .. Len(q) :
        i <= j /\ call[t].node = q[i] /\ call[t].ctx = q[j]
  BY <1>1 DEF IsList, Busy
<1>4. i < j
  BY <1>1, <1>3
<1>5. next[call[t].node] = q[i + 1] /\ i + 1 \in 1 .. Len(q) /\ i + 1 <= j
  <2>1. Linked(q) /\ Len(q) \in Nat
    BY DEF IsList
  <2>2. next[At(q, i)] = q[i + 1]
    BY <1>3, <1>4, <2>1 DEF Linked
  <2>. QED BY <1>3, <1>4, <2>1, <2>2, Nodes
<1>6. /\ call'[t].op = call[t].op /\ call'[t].pc = "search"
      /\ call'[t].ctx = call[t].ctx /\ call'[t].node = q[i + 1]
  <2>1. call'[t] = [call[t] EXCEPT !.node = next[call[t].node]]
    BY DEF SearchNext, Go, CallType
  <2>. QED BY <1>1, <1>5, <2>1, Holds DEF Operation
<1>7. Busy(q, t)'
  <2>1. Busy(q, t)
    BY DEF IsList
  <2>. QED BY <1>1, <1>3, <1>5, <1>6, <2>1 DEF Busy
<1>8. Exclusive'
  BY <1>1, <1>2, <1>6 DEF IsList, Exclusive, Unlinking
<1>. QED BY <1>1, <1>2, <1>6, <1>7, <1>8, CallOnly DEF Aside

LEMMA FoundList ==
  ASSUME ListType, NEW q \in Seq(Ctx), IsList(q), NEW t \in Thread, Found(t), ~mixed'
  PROVE  IsList(q)'
<1>. USE DEF ListType
<1>1. /\ call[t].pc = "search" /\ call[t].node = call[t].ctx
      /\ next' = next /\ prev' = prev /\ heap' = heap /\ owner' = owner
      /\ UNCHANGED <<nodes, owner>>
  BY DEF Found, nodes
<1>2. \A u \in Thread : u # t => call'[u] = call[u]
  BY DEF Found, Go, CallType
<1>3. CASE call[t].op = "find"
  <2>1. call'[t] = Outside
    BY <1>3 DEF Found, Go, CallType
  <2>2. Busy(q, t)'
    BY <2>1 DEF Busy, Outside
  <2>3. Exclusive'
    BY <1>2, <2>1 DEF IsList, Exclusive, Unlinking, Outside
  <2>. QED BY <1>1, <1>2, <2>1, <2>2, <2>3, CallOnly DEF Outside, Aside
<1>4. CASE call[t].op # "find"
  <2>1. \A o \in Thread : o # t => call[o].op = "none"
    BY <1>4 DEF Found, Meets, Conflicts
  <2>2. /\ call'[t].op = call[t].op /\ call'[t].pc = "test" /\ call'[t].ctx = call[t].ctx
    <3>1. call'[t] = [call[t] EXCEPT !.pc = "test"]
      BY <1>4 DEF Found, Go, CallType
    <3>. QED BY <3>1, Holds DEF Operation
  <2>3. Busy(q, t)'
    <3>1. Busy(q, t)
      BY DEF IsList
    <3>2. InList(q, call[t].ctx)
      BY <1>1, <3>1 DEF Busy, InList
    <3>. QED BY <1>1, <2>2, <3>1, <3>2 DEF Busy
  <2>4. Exclusive'
    BY <1>2, <2>1, <2>2, Holds DEF IsList, Exclusive, Unlinking, Shape
  <2>. QED BY <1>1, <1>2, <2>2, <2>3, <2>4, CallOnly DEF Aside
<1>. QED BY <1>3, <1>4

(* A thread that takes a context out is alone, so the context points back    *)
(* to the node before it.                                                    *)
LEMMA Taking ==
  ASSUME ListType, NEW q \in Seq(Ctx), IsList(q), NEW t \in Thread, Unlinking(t)
  PROVE  /\ \A u \in Thread : u # t => call[u].op = "none" /\ call[u].pc = "outside"
         /\ call[t].op = "close" /\ call[t].ctx \in Ctx
         /\ \A k \in 1 .. Len(q) : q[k] = call[t].ctx => prev[q[k]] = At(q, k - 1)
<1>. USE DEF ListType
<1>1. call[t].op = "close" /\ call[t].ctx \in Ctx /\ call[t].pc # "back"
  BY Holds DEF Unlinking, Shape, Operation, CallType
<1>2. ASSUME NEW u \in Thread, u # t PROVE call[u].op = "none" /\ call[u].pc = "outside"
  <2>1. call[u].op = "none"
    BY <1>2 DEF IsList, Exclusive
  <2>2. call[u].pc # "lost"
    BY DEF IsList, Busy
  <2>. QED BY <2>1, <2>2, Holds DEF Shape
<1>3. ASSUME NEW k \in 1 .. Len(q), q[k] = call[t].ctx PROVE prev[q[k]] = At(q, k - 1)
  <2>1. \A u \in Thread : call[u].pc # "back"
    BY <1>1, <1>2
  <2>2. ~\E u \in Thread :
           call[u].pc \in {"before", "tieBefore"} /\ k > 1 /\ call[u].ctx = q[k - 1]
    <3>1. k > 1 => q[k - 1] # q[k]
      BY DEF IsList, Linked
    <3>. QED BY <1>2, <1>3, <3>1
  <2>. QED BY <2>1, <2>2 DEF IsList, BackLinked
<1>. QED BY <1>1, <1>2, <1>3

LEMMA TestList ==
  ASSUME ListType, NEW q \in Seq(Ctx), IsList(q), NEW t \in Thread,
         Test(t) \/ TestAfter(t) \/ TestBefore(t)
  PROVE  IsList(q)'
<1>. DEFINE c == call[t].ctx
<1>. USE DEF ListType
<1>1. /\ call[t].pc \in {"test", "after", "before"} /\ Unlinking(t)
      /\ next' = next /\ prev' = prev /\ heap' = heap /\ owner' = owner
      /\ UNCHANGED <<nodes, owner>>
  BY DEF Test, TestAfter, TestBefore, nodes, Unlinking
<1>2. \A u \in Thread : u # t => call'[u] = call[u]
  BY DEF Test, TestAfter, TestBefore, Go, CallType
<1>3. Busy(q, t) /\ Linked(q) /\ Len(q) \in Nat
  BY DEF IsList
<1>4. PICK k \in 1 .. Len(q) : q[k] = c
  BY <1>1, <1>3 DEF Busy, InList
<1>5. prev[c] # NULL
  <2>1. prev[c] = At(q, k - 1) /\ k - 1 \in 0 .. Len(q)
    BY <1>1, <1>3, <1>4, Taking
  <2>. QED BY <1>3, <2>1, Nodes
<1>6. /\ call'[t].op = call[t].op /\ call'[t].ctx = c
      /\ \/ call'[t].pc = "after"
         \/ call'[t].pc = "tieAfter" /\ next[c] # NULL
         \/ call'[t].pc = "before" /\ call[t].pc = "after" /\ next[c] = NULL
         \/ call'[t].pc = "tieBefore" /\ call[t].pc = "before"
      /\ call[t].pc = "before" => call'[t].pc = "tieBefore"
  <2>1. call[t] \in Operation
    BY Holds
  <2>2. CASE Test(t)
    <3>1. call'[t] = [call[t] EXCEPT !.pc = "after"] /\ call[t].pc = "test"
      BY <1>5, <2>2 DEF Test, Go, CallType
    <3>. QED BY <2>1, <3>1 DEF Operation
  <2>3. CASE TestAfter(t) /\ next[c] = NULL
    <3>1. call'[t] = [call[t] EXCEPT !.pc = "before"] /\ call[t].pc = "after"
      BY <2>3 DEF TestAfter, Go, CallType
    <3>. QED BY <2>1, <2>3, <3>1 DEF Operation
  <2>4. CASE TestAfter(t) /\ next[c] # NULL
    <3>1. call'[t] = [call[t] EXCEPT !.pc = "tieAfter"] /\ call[t].pc = "after"
      BY <2>4 DEF TestAfter, Go, CallType
    <3>. QED BY <2>1, <2>4, <3>1 DEF Operation
  <2>5. CASE TestBefore(t)
    <3>1. call'[t] = [call[t] EXCEPT !.pc = "tieBefore"] /\ call[t].pc = "before"
      BY <1>5, <2>5 DEF TestBefore, Go, CallType
    <3>. QED BY <2>1, <3>1 DEF Operation
  <2>. QED BY <2>2, <2>3, <2>4, <2>5
<1>7. next[c] = NULL => \A i \in 1 .. Len(q) - 1 : q[i] # c
  <2>1. SUFFICES ASSUME next[c] = NULL, NEW i \in 1 .. Len(q) - 1, q[i] = c PROVE FALSE
    OBVIOUS
  <2>2. next[At(q, i)] = q[i + 1] /\ At(q, i) = c /\ i + 1 \in 1 .. Len(q)
    BY <1>3, <2>1, Nodes DEF Linked
  <2>. QED BY <1>3, <2>1, <2>2, ListAssumption
<1>8. InList(q, c) /\ owner'[c] = t
  BY <1>1, <1>3, <1>4, Taking DEF Busy, InList
<1>9. Busy(q, t)'
  BY <1>1, <1>3, <1>6, <1>7, <1>8 DEF Busy
<1>10. Exclusive'
  BY <1>1, <1>2, <1>6, Taking DEF IsList, Exclusive, Unlinking
<1>. QED BY <1>1, <1>2, <1>6, <1>9, <1>10, CallOnly DEF Aside

-----------------------------------------------------------------------------
(* Steps that insert *)

(* While a thread inserts, no other does, and none takes a context out. *)
LEMMA Inserts ==
  ASSUME ListType, NEW q \in Seq(Ctx), IsList(q), NEW t \in Thread, call[t].op = "insert"
  PROVE  \A u \in Thread : u # t =>
           /\ call[u].pc \in {"outside", "head", "search"} /\ call[u].op # "insert"
           /\ call[u].op # "none" => call[u].pc \in {"head", "search"}
<1>. SUFFICES ASSUME NEW u \in Thread, u # t
              PROVE  /\ call[u].pc \in {"outside", "head", "search"} /\ call[u].op # "insert"
                     /\ call[u].op # "none" => call[u].pc \in {"head", "search"}
  OBVIOUS
<1>1. ~Unlinking(u) /\ call[u].op # "insert"
  BY DEF IsList, Exclusive
<1>2. call[u].pc # "lost"
  BY DEF IsList, Busy
<1>. QED BY <1>1, <1>2, Holds DEF ListType, Shape, Unlinking, Pcs

LEMMA CreateList ==
  ASSUME ListType, NEW q \in Seq(Ctx), IsList(q), NEW t \in Thread, NEW c \in Ctx,
         createInetCtx(t, c), ~mixed'
  PROVE  IsList(q)'
<1>. USE DEF ListType
<1>1. /\ ~heap[c] /\ call[t].pc = "outside"
      /\ heap' = [heap EXCEPT ![c] = TRUE] /\ owner' = [owner EXCEPT ![c] = t]
      /\ next' = [next EXCEPT ![c] = NULL] /\ prev' = [prev EXCEPT ![c] = NULL]
  BY DEF createInetCtx
<1>2. /\ \A u \in Thread : u # t => call'[u] = call[u]
      /\ call'[t] = [op |-> "insert", pc |-> "walk", ctx |-> c, node |-> Root]
  BY DEF createInetCtx, Go, CallType
<1>3. \A u \in Thread : u # t => ~Unlinking(u) /\ call[u].op # "insert"
  BY DEF createInetCtx, Meets, Conflicts
<1>4. \A u \in Thread : u # t => call[u].pc \in {"outside", "head", "search"}
  <2>1. \A u \in Thread : call[u].pc # "lost"
    BY DEF IsList, Busy
  <2>. QED BY <1>3, <2>1, Holds DEF Shape, Unlinking, Pcs
<1>5. Linked(q) /\ Len(q) \in Nat /\ Held(q)
  BY DEF IsList
<1>6. ~InList(q, c)
  BY <1>1, <1>5 DEF Held, InList
<1>7. c # Root /\ \A i \in 0 .. Len(q) : At(q, i) # c
  BY <1>5, <1>6, ListAssumption DEF At, InList
<1>8. \A i \in 0 .. Len(q) : next'[At(q, i)] = next[At(q, i)]
  BY <1>1, <1>5, <1>7, Nodes DEF NodeType
<1>9. Linked(q)'
  BY <1>5, <1>8 DEF Linked
<1>10. BackLinked(q)'
  <2>1. ASSUME NEW i \in 1 .. Len(q) PROVE prev'[q[i]] = At(q, i - 1)
    <3>1. prev[q[i]] = At(q, i - 1)
      BY <1>1, <1>4 DEF IsList, BackLinked
    <3>2. q[i] \in Ctx /\ q[i] # c
      BY <1>6 DEF InList
    <3>. QED BY <1>1, <3>1, <3>2 DEF NodeType
  <2>. QED BY <2>1 DEF BackLinked
<1>11. Held(q)'
  <2>1. \A d \in Ctx : heap'[d] <=> owner'[d] # NULL
    BY <1>1, <1>5, ListAssumption DEF Held, NodeType
  <2>2. \A i \in 1 .. Len(q) : heap'[q[i]]
    BY <1>1, <1>5 DEF Held, NodeType
  <2>3. ASSUME NEW d \in Ctx, heap'[d] PROVE InList(q, d) \/ Apart(d)'
    <3>1. CASE d = c
      BY <1>2, <3>1 DEF Apart, Aside
    <3>2. CASE d # c
      <4>1. InList(q, d) \/ Apart(d)
        BY <1>1, <1>5, <2>3, <3>2 DEF Held, NodeType
      <4>2. Apart(d) => Apart(d)'
        BY <1>1, <1>2 DEF Apart, Aside
      <4>. QED BY <4>1, <4>2
    <3>. QED BY <3>1, <3>2
  <2>. QED BY <2>1, <2>2, <2>3 DEF Held
<1>12. Exclusive'
  BY <1>2, <1>3, <1>4 DEF IsList, Exclusive, Unlinking
<1>13. Busy(q, t)'
  <2>1. 0 \in 0 .. Len(q) /\ At(q, 0) = Root
    BY <1>5, Nodes
  <2>. QED BY <1>1, <1>2, <1>6, <2>1 DEF Busy, NodeType
<1>14. ASSUME NEW u \in Thread, u # t PROVE Busy(q, u)'
  <2>1. Busy(q, u) /\ call'[u] = call[u] /\ call[u].pc \in {"outside", "head", "search"}
    BY <1>2, <1>4, <1>14 DEF IsList
  <2>2. call[u].op # "none" => owner'[call[u].ctx] = u
    <3>1. SUFFICES ASSUME call[u].op # "none" PROVE owner'[call[u].ctx] = u
      OBVIOUS
    <3>2. owner[call[u].ctx] = u /\ call[u].ctx \in Ctx
      BY <2>1, <3>1, Holds DEF Busy, Shape
    <3>3. call[u].ctx # c
      BY <1>1, <1>5, <3>2, ListAssumption DEF Held
    <3>. QED BY <1>1, <3>2, <3>3 DEF NodeType
  <2>. QED BY <2>1, <2>2 DEF Busy
<1>. QED BY <1>9, <1>10, <1>11, <1>12, <1>13, <1>14 DEF IsList

LEMMA Appended ==
  ASSUME NEW q \in Seq(Ctx), NEW c \in Ctx
  PROVE  /\ Append(q, c) \in Seq(Ctx) /\ Len(q) \in Nat /\ Len(Append(q, c)) = Len(q) + 1
         /\ \A i \in 1 .. Len(q) : Append(q, c)[i] = q[i]
         /\ \A i \in 0 .. Len(q) : At(Append(q, c), i) = At(q, i)
         /\ Append(q, c)[Len(q) + 1] = c /\ At(Append(q, c), Len(q) + 1) = c
<1>1. /\ Append(q, c) \in Seq(Ctx) /\ Len(q) \in Nat /\ Len(Append(q, c)) = Len(q) + 1
      /\ \A i \in 1 .. Len(q) : Append(q, c)[i] = q[i]
      /\ Append(q, c)[Len(q) + 1] = c
  OBVIOUS
<1>. QED BY <1>1 DEF At

(* What is linked is behind the last context. *)
LEMMA LinkList ==
  ASSUME ListType, NEW q \in Seq(Ctx), IsList(q), NEW t \in Thread, Link(t),
         NEW r, r = Append(q, call[t].ctx)
  PROVE  IsList(r)'
<1>. DEFINE c == call[t].ctx
<1>. USE DEF ListType
<1>1. /\ call[t].pc = "link" /\ call[t].op = "insert" /\ c \in Ctx
      /\ prev' = prev /\ heap' = heap /\ owner' = owner
      /\ next' = [next EXCEPT ![call[t].node] = c]
  BY Holds DEF Link, Shape
<1>2. /\ \A u \in Thread : u # t => call'[u] = call[u]
      /\ call'[t] = [call[t] EXCEPT !.pc = "back"]
  BY DEF Link, Go, CallType
<1>3. /\ call'[t].op = "insert" /\ call'[t].pc = "back" /\ call'[t].ctx = c
      /\ call'[t].node = call[t].node
  BY <1>1, <1>2, Holds DEF Operation
<1>4. \A u \in Thread : u # t =>
        /\ call[u].pc \in {"outside", "head", "search"} /\ call[u].op # "insert"
        /\ call[u].op # "none" => call[u].pc \in {"head", "search"}
  BY <1>1, Inserts
<1>5. Linked(q) /\ Len(q) \in Nat /\ Held(q) /\ Busy(q, t)
  BY DEF IsList
<1>6. ~InList(q, c) /\ next[c] = NULL /\ call[t].node = At(q, Len(q)) /\ owner[c] = t
  BY <1>1, <1>5 DEF Busy
<1>7. /\ r \in Seq(Ctx) /\ Len(r) = Len(q) + 1
      /\ \A i \in 1 .. Len(q) : r[i] = q[i]
      /\ \A i \in 0 .. Len(q) : At(r, i) = At(q, i)
      /\ r[Len(q) + 1] = c /\ At(r, Len(q) + 1) = c
  BY <1>1, Appended
<1>8. /\ \A i \in 0 .. Len(q) - 1 : next'[At(q, i)] = q[i + 1]
      /\ next'[At(q, Len(q))] = c
      /\ next'[c] = NULL
  <2>1. c # At(q, Len(q))
    BY <1>1, <1>5, <1>6, ListAssumption DEF At, InList
  <2>2. \A i \in 0 .. Len(q) - 1 : At(q, i) # At(q, Len(q))
    BY <1>5, Nodes
  <2>3. \A i \in 0 .. Len(q) : At(q, i) \in Ctx \cup {Root}
    BY <1>5, Nodes
  <2>. QED BY <1>1, <1>5, <1>6, <2>1, <2>2, <2>3 DEF NodeType, Linked
<1>9. Linked(r)'
  <2>1. \A i, j \in 1 .. Len(r) : r[i] = r[j] => i = j
    <3>1. \A i \in 1 .. Len(r) : i \in 1 .. Len(q) \/ i = Len(q) + 1
      BY <1>5, <1>7
    <3>. QED BY <1>5, <1>6, <1>7, <3>1 DEF Linked, InList
  <2>2. \A i \in 0 .. Len(r) - 1 : next'[At(r, i)] = r[i + 1]
    <3>1. \A i \in 0 .. Len(r) - 1 : i \in 0 .. Len(q) - 1 \/ i = Len(q)
      BY <1>5, <1>7
    <3>2. \A i \in 0 .. Len(q) - 1 : i + 1 \in 1 .. Len(q) /\ i \in 0 .. Len(q)
      BY <1>5
    <3>. QED BY <1>5, <1>7, <1>8, <3>1, <3>2
  <2>. QED BY <1>7, <1>8, <2>1, <2>2 DEF Linked
<1>10. BackLinked(r)'
  <2>1. ASSUME NEW i \in 1 .. Len(q) PROVE prev'[r[i]] = At(r, i - 1)
    <3>1. prev[q[i]] = At(q, i - 1)
      BY <1>1, <1>4 DEF IsList, BackLinked
    <3>2. i - 1 \in 0 .. Len(q)
      BY <1>5
    <3>. QED BY <1>1, <1>7, <3>1, <3>2
  <2>2. \A i \in 1 .. Len(r) : i \in 1 .. Len(q) \/ i = Len(q) + 1
    BY <1>5, <1>7
  <2>. QED BY <1>3, <1>7, <2>1, <2>2 DEF BackLinked
<1>11. Held(r)'
  <2>1. heap[c]
    BY <1>1, <1>5, <1>6, ListAssumption DEF Held
  <2>2. \A i \in 1 .. Len(r) : i \in 1 .. Len(q) \/ i = Len(q) + 1
    BY <1>5, <1>7
  <2>3. \A i \in 1 .. Len(r) : heap'[r[i]]
    BY <1>1, <1>5, <1>7, <2>1, <2>2 DEF Held
  <2>4. ASSUME NEW d \in Ctx, heap[d] PROVE InList(r, d) \/ Apart(d)'
    <3>1. CASE d = c
      BY <1>5, <1>7, <3>1 DEF InList
    <3>2. CASE d # c
      <4>1. InList(q, d) \/ Apart(d)
        BY <1>5, <2>4 DEF Held
      <4>2. Apart(d) => Apart(d)'
        BY <1>2, <3>2 DEF Apart, Aside
      <4>3. InList(q, d) => InList(r, d)
        BY <1>5, <1>7 DEF InList
      <4>. QED BY <4>1, <4>2, <4>3
    <3>. QED BY <3>1, <3>2
  <2>. QED BY <1>1, <1>5, <2>3, <2>4 DEF Held
<1>12. Exclusive'
  BY <1>1, <1>2, <1>3, <1>4, ZenonT(30) DEF IsList, Exclusive, Unlinking
<1>13. Busy(r, t)'
  <2>1. Len(r) > 0 /\ c = r[Len(r)] /\ call[t].node = At(r, Len(r) - 1)
    <3>1. Len(r) - 1 = Len(q) /\ Len(r) > 0 /\ Len(q) \in 0 .. Len(q)
      BY <1>5, <1>7
    <3>2. At(r, Len(r) - 1) = At(q, Len(q))
      BY <1>7, <3>1
    <3>. QED BY <1>6, <1>7, <3>1, <3>2
  <2>2. owner'[c] = t
    BY <1>1, <1>6
  <2>. QED BY <1>3, <2>1, <2>2 DEF Busy
<1>14. ASSUME NEW u \in Thread, u # t PROVE Busy(r, u)'
  <2>1. Busy(q, u) /\ call'[u] = call[u] /\ call[u].pc \in {"outside", "head", "search"}
    BY <1>2, <1>4, <1>14 DEF IsList
  <2>2. call[u].pc = "search" =>
          \E i, j \in 1 .. Len(r) : i <= j /\ call[u].node = r[i] /\ call[u].ctx = r[j]
    <3>1. \A i \in 1 .. Len(q) : i \in 1 .. Len(r)
      BY <1>5, <1>7
    <3>. QED BY <1>7, <2>1, <3>1 DEF Busy
  <2>3. InList(q, call[u].ctx) => InList(r, call[u].ctx)
    BY <1>5, <1>7 DEF InList
  <2>. QED BY <1>1, <2>1, <2>2, <2>3 DEF Busy
<1>. QED BY <1>7, <1>9, <1>10, <1>11, <1>12, <1>13, <1>14 DEF IsList

LEMMA LinkBackList ==
  ASSUME ListType, NEW q \in Seq(Ctx), IsList(q), NEW t \in Thread, LinkBack(t)
  PROVE  IsList(q)'
<1>. DEFINE c == call[t].ctx
<1>. USE DEF ListType
<1>1. /\ call[t].pc = "back" /\ call[t].op = "insert" /\ c \in Ctx
      /\ heap' = heap /\ owner' = owner
      /\ prev' = [prev EXCEPT ![c] = call[t].node] /\ next' = [next EXCEPT ![c] = NULL]
  BY Holds DEF LinkBack, Shape
<1>2. /\ \A u \in Thread : u # t => call'[u] = call[u]
      /\ call'[t] = Outside
  BY DEF LinkBack, Go, CallType
<1>3. call'[t].op = "none" /\ call'[t].pc = "outside"
  BY <1>2 DEF Outside
<1>4. \A u \in Thread : u # t =>
        /\ call[u].pc \in {"outside", "head", "search"} /\ call[u].op # "insert"
        /\ call[u].op # "none" => call[u].pc \in {"head", "search"}
  BY <1>1, Inserts
<1>5. Linked(q) /\ Len(q) \in Nat /\ Held(q) /\ Busy(q, t)
  BY DEF IsList
<1>6. Len(q) > 0 /\ c = q[Len(q)] /\ call[t].node = At(q, Len(q) - 1)
  BY <1>1, <1>5 DEF Busy
<1>7. next' = next
  <2>1. c = At(q, Len(q))
    BY <1>5, <1>6, Nodes
  <2>2. next[c] = NULL
    BY <1>5, <2>1 DEF Linked
  <2>. QED BY <1>1, <2>2 DEF NodeType
<1>8. Linked(q)'
  BY <1>5, <1>7 DEF Linked
<1>9. BackLinked(q)'
  <2>1. ASSUME NEW i \in 1 .. Len(q) PROVE prev'[q[i]] = At(q, i - 1)
    <3>1. CASE i = Len(q)
      BY <1>1, <1>6, <3>1 DEF NodeType
    <3>2. CASE i # Len(q)
      <4>1. q[i] # c /\ q[i] \in Ctx
        BY <1>5, <1>6, <3>2 DEF Linked
      <4>2. prev[q[i]] = At(q, i - 1)
        BY <1>1, <1>4, <4>1, SMTT(30) DEF IsList, BackLinked
      <4>. QED BY <1>1, <4>1, <4>2 DEF NodeType
    <3>. QED BY <3>1, <3>2
  <2>. QED BY <2>1 DEF BackLinked
<1>10. Held(q)'
  <2>1. \A d \in Ctx : Apart(d) => Apart(d)'
    BY <1>1, <1>2 DEF Apart, Aside
  <2>. QED BY <1>1, <1>5, <2>1 DEF Held
<1>11. Exclusive'
  BY <1>2, <1>3, <1>4 DEF IsList, Exclusive, Unlinking
<1>12. Busy(q, t)'
  BY <1>3 DEF Busy
<1>13. ASSUME NEW u \in Thread, u # t PROVE Busy(q, u)'
  <2>1. Busy(q, u) /\ call'[u] = call[u] /\ call[u].pc \in {"outside", "head", "search"}
    BY <1>2, <1>4, <1>13 DEF IsList
  <2>. QED BY <1>1, <2>1 DEF Busy
<1>. QED BY <1>8, <1>9, <1>10, <1>11, <1>12, <1>13 DEF IsList

-----------------------------------------------------------------------------
(* Steps that take out *)

LEMMA AfterList ==
  ASSUME ListType, NEW q \in Seq(Ctx), IsList(q), NEW t \in Thread, UnlinkAfter(t)
  PROVE  IsList(q)'
<1>. DEFINE c == call[t].ctx
<1>. USE DEF ListType
<1>1. /\ call[t].pc = "tieAfter" /\ Unlinking(t)
      /\ next' = next /\ heap' = heap /\ owner' = owner
      /\ next[c] # NULL /\ prev' = [prev EXCEPT ![next[c]] = prev[c]]
  BY DEF UnlinkAfter, Unlinking
<1>2. /\ \A u \in Thread : u # t => call'[u] = call[u]
      /\ call'[t] = [call[t] EXCEPT !.pc = "before"]
  BY DEF UnlinkAfter, Go, CallType
<1>3. call'[t].op = "close" /\ call'[t].pc = "before" /\ call'[t].ctx = c
  BY <1>1, <1>2, Holds, Taking DEF Operation
<1>4. /\ \A u \in Thread : u # t => call[u].op = "none" /\ call[u].pc = "outside"
      /\ call[t].op = "close" /\ c \in Ctx
      /\ \A k \in 1 .. Len(q) : q[k] = c => prev[q[k]] = At(q, k - 1)
  BY <1>1, Taking
<1>5. Linked(q) /\ Len(q) \in Nat /\ Held(q) /\ Busy(q, t)
  BY DEF IsList
<1>6. PICK k \in 1 .. Len(q) : q[k] = c
  BY <1>1, <1>5 DEF Busy, InList
<1>7. next[c] = IF k = Len(q) THEN NULL ELSE q[k + 1]
  <2>1. At(q, k) = c /\ k \in 0 .. Len(q)
    BY <1>5, <1>6, Nodes
  <2>. QED BY <1>5, <2>1, NextOf
<1>8. /\ \A i \in 1 .. Len(q) : i # k + 1 => prev'[q[i]] = prev[q[i]]
      /\ k + 1 \in 1 .. Len(q) => prev'[q[k + 1]] = At(q, k - 1)
  <2>1. k # Len(q) /\ k + 1 \in 1 .. Len(q)
    BY <1>1, <1>5, <1>7
  <2>2. prev' = [prev EXCEPT ![q[k + 1]] = At(q, k - 1)]
    BY <1>1, <1>4, <1>6, <1>7, <2>1
  <2>3. \A i \in 1 .. Len(q) : q[i] \in Ctx /\ (i # k + 1 => q[i] # q[k + 1])
    BY <1>5, <2>1 DEF Linked
  <2>. QED BY <2>1, <2>2, <2>3 DEF NodeType
<1>9. Linked(q)'
  BY <1>1, <1>5 DEF Linked
<1>10. BackLinked(q)'
  <2>1. ASSUME NEW i \in 1 .. Len(q)
        PROVE  \/ prev'[q[i]] = At(q, i - 1)
               \/ call'[t].pc = "before" /\ i > 1 /\ call'[t].ctx = q[i - 1]
    <3>1. CASE i = k + 1
      BY <1>3, <1>6, <3>1
    <3>2. CASE i # k + 1
      <4>1. prev[q[i]] = At(q, i - 1)
        BY <1>1, <1>4 DEF IsList, BackLinked
      <4>. QED BY <1>8, <3>2, <4>1
    <3>. QED BY <3>1, <3>2
  <2>. QED BY <2>1 DEF BackLinked
<1>11. Held(q)'
  <2>1. \A d \in Ctx : Apart(d) => Apart(d)'
    BY <1>1, <1>2 DEF Apart, Aside
  <2>. QED BY <1>1, <1>5, <2>1 DEF Held
<1>12. Exclusive'
  BY <1>2, <1>3, <1>4 DEF IsList, Exclusive, Unlinking
<1>13. Busy(q, t)'
  <2>1. ASSUME NEW j \in 1 .. Len(q) - 1, q[j] = c PROVE prev'[q[j + 1]] = At(q, j - 1)
    <3>1. j = k /\ k + 1 \in 1 .. Len(q)
      BY <1>5, <1>6, <2>1 DEF Linked
    <3>. QED BY <1>8, <3>1
  <2>2. InList(q, c) /\ owner'[c] = t
    BY <1>1, <1>4, <1>5 DEF Busy
  <2>. QED BY <1>3, <2>1, <2>2 DEF Busy
<1>14. ASSUME NEW u \in Thread, u # t PROVE Busy(q, u)'
  BY <1>2, <1>4, <1>14 DEF Busy
<1>. QED BY <1>9, <1>10, <1>11, <1>12, <1>13, <1>14 DEF IsList

(* r is q without its k-th. *)
Without(q, k, r) ==
  /\ r \in Seq(Ctx) /\ Len(q) \in Nat /\ Len(r) = Len(q) - 1
  /\ \A i \in 1 .. k - 1 : r[i] = q[i]
  /\ \A i \in k .. Len(r) : r[i] = q[i + 1]
  /\ \A i \in 0 .. k - 1 : At(r, i) = At(q, i)
  /\ \A i \in k .. Len(r) : At(r, i) = q[i + 1]

LEMMA Removed ==
  ASSUME NEW q \in Seq(Ctx), NEW k \in 1 .. Len(q), NEW r, r = RemoveAt(q, k)
  PROVE  Without(q, k, r)
<1>. DEFINE a == SubSeq(q, 1, k - 1)
            b == SubSeq(q, k + 1, Len(q))
<1>1. Len(q) \in Nat /\ \A i \in 1 .. Len(q) : q[i] \in Ctx
  OBVIOUS
<1>2. /\ a \in Seq(Ctx) /\ Len(a) = k - 1
      /\ \A i \in 1 .. k - 1 : a[i] = q[i]
  BY <1>1
<1>3. /\ b \in Seq(Ctx) /\ Len(b) = Len(q) - k
      /\ \A i \in 1 .. Len(q) - k : b[i] = q[i + k]
  <2>1. b = [i \in 1 .. Len(q) - k |-> q[i + k]]
    BY <1>1
  <2>. QED BY <1>1, <2>1
<1>4. r = a \o b
  BY DEF RemoveAt
<1>. HIDE DEF a, b
<1>5. r \in Seq(Ctx) /\ Len(r) = Len(a) + Len(b)
  <2>1. a \o b \in Seq(Ctx) /\ Len(a \o b) = Len(a) + Len(b)
    BY <1>2, <1>3, ConcatProperties
  <2>. QED BY <1>4, <2>1
<1>6. \A i \in 1 .. Len(r) : r[i] = IF i <= Len(a) THEN a[i] ELSE b[i - Len(a)]
  BY <1>2, <1>3, <1>4
<1>7. Len(r) = Len(q) - 1
  BY <1>1, <1>2, <1>3, <1>5
<1>8. \A i \in 1 .. k - 1 : r[i] = q[i]
  BY <1>1, <1>2, <1>6, <1>7
<1>9. \A i \in k .. Len(r) : r[i] = q[i + 1]
  <2>1. SUFFICES ASSUME NEW i \in k .. Len(r) PROVE r[i] = q[i + 1]
    OBVIOUS
  <2>2. i \in 1 .. Len(r) /\ ~(i <= Len(a)) /\ i - Len(a) = i - k + 1
          /\ i - k + 1 \in 1 .. Len(q) - k
    BY <1>1, <1>2, <1>7
  <2>3. r[i] = b[i - k + 1]
    BY <1>6, <2>2
  <2>4. PICK j \in 1 .. Len(q) - k : j = i - k + 1
    BY <2>2
  <2>5. b[j] = q[j + k]
    BY <1>3
  <2>6. j + k = i + 1
    BY <1>1, <1>7, <2>4
  <2>. QED BY <2>3, <2>4, <2>5, <2>6
<1>10. \A i \in 0 .. k - 1 : At(r, i) = At(q, i)
  <2>1. \A i \in 0 .. k - 1 : i # 0 => i \in 1 .. k - 1
    OBVIOUS
  <2>. QED BY <1>8, <2>1 DEF At
<1>11. \A i \in k .. Len(r) : At(r, i) = q[i + 1]
  <2>1. \A i \in k .. Len(r) : i # 0
    BY <1>1, <1>7
  <2>. QED BY <1>9, <2>1 DEF At
<1>. QED BY <1>1, <1>5, <1>7, <1>8, <1>9, <1>10, <1>11 DEF Without

LEMMA BeforeList ==
  ASSUME ListType, NEW q \in Seq(Ctx), IsList(q), NEW t \in Thread, UnlinkBefore(t),
         NEW k \in 1 .. Len(q), q[k] = call[t].ctx, NEW r, r = RemoveAt(q, k)
  PROVE  IsList(r)'
<1>. DEFINE c == call[t].ctx
<1>. USE DEF ListType
<1>1. /\ call[t].pc = "tieBefore" /\ Unlinking(t)
      /\ prev' = prev /\ heap' = heap /\ owner' = owner
      /\ next' = [next EXCEPT ![prev[c]] = next[c]]
  BY DEF UnlinkBefore, Unlinking
<1>2. /\ \A u \in Thread : u # t => call'[u] = call[u]
      /\ call'[t] = [call[t] EXCEPT !.pc = "destruct"]
  BY DEF UnlinkBefore, Go, CallType
<1>3. call'[t].op = "close" /\ call'[t].pc = "destruct" /\ call'[t].ctx = c
  BY <1>1, <1>2, Holds, Taking DEF Operation
<1>4. /\ \A u \in Thread : u # t => call[u].op = "none" /\ call[u].pc = "outside"
      /\ call[t].op = "close" /\ c \in Ctx /\ prev[c] = At(q, k - 1)
  BY <1>1, Taking
<1>5. Linked(q) /\ Len(q) \in Nat /\ Held(q) /\ Busy(q, t)
  BY DEF IsList
<1>6. /\ r \in Seq(Ctx) /\ Len(q) \in Nat /\ Len(r) = Len(q) - 1
      /\ \A i \in 1 .. k - 1 : r[i] = q[i]
      /\ \A i \in k .. Len(r) : r[i] = q[i + 1]
      /\ \A i \in 0 .. k - 1 : At(r, i) = At(q, i)
      /\ \A i \in k .. Len(r) : At(r, i) = q[i + 1]
  <2>1. Without(q, k, r)
    BY Removed
  <2>. QED BY <2>1 DEF Without
<1>7. /\ next[c] = IF k = Len(q) THEN NULL ELSE q[k + 1]
      /\ next' = [next EXCEPT ![At(q, k - 1)] = next[c]]
  <2>1. At(q, k) = c /\ k \in 0 .. Len(q) /\ k - 1 \in 0 .. Len(q)
    BY <1>5, Nodes
  <2>. QED BY <1>1, <1>4, <1>5, <2>1, NextOf
<1>8. \A i \in 0 .. Len(q) : next'[At(q, i)] = IF i = k - 1 THEN next[c] ELSE next[At(q, i)]
  BY <1>5, <1>7, Nodes DEF NodeType
<1>9. /\ \A i \in 1 .. Len(q) : i # k + 1 => prev[q[i]] = At(q, i - 1)
      /\ k + 1 \in 1 .. Len(q) => prev[q[k + 1]] = At(q, k - 1)
  <2>1. ASSUME NEW i \in 1 .. Len(q), i # k + 1 PROVE prev[q[i]] = At(q, i - 1)
    <3>1. i > 1 => i - 1 \in 1 .. Len(q) /\ i - 1 # k
      BY <1>5, <2>1
    <3>2. i > 1 => q[i - 1] # c
      BY <1>5, <3>1 DEF Linked
    <3>. QED BY <1>1, <1>4, <3>2 DEF IsList, BackLinked
  <2>2. k + 1 \in 1 .. Len(q) => k \in 1 .. Len(q) - 1
    BY <1>5
  <2>. QED BY <1>1, <1>5, <2>1, <2>2 DEF Busy
<1>10. Linked(r)'
  <2>1. \A i \in 1 .. Len(r) : \/ i \in 1 .. k - 1 /\ i \in 1 .. Len(q)
                               \/ i \in k .. Len(r) /\ i + 1 \in 1 .. Len(q)
    BY <1>5, <1>6
  <2>2. \A i, j \in 1 .. Len(r) : r[i] = r[j] => i = j
    <3>1. SUFFICES ASSUME NEW i \in 1 .. Len(r), NEW j \in 1 .. Len(r), r[i] = r[j]
                   PROVE  i = j
      OBVIOUS
    <3>2. \A m, n \in 1 .. Len(q) : q[m] = q[n] => m = n
      BY <1>5 DEF Linked
    <3>3. CASE i \in 1 .. k - 1 /\ j \in 1 .. k - 1
      BY <1>6, <2>1, <3>1, <3>2, <3>3
    <3>4. CASE i \in 1 .. k - 1 /\ j \in k .. Len(r)
      <4>1. q[i] = q[j + 1] /\ j + 1 \in 1 .. Len(q) /\ i \in 1 .. Len(q)
        BY <1>5, <1>6, <3>1, <3>4
      <4>2. i = j + 1
        BY <3>2, <4>1
      <4>. QED BY <3>4, <4>2
    <3>5. CASE i \in k .. Len(r) /\ j \in 1 .. k - 1
      <4>1. q[j] = q[i + 1] /\ i + 1 \in 1 .. Len(q) /\ j \in 1 .. Len(q)
        BY <1>5, <1>6, <3>1, <3>5
      <4>2. j = i + 1
        BY <3>2, <4>1
      <4>. QED BY <3>5, <4>2
    <3>6. CASE i \in k .. Len(r) /\ j \in k .. Len(r)
      <4>1. q[i + 1] = q[j + 1] /\ i + 1 \in 1 .. Len(q) /\ j + 1 \in 1 .. Len(q)
        BY <1>5, <1>6, <3>1, <3>6
      <4>2. i + 1 = j + 1
        BY <3>2, <4>1
      <4>. QED BY <4>2
    <3>. QED BY <2>1, <3>3, <3>4, <3>5, <3>6
  <2>3. ASSUME NEW i \in 0 .. Len(r)
        PROVE  next'[At(r, i)] = IF i = Len(r) THEN NULL ELSE r[i + 1]
    <3>1. CASE i < k - 1
      <4>1. i \in 0 .. Len(q) /\ i # Len(q) /\ i # Len(r) /\ i # k - 1 /\ i \in 0 .. k - 1
              /\ i + 1 \in 1 .. k - 1
        BY <1>5, <1>6, <3>1
      <4>2. next[At(q, i)] = q[i + 1]
        BY <1>5, <4>1, NextOf
      <4>. QED BY <1>6, <1>8, <4>1, <4>2
    <3>2. CASE i = k - 1
      <4>1. i \in 0 .. Len(q) /\ i \in 0 .. k - 1
        BY <1>5, <3>2
      <4>2. next'[At(r, i)] = next[c]
        BY <1>6, <1>8, <3>2, <4>1
      <4>3. i = Len(r) <=> k = Len(q)
        BY <1>5, <1>6, <3>2
      <4>4. i # Len(r) => r[i + 1] = q[k + 1]
        <5>1. i # Len(r) => k \in k .. Len(r)
          BY <1>5, <1>6, <3>2
        <5>. QED BY <1>6, <3>2, <5>1
      <4>. QED BY <1>7, <4>2, <4>3, <4>4
    <3>3. CASE i > k - 1
      <4>1. PICK m \in 1 .. Len(q) : m = i + 1
        BY <1>5, <1>6, <3>3
      <4>2. i \in k .. Len(r) /\ m # k - 1 /\ m \in 0 .. Len(q) /\ (m = Len(q) <=> i = Len(r))
        BY <1>5, <1>6, <3>3, <4>1
      <4>3. At(r, i) = At(q, m)
        BY <1>5, <1>6, <4>1, <4>2, Nodes
      <4>4. next[At(q, m)] = IF m = Len(q) THEN NULL ELSE q[m + 1]
        BY <1>5, <4>2, NextOf
      <4>5. i # Len(r) => r[i + 1] = q[m + 1]
        <5>1. i # Len(r) => i + 1 \in k .. Len(r)
          BY <1>5, <1>6, <3>3
        <5>. QED BY <1>6, <4>1, <5>1
      <4>. QED BY <1>8, <4>2, <4>3, <4>4, <4>5
    <3>. QED BY <3>1, <3>2, <3>3
  <2>4. \A i \in 0 .. Len(r) - 1 : i \in 0 .. Len(r) /\ i # Len(r)
    BY <1>5, <1>6
  <2>5. Len(r) \in 0 .. Len(r)
    BY <1>5, <1>6
  <2>. QED BY <2>2, <2>3, <2>4, <2>5 DEF Linked
<1>11. BackLinked(r)'
  <2>1. ASSUME NEW i \in 1 .. Len(r) PROVE prev[r[i]] = At(r, i - 1)
    <3>1. CASE i < k
      <4>1. i \in 1 .. k - 1 /\ i \in 1 .. Len(q) /\ i # k + 1 /\ i - 1 \in 0 .. k - 1
        BY <1>5, <3>1
      <4>. QED BY <1>6, <1>9, <4>1
    <3>2. CASE i = k
      <4>1. i \in k .. Len(r) /\ k + 1 \in 1 .. Len(q) /\ k - 1 \in 0 .. k - 1
        BY <1>5, <1>6, <3>2
      <4>. QED BY <1>6, <1>9, <3>2, <4>1
    <3>3. CASE i > k
      <4>1. PICK m \in 1 .. Len(q) : m = i + 1
        BY <1>5, <1>6, <3>3
      <4>2. i \in k .. Len(r) /\ m # k + 1 /\ i - 1 \in k .. Len(r) /\ m - 1 = i /\ i # 0
              /\ (i - 1) + 1 = i
        BY <1>5, <1>6, <3>3, <4>1
      <4>3. PICK n \in k .. Len(r) : n = i - 1
        BY <4>2
      <4>4. n + 1 = i
        BY <1>6, <4>3
      <4>5. prev[q[m]] = At(q, m - 1) /\ At(q, m - 1) = q[i]
        BY <1>9, <4>2 DEF At
      <4>6. At(r, n) = q[i]
        BY <1>6, <4>4
      <4>. QED BY <1>6, <4>1, <4>2, <4>3, <4>5, <4>6
    <3>. QED BY <3>1, <3>2, <3>3
  <2>. QED BY <1>1, <2>1 DEF BackLinked
<1>12. /\ ~InList(r, c)
       /\ \A d \in Ctx : InList(q, d) => d = c \/ InList(r, d)
       /\ \A d \in Ctx : InList(r, d) => InList(q, d)
  <2>1. \A i \in 1 .. Len(r) : \/ i \in 1 .. k - 1 /\ i \in 1 .. Len(q)
                               \/ i \in k .. Len(r) /\ i + 1 \in 1 .. Len(q) /\ i + 1 # k
    BY <1>5, <1>6
  <2>2. ASSUME NEW i \in 1 .. Len(r) PROVE r[i] # c /\ InList(q, r[i])
    <3>1. CASE i \in 1 .. k - 1
      BY <1>5, <1>6, <2>1, <3>1 DEF Linked, InList
    <3>2. CASE i \in k .. Len(r)
      <4>1. PICK m \in 1 .. Len(q) : m = i + 1 /\ m # k
        BY <1>5, <1>6, <3>2
      <4>2. r[i] = q[m]
        BY <1>6, <3>2, <4>1
      <4>. QED BY <1>5, <4>1, <4>2 DEF Linked, InList
    <3>. QED BY <2>1, <3>1, <3>2
  <2>3. ASSUME NEW i \in 1 .. Len(q), i # k PROVE InList(r, q[i])
    <3>1. CASE i < k
      <4>1. i \in 1 .. k - 1 /\ i \in 1 .. Len(r)
        BY <1>5, <1>6, <3>1
      <4>. QED BY <1>6, <4>1 DEF InList
    <3>2. CASE i > k
      <4>1. PICK n \in k .. Len(r) : n + 1 = i
        <5>1. i - 1 \in k .. Len(r) /\ (i - 1) + 1 = i
          BY <1>5, <1>6, <3>2
        <5>. QED BY <5>1
      <4>2. n \in 1 .. Len(r)
        BY <1>5, <1>6, <4>1
      <4>3. r[n] = q[i]
        <5>1. r[n] = q[n + 1]
          BY <1>6
        <5>2. n + 1 = i
          BY <4>1
        <5>. QED BY <5>1, <5>2, Zenon
      <4>. QED BY <4>2, <4>3 DEF InList
    <3>. QED BY <2>3, <3>1, <3>2
  <2>. QED BY <2>2, <2>3 DEF InList
<1>13. Held(r)'
  <2>1. \A i \in 1 .. Len(r) : heap[r[i]]
    <3>1. \A i \in 1 .. Len(r) : r[i] \in Ctx /\ InList(r, r[i])
      BY <1>6 DEF InList
    <3>2. \A d \in Ctx : InList(r, d) => InList(q, d)
      BY <1>12
    <3>3. \A d \in Ctx : InList(q, d) => heap[d]
      BY <1>5 DEF Held, InList
    <3>. QED BY <3>1, <3>2, <3>3
  <2>2. ASSUME NEW d \in Ctx, heap[d] PROVE InList(r, d) \/ Apart(d)'
    <3>1. CASE d = c
      BY <1>3, <3>1 DEF Apart, Aside
    <3>2. CASE d # c
      <4>1. InList(q, d) \/ Apart(d)
        BY <1>5, <2>2 DEF Held
      <4>2. Apart(d) => Apart(d)'
        BY <1>2, <3>2 DEF Apart, Aside
      <4>. QED BY <1>12, <3>2, <4>1, <4>2
    <3>. QED BY <3>1, <3>2
  <2>. QED BY <1>1, <1>5, <2>1, <2>2 DEF Held
<1>14. Exclusive'
  BY <1>2, <1>3, <1>4 DEF IsList, Exclusive, Unlinking
<1>15. Busy(r, t)'
  <2>1. owner'[c] = t
    BY <1>1, <1>4, <1>5 DEF Busy
  <2>. QED BY <1>3, <1>12, <2>1 DEF Busy
<1>16. ASSUME NEW u \in Thread, u # t PROVE Busy(r, u)'
  BY <1>2, <1>4, <1>16 DEF Busy
<1>. QED BY <1>6, <1>10, <1>11, <1>13, <1>14, <1>15, <1>16 DEF IsList

LEMMA DestructList ==
  ASSUME ListType, NEW q \in Seq(Ctx), IsList(q), NEW t \in Thread, Destruct(t)
  PROVE  IsList(q)'
<1>. DEFINE c == call[t].ctx
<1>. USE DEF ListType
<1>1. /\ call[t].pc = "destruct" /\ Unlinking(t)
      /\ next' = [next EXCEPT ![c] = NULL] /\ prev' = [prev EXCEPT ![c] = NULL]
      /\ heap' = heap /\ owner' = owner
  BY DEF Destruct, Unlinking
<1>2. /\ \A u \in Thread : u # t => call'[u] = call[u]
      /\ call'[t] = [call[t] EXCEPT !.pc = "free"]
  BY DEF Destruct, Go, CallType
<1>3. /\ \A u \in Thread : u # t => call[u].op = "none" /\ call[u].pc = "outside"
      /\ c \in Ctx /\ call[t].op = "close"
  BY <1>1, Taking
<1>4. call'[t].op = "close" /\ call'[t].pc = "free" /\ call'[t].ctx = c
  BY <1>1, <1>2, <1>3, Holds DEF Operation
<1>5. Linked(q) /\ Len(q) \in Nat /\ Held(q) /\ Busy(q, t) /\ ~InList(q, c)
  BY <1>1 DEF IsList, Busy
<1>6. /\ c # Root
      /\ \A i \in 1 .. Len(q) : q[i] \in Ctx /\ q[i] # c
      /\ \A i \in 0 .. Len(q) : At(q, i) # c /\ At(q, i) \in Ctx \cup {Root}
  <2>1. c # Root /\ \A i \in 1 .. Len(q) : q[i] # c
    BY <1>3, <1>5, ListAssumption DEF InList
  <2>. QED BY <1>5, <2>1, Nodes DEF At
<1>7. /\ \A i \in 0 .. Len(q) : next'[At(q, i)] = next[At(q, i)]
      /\ \A i \in 1 .. Len(q) : prev'[q[i]] = prev[q[i]]
  BY <1>1, <1>6 DEF NodeType
<1>8. Linked(q)'
  BY <1>5, <1>7 DEF Linked
<1>9. BackLinked(q)'
  <2>1. ASSUME NEW i \in 1 .. Len(q) PROVE prev'[q[i]] = At(q, i - 1)
    <3>1. \A u \in Thread : call[u].pc \notin {"back", "before", "tieBefore"}
      BY <1>1, <1>3
    <3>2. BackLinked(q)
      BY DEF IsList
    <3>3. prev[q[i]] = At(q, i - 1)
      BY <3>1, <3>2 DEF BackLinked
    <3>. QED BY <1>7, <3>3
  <2>. QED BY <2>1 DEF BackLinked
<1>10. Held(q)'
  <2>1. ASSUME NEW u \in Thread, call[u].pc \in Aside
        PROVE  call'[u].ctx = call[u].ctx /\ call'[u].pc \in Aside
    BY <1>2, <1>4, <2>1 DEF Aside
  <2>2. \A d \in Ctx : Apart(d) => Apart(d)'
    BY <2>1 DEF Apart
  <2>. QED BY <1>1, <1>5, <2>2 DEF Held
<1>11. Exclusive'
  BY <1>2, <1>3, <1>4 DEF Exclusive, Unlinking
<1>12. Busy(q, t)'
  BY <1>1, <1>3, <1>4, <1>5 DEF Busy
<1>13. ASSUME NEW u \in Thread, u # t PROVE Busy(q, u)'
  BY <1>2, <1>3, <1>13 DEF Busy
<1>. QED BY <1>8, <1>9, <1>10, <1>11, <1>12, <1>13 DEF IsList

LEMMA FreeList ==
  ASSUME ListType, NEW q \in Seq(Ctx), IsList(q), NEW t \in Thread, Free(t)
  PROVE  IsList(q)'
<1>. DEFINE c == call[t].ctx
<1>. USE DEF ListType
<1>1. /\ call[t].pc = "free" /\ Unlinking(t)
      /\ next' = next /\ prev' = prev
      /\ heap' = [heap EXCEPT ![c] = FALSE] /\ owner' = [owner EXCEPT ![c] = NULL]
  BY DEF Free, Unlinking
<1>2. /\ \A u \in Thread : u # t => call'[u] = call[u]
      /\ call'[t].op = "none" /\ call'[t].pc = "outside"
  BY DEF Free, Go, CallType, Outside
<1>3. /\ \A u \in Thread : u # t => call[u].op = "none" /\ call[u].pc = "outside"
      /\ c \in Ctx
  BY <1>1, Taking
<1>4. Linked(q) /\ Len(q) \in Nat /\ Held(q) /\ ~InList(q, c)
  BY <1>1 DEF IsList, Busy
<1>5. \A i \in 1 .. Len(q) : q[i] \in Ctx /\ q[i] # c
  BY <1>3, <1>4 DEF InList
<1>6. Linked(q)'
  BY <1>1, <1>4 DEF Linked
<1>7. BackLinked(q)'
  <2>1. ASSUME NEW i \in 1 .. Len(q) PROVE prev'[q[i]] = At(q, i - 1)
    <3>1. \A u \in Thread : call[u].pc \notin {"back", "before", "tieBefore"}
      BY <1>1, <1>3
    <3>2. BackLinked(q)
      BY DEF IsList
    <3>. QED BY <1>1, <3>1, <3>2 DEF BackLinked
  <2>. QED BY <2>1 DEF BackLinked
<1>8. Held(q)'
  <2>1. \A d \in Ctx : heap'[d] <=> owner'[d] # NULL
    BY <1>1, <1>4, ListAssumption DEF Held, NodeType
  <2>2. \A i \in 1 .. Len(q) : heap'[q[i]]
    BY <1>1, <1>4, <1>5 DEF Held, NodeType
  <2>3. ASSUME NEW d \in Ctx, heap'[d] PROVE InList(q, d)
    <3>1. d # c /\ heap[d]
      BY <1>1, <2>3 DEF NodeType
    <3>2. InList(q, d) \/ Apart(d)
      BY <1>4, <3>1 DEF Held
    <3>. QED BY <1>3, <3>1, <3>2 DEF Apart, Aside
  <2>. QED BY <2>1, <2>2, <2>3 DEF Held
<1>9. Exclusive'
  BY <1>2, <1>3 DEF Exclusive, Unlinking
<1>10. \A u \in Thread : Busy(q, u)'
  BY <1>2, <1>3 DEF Busy
<1>. QED BY <1>6, <1>7, <1>8, <1>9, <1>10 DEF IsList

-----------------------------------------------------------------------------
(* Harm needs overlap *)

(* A thread in an operation holds an allocated context, and so is every node *)
(* it touches.                                                               *)
LEMMA NothingMissed ==
  ASSUME ListType, NEW q \in Seq(Ctx), IsList(q), NEW t \in Thread
  PROVE  ~NotFound(t) /\ ~Faults(t)
<1>. USE DEF ListType
<1>1. Busy(q, t) /\ Held(q) /\ Linked(q) /\ Len(q) \in Nat
  BY DEF IsList
<1>2. \A i \in 1 .. Len(q) : q[i] \in Ctx /\ ~Freed(q[i]) /\ q[i] # NULL
  BY <1>1, ListAssumption DEF Held, Freed
<1>3. \A i \in 0 .. Len(q) : ~Freed(At(q, i))
  BY <1>1, <1>2, ListAssumption DEF At, Freed
<1>4. ~Freed(NULL)
  BY ListAssumption DEF Freed
<1>5. call[t].pc \notin {"outside", "lost"} => ~Freed(call[t].ctx)
  <2>1. SUFFICES ASSUME call[t].pc \notin {"outside", "lost"} PROVE ~Freed(call[t].ctx)
    OBVIOUS
  <2>2. call[t].op # "none" /\ call[t].ctx \in Ctx
    BY <2>1, Holds DEF Shape
  <2>3. owner[call[t].ctx] # NULL
    BY <1>1, <2>2, ListAssumption DEF Busy
  <2>. QED BY <1>1, <2>2, <2>3 DEF Held, Freed
<1>6. ~NotFound(t)
  BY <1>1, <1>2 DEF NotFound, Busy
<1>7. call[t].pc \in {"walk", "step", "link", "search"} => ~Freed(call[t].node)
  BY <1>1, <1>2, <1>3 DEF Busy
<1>8. call[t].pc \in {"tieAfter", "tieBefore"} =>
        /\ ~Freed(next[call[t].ctx]) /\ ~Freed(prev[call[t].ctx]) /\ prev[call[t].ctx] # NULL
        /\ call[t].pc = "tieAfter" => next[call[t].ctx] # NULL
  <2>1. SUFFICES ASSUME call[t].pc \in {"tieAfter", "tieBefore"}
                 PROVE  /\ ~Freed(next[call[t].ctx]) /\ ~Freed(prev[call[t].ctx])
                        /\ prev[call[t].ctx] # NULL
                        /\ call[t].pc = "tieAfter" => next[call[t].ctx] # NULL
    OBVIOUS
  <2>2. PICK k \in 1 .. Len(q) : q[k] = call[t].ctx
    BY <1>1, <2>1 DEF Busy, InList
  <2>3. prev[q[k]] = At(q, k - 1) /\ k - 1 \in 0 .. Len(q)
    BY <1>1, <2>1, <2>2, Taking DEF Unlinking
  <2>4. next[q[k]] = IF k = Len(q) THEN NULL ELSE q[k + 1]
    <3>1. k \in 0 .. Len(q) /\ At(q, k) = q[k]
      BY <1>1, Nodes
    <3>. QED BY <1>1, <3>1, NextOf
  <2>5. k # Len(q) => k + 1 \in 1 .. Len(q)
    BY <1>1
  <2>6. At(q, k - 1) # NULL
    BY <1>1, <2>3, Nodes
  <2>7. call[t].pc = "tieAfter" => next[call[t].ctx] # NULL
    BY <1>1 DEF Busy
  <2>. QED BY <1>2, <1>3, <1>4, <2>2, <2>3, <2>4, <2>5, <2>6, <2>7
<1>9. call[t].pc = "link" => call[t].node # NULL
  <2>1. call[t].pc = "link" => call[t].node = At(q, Len(q)) /\ Len(q) \in 0 .. Len(q)
    BY <1>1 DEF Busy
  <2>. QED BY <1>1, <2>1, Nodes
<1>10. call[t].pc = "head" => next[Root] # NULL
  <2>1. SUFFICES ASSUME call[t].pc = "head" PROVE next[Root] # NULL
    OBVIOUS
  <2>2. Len(q) > 0
    BY <1>1, <2>1 DEF Busy, InList
  <2>3. next[At(q, 0)] = q[0 + 1] /\ q[0 + 1] # NULL
    BY <1>1, <1>2, <2>2 DEF Linked
  <2>. QED BY <1>1, <2>3, Nodes
<1>. QED BY <1>5, <1>6, <1>7, <1>8, <1>9, <1>10 DEF Faults

LEMMA InitList == Init => IsList(<<>>)
<1>. SUFFICES ASSUME Init PROVE IsList(<<>>)
  OBVIOUS
<1>1. \A t \in Thread : call[t].op = "none" /\ call[t].pc = "outside"
  BY DEF Init, Outside
<1>2. Linked(<<>>)
  BY DEF Init, Linked, At
<1>3. Held(<<>>)
  BY DEF Init, Held
<1>4. BackLinked(<<>>) /\ Exclusive /\ \A t \in Thread : Busy(<<>>, t)
  BY <1>1 DEF BackLinked, Exclusive, Unlinking, Busy
<1>. QED BY <1>2, <1>3, <1>4 DEF IsList

(* A step of the pointers is none of the list, or one of CtxList. *)
ListStep(q, r) ==
  \/ r = q
  \/ \E c \in Ctx : ~InList(q, c) /\ r = Append(q, c)
  \/ \E k \in 1 .. Len(q) : r = RemoveAt(q, k)

LEMMA KeepsList ==
  ASSUME ListType, NEW q \in Seq(Ctx), IsList(q), [Next]_vars, ~mixed'
  PROVE  harm' = harm /\ \E r \in Seq(Ctx) : IsList(r)' /\ ListStep(q, r)
<1>1. CASE UNCHANGED vars
  <2>1. IsList(q)'
    BY <1>1 DEF vars, nodes, IsList, Linked, BackLinked, Held, Apart, Exclusive, Unlinking, Busy
  <2>. QED BY <1>1, <2>1 DEF vars, ListStep
<1>2. CASE Next
  <2>1. PICK t \in Thread :
          \/ \E c \in Ctx : createInetCtx(t, c)
          \/ Walk(t) \/ Step(t) \/ Link(t) \/ LinkBack(t)
          \/ \E c \in Ctx, op \in {"find", "close"} : Search(t, c, op)
          \/ SearchFirst(t) \/ SearchNext(t) \/ Found(t) \/ Removing(t) \/ Free(t)
    BY <1>2, NothingMissed DEF Next, Removing
  <2>2. harm' = harm
    BY <2>1 DEF createInetCtx, Walk, Step, Link, LinkBack, Search, SearchFirst, SearchNext,
                Found, Removing, Test, TestAfter, UnlinkAfter, TestBefore, UnlinkBefore,
                Destruct, Free
  <2>3. CASE Link(t)
    <3>1. PICK c \in Ctx : c = call[t].ctx
      BY <2>3, Holds DEF ListType, Link
    <3>2. ~InList(q, c)
      BY <2>3, <3>1 DEF IsList, Busy, Link
    <3>3. PICK r : r = Append(q, c)
      OBVIOUS
    <3>4. IsList(r)'
      BY <2>3, <3>1, <3>3, LinkList
    <3>. QED BY <2>2, <3>2, <3>3, <3>4 DEF ListStep, IsList
  <2>4. CASE UnlinkBefore(t)
    <3>1. PICK k \in 1 .. Len(q) : q[k] = call[t].ctx
      BY <2>4 DEF IsList, Busy, InList, UnlinkBefore
    <3>2. PICK r : r = RemoveAt(q, k)
      OBVIOUS
    <3>3. IsList(r)'
      BY <2>4, <3>1, <3>2, BeforeList
    <3>. QED BY <2>2, <3>2, <3>3 DEF ListStep, IsList
  <2>5. CASE ~Link(t) /\ ~UnlinkBefore(t)
    <3>1. CASE \E c \in Ctx : createInetCtx(t, c)
      BY <2>2, <3>1, CreateList DEF ListStep
    <3>2. CASE \E c \in Ctx, op \in {"find", "close"} : Search(t, c, op)
      BY <2>2, <3>2, SearchList DEF ListStep
    <3>3. CASE Walk(t) \/ Step(t) \/ LinkBack(t)
      BY <2>2, <3>3, WalkList, LinkBackList DEF ListStep
    <3>5. CASE SearchFirst(t) \/ SearchNext(t) \/ Found(t)
      BY <2>2, <3>5, SearchFirstList, SearchNextList, FoundList DEF ListStep
    <3>4. CASE Removing(t) \/ Free(t)
      BY <2>2, <2>5, <3>4, TestList, AfterList, DestructList, FreeList DEF ListStep, Removing
    <3>. QED BY <2>1, <2>5, <3>1, <3>2, <3>3, <3>4, <3>5
  <2>. QED BY <2>3, <2>4, <2>5
<1>. QED BY <1>1, <1>2

(* Overlap is remembered. *)
LEMMA MixedStays == ListType /\ [Next]_vars /\ mixed => mixed'
BY DEF ListType, Next, vars, nodes, createInetCtx, Walk, Step, Link, LinkBack, Search,
       SearchFirst, SearchNext, Found, NotFound, Test, TestAfter, UnlinkAfter, TestBefore,
       UnlinkBefore, Destruct, Free, Faults, Meets

LEMMA ListInvInit == Init => ListInv
<1>1. <<>> \in Seq(Ctx)
  OBVIOUS
<1>. QED BY <1>1, InitList DEF Init, ListInv

LEMMA ListInvNext == ListType /\ ListInv /\ [Next]_vars => ListInv'
<1>. SUFFICES ASSUME ListType, ListInv, [Next]_vars, ~mixed'
              PROVE  ~harm' /\ \E r \in Seq(Ctx) : IsList(r)'
  BY DEF ListInv
<1>1. PICK q \in Seq(Ctx) : IsList(q)
  BY MixedStays DEF ListInv
<1>2. ~harm
  BY MixedStays DEF ListInv
<1>. QED BY <1>1, <1>2, KeepsList

LEMMA ListKept == Spec => []ListInv
BY ListTyped, ListInvInit, ListInvNext, PTL DEF Spec

(* Pointers lead to contexts, to the head or nowhere, however operations     *)
(* overlap, and insertInetCtx comes to hold the null pointer as the node to  *)
(* append to only once some have that must not.                              *)
THEOREM PointersTyped == Spec => []TypeOK
<1>1. ASSUME ListType, ListInv PROVE TypeOK
  <2>1. {mixed, harm} \subseteq BOOLEAN
    BY <1>1, Zenon DEF ListType
  <2>2. ASSUME NEW t \in Thread
        PROVE  /\ call[t].op \in {"none", "insert", "find", "close"}
               /\ call[t].ctx \in Ctx \cup {NULL} /\ call[t].node \in Ctx \cup {Root, NULL}
               /\ call[t].op = "insert" => call[t].ctx # NULL
               /\ call[t].op = "insert" /\ call[t].node = NULL => call[t].pc = "link"
    BY <1>1, ListAssumption DEF ListType, CallType, Operation, Shape
  <2>3. ASSUME NEW t \in Thread, call[t].pc = "link", call[t].node = NULL PROVE mixed
    <3>1. SUFFICES ASSUME ~mixed PROVE FALSE
      OBVIOUS
    <3>2. PICK q \in Seq(Ctx) : IsList(q)
      BY <1>1, <3>1 DEF ListInv
    <3>3. Linked(q) /\ Len(q) \in 0 .. Len(q) /\ call[t].node = At(q, Len(q))
      BY <2>3, <3>2 DEF IsList, Busy
    <3>. QED BY <2>3, <3>3, Nodes
  <2>. QED BY <1>1, <2>1, <2>2, <2>3, Zenon DEF TypeOK, ListType, NodeType
<1>. QED BY ListTyped, ListKept, <1>1, PTL

(* Freed memory is touched, a null pointer followed, or a context missed by  *)
(* the search for its handle, only after operations overlapped that must     *)
(* not: insertInetCtx may run while others look for their contexts, and      *)
(* nothing else needs a lock but two changes of the list, or a removal and a *)
(* walk.                                                                     *)
THEOREM HarmAlwaysNeedsOverlap == Spec => []HarmNeedsOverlap
<1>1. ListType /\ ListInv => HarmNeedsOverlap
  BY DEF ListType, ListInv, HarmNeedsOverlap
<1>. QED BY ListTyped, ListKept, <1>1, PTL

-----------------------------------------------------------------------------
(* Walks *)

Below == {p \in Nat \X Nat : p[1] < p[2]}

LEMMA BelowIs == IsWellFoundedOn(Below, Nat)
<1>1. Below = OpToRel(<, Nat)
  BY DEF OpToRel, Below
<1>. QED BY <1>1, NatLessThanWellFounded

LEMMA Least ==
  ASSUME NEW S, S \subseteq Nat, S # {}
  PROVE  \E n \in S : \A m \in S : n <= m
<1>1. \E n \in S : \A m \in S : <<m, n>> \notin Below
  BY BelowIs, WFMin
<1>2. \A m, n \in Nat : <<m, n>> \notin Below => n <= m
  BY DEF Below
<1>. QED BY <1>1, <1>2

(* Induction, for a set instead of a predicate. *)
LEMMA SetInduction ==
  ASSUME NEW S, 0 \in S, \A n \in Nat : n \in S => n + 1 \in S
  PROVE  Nat \subseteq S
<1>1. SUFFICES ASSUME Nat \ S # {} PROVE FALSE
  OBVIOUS
<1>2. PICK n \in Nat \ S : \A m \in Nat \ S : n <= m
  BY <1>1, Least
<1>3. n # 0 /\ n - 1 \in Nat /\ n - 1 \in S
  BY <1>2
<1>. QED BY <1>2, <1>3

(* What the walk of Chain has met after n steps, if the list is q. *)
Onward(w) == IF Last(w) = NULL THEN w ELSE Append(w, next[Last(w)])
Met(q, n) == IF n < Len(q) THEN SubSeq(q, 1, n + 1) ELSE Append(q, NULL)
Rec(f) == [n \in 0 .. Cardinality(Ctx) |-> IF n = 0 THEN <<next[Root]>> ELSE Onward(f[n - 1])]
Walked == CHOOSE f : f = Rec(f)

LEMMA ChainWalked == Chain = Front(Walked[Cardinality(Ctx)])
BY DEF Chain, Walked, Rec, Onward

LEMMA MetNext ==
  ASSUME NEW q \in Seq(Ctx), Linked(q)
  PROVE  /\ Met(q, 0) = <<next[Root]>>
         /\ \A n \in Nat : Met(q, n + 1) = Onward(Met(q, n))
<1>. DEFINE Node == Ctx \cup {NULL}
<1>1. Len(q) \in Nat /\ \A i \in 1 .. Len(q) : q[i] \in Ctx /\ q[i] # NULL
  BY ListAssumption
<1>2. q \in Seq(Node) /\ NULL \in Node
  OBVIOUS
<1>3. /\ Append(q, NULL) \in Seq(Node) /\ Len(Append(q, NULL)) = Len(q) + 1
      /\ \A i \in 1 .. Len(q) : Append(q, NULL)[i] = q[i]
      /\ Append(q, NULL)[Len(q) + 1] = NULL
  BY <1>2, AppendProperties
<1>4. ASSUME NEW n \in 1 .. Len(q)
      PROVE  /\ SubSeq(q, 1, n) \in Seq(Node) /\ Len(SubSeq(q, 1, n)) = n
             /\ \A i \in 1 .. n : SubSeq(q, 1, n)[i] = q[i]
             /\ next[q[n]] = IF n = Len(q) THEN NULL ELSE q[n + 1]
  <2>1. /\ SubSeq(q, 1, n) \in Seq(Node) /\ Len(SubSeq(q, 1, n)) = n
        /\ \A i \in 1 .. n : SubSeq(q, 1, n)[i] = q[i]
    <3>1. \A i \in 1 .. n : q[i] \in Node
      BY <1>1
    <3>2. \A i \in 1 .. n - 1 + 1 : SubSeq(q, 1, n)[i] = q[1 + i - 1]
      BY <1>1, <3>1, SubSeqProperties
    <3>. QED BY <1>1, <3>1, <3>2, SubSeqProperties
  <2>2. next[At(q, n)] = IF n = Len(q) THEN NULL ELSE q[n + 1]
    BY <1>1, NextOf
  <2>. QED BY <2>1, <2>2 DEF At
<1>. HIDE DEF Node
<1>5. Met(q, 0) = <<next[Root]>>
  <2>1. next[Root] = IF 0 = Len(q) THEN NULL ELSE q[1]
    <3>1. next[At(q, 0)] = IF 0 = Len(q) THEN NULL ELSE q[0 + 1]
      BY <1>1, NextOf
    <3>. QED BY <3>1 DEF At
  <2>2. CASE Len(q) = 0
    <3>1. q = <<>>
      BY <2>2
    <3>. QED BY <2>1, <2>2, <3>1 DEF Met
  <2>3. CASE Len(q) # 0
    <3>1. SubSeq(q, 1, 1) = <<q[1]>>
      <4>1. <<q[1]>> \in Seq(Node) /\ Len(<<q[1]>>) = 1 /\ <<q[1]>>[1] = q[1]
        BY <1>1, <2>3 DEF Node
      <4>2. /\ SubSeq(q, 1, 1) \in Seq(Node) /\ Len(SubSeq(q, 1, 1)) = 1
            /\ \A i \in 1 .. 1 : SubSeq(q, 1, 1)[i] = <<q[1]>>[i]
        BY <1>1, <1>4, <2>3, <4>1
      <4>. QED BY <4>1, <4>2, SeqEqual
    <3>. QED BY <1>1, <2>1, <2>3, <3>1 DEF Met
  <2>. QED BY <2>2, <2>3
<1>6. ASSUME NEW n \in Nat PROVE Met(q, n + 1) = Onward(Met(q, n))
  <2>1. CASE n >= Len(q)
    <3>1. Met(q, n) = Append(q, NULL) /\ Met(q, n + 1) = Append(q, NULL)
      BY <1>1, <2>1 DEF Met
    <3>2. Last(Append(q, NULL)) = NULL
      BY <1>3 DEF Last
    <3>. QED BY <3>1, <3>2 DEF Onward
  <2>2. CASE n < Len(q)
    <3>1. n + 1 \in 1 .. Len(q)
      BY <1>1, <2>2
    <3>2. PICK m \in 1 .. Len(q) : m = n + 1
      BY <3>1
    <3>3. Met(q, n) = SubSeq(q, 1, m)
      BY <2>2, <3>2 DEF Met
    <3>4. Last(SubSeq(q, 1, m)) = q[m] /\ q[m] # NULL
      BY <1>1, <1>4 DEF Last
    <3>5. Onward(Met(q, n)) = Append(SubSeq(q, 1, m), next[q[m]])
      BY <3>3, <3>4 DEF Onward
    <3>6. CASE m = Len(q)
      <4>1. Met(q, n + 1) = Append(q, NULL)
        BY <1>1, <3>2, <3>6 DEF Met
      <4>2. SubSeq(q, 1, m) = q
        BY <3>6, SubSeqFull
      <4>. QED BY <1>4, <3>5, <3>6, <4>1, <4>2
    <3>7. CASE m # Len(q)
      <4>1. m + 1 \in 1 .. Len(q) /\ n + 1 < Len(q)
        BY <1>1, <3>2, <3>7
      <4>2. PICK l \in 1 .. Len(q) : l = m + 1
        BY <4>1
      <4>3. Met(q, n + 1) = SubSeq(q, 1, l)
        BY <3>2, <4>1, <4>2 DEF Met
      <4>4. next[q[m]] = q[l] /\ q[l] \in Node
        BY <1>1, <1>4, <3>7, <4>2 DEF Node
      <4>5. SubSeq(q, 1, l) = Append(SubSeq(q, 1, m), q[l])
        <5>. DEFINE a == Append(SubSeq(q, 1, m), q[l])
        <5>1. /\ a \in Seq(Node) /\ Len(a) = m + 1
              /\ \A i \in 1 .. m : a[i] = SubSeq(q, 1, m)[i]
              /\ a[m + 1] = q[l]
          BY <1>4, <4>4, AppendProperties
        <5>2. \A i \in 1 .. l : i \in 1 .. m \/ i = m + 1
          BY <4>2
        <5>. HIDE DEF a
        <5>3. \A i \in 1 .. l : SubSeq(q, 1, l)[i] = a[i]
          BY <1>4, <4>2, <5>1, <5>2
        <5>4. SubSeq(q, 1, l) = a
          BY <1>4, <4>2, <5>1, <5>3, SeqEqual
        <5>. QED BY <5>4 DEF a
      <4>. QED BY <3>5, <4>3, <4>4, <4>5
    <3>. QED BY <3>6, <3>7
  <2>. QED BY <1>1, <2>1, <2>2
<1>. QED BY <1>5, <1>6

(* A list has no context twice, so it is no longer than there are contexts. *)
LEMMA NoLonger ==
  ASSUME NEW q \in Seq(Ctx), \A i, j \in 1 .. Len(q) : q[i] = q[j] => i = j
  PROVE  Cardinality(Ctx) \in Nat /\ Len(q) \in Nat /\ Len(q) <= Cardinality(Ctx)
<1>1. Len(q) \in Nat
  OBVIOUS
<1>2. q \in Injection(1 .. Len(q), Ctx)
  BY DEF Injection, IsInjective
<1>3. Cardinality(1 .. Len(q)) = Len(q)
  <2>1. 1 \in Int /\ Len(q) \in Int
    BY <1>1
  <2>2. Cardinality(1 .. Len(q)) = IF 1 > Len(q) THEN 0 ELSE Len(q) - 1 + 1
    BY <2>1, FS_Interval
  <2>. QED BY <1>1, <2>2
<1>4. Cardinality(1 .. Len(q)) <= Cardinality(Ctx)
  BY <1>2, ListAssumption, FS_Injection
<1>. QED BY <1>1, <1>3, <1>4, ListAssumption, FS_CardinalityType

LEMMA WalkedMet ==
  ASSUME NEW q \in Seq(Ctx), Linked(q), NEW n \in 0 .. Cardinality(Ctx),
         Cardinality(Ctx) \in Nat
  PROVE  Walked[n] = Met(q, n)
<1>. DEFINE K == Cardinality(Ctx)
            g == [m \in 0 .. K |-> Met(q, m)]
<1>1. g = Rec(g)
  <2>1. ASSUME NEW m \in 0 .. K
        PROVE  Met(q, m) = IF m = 0 THEN <<next[Root]>> ELSE Onward(g[m - 1])
    <3>1. CASE m = 0
      BY <3>1, MetNext
    <3>2. CASE m # 0
      <4>1. PICK l \in Nat : l + 1 = m /\ l = m - 1 /\ l \in 0 .. K
        <5>1. m - 1 \in Nat /\ (m - 1) + 1 = m /\ m - 1 \in 0 .. K
          BY <3>2
        <5>. QED BY <5>1
      <4>2. g[l] = Met(q, l)
        BY <4>1
      <4>3. Met(q, l + 1) = Onward(Met(q, l))
        BY MetNext
      <4>. QED BY <3>2, <4>1, <4>2, <4>3
    <3>. QED BY <3>1, <3>2
  <2>. QED BY <2>1 DEF Rec
<1>2. Walked = Rec(Walked)
  <2>. HIDE DEF g
  <2>. QED BY <1>1 DEF Walked
<1>. DEFINE S == {m \in Nat : m \in 0 .. K => Walked[m] = Met(q, m)}
<1>3. 0 \in S
  BY <1>2, MetNext DEF Rec
<1>4. ASSUME NEW m \in Nat, m \in S PROVE m + 1 \in S
  <2>1. SUFFICES ASSUME m + 1 \in 0 .. K PROVE Walked[m + 1] = Met(q, m + 1)
    OBVIOUS
  <2>2. Walked[m] = Met(q, m)
    BY <1>4, <2>1
  <2>3. Walked[m + 1] = Onward(Walked[m])
    <3>1. m + 1 # 0 /\ (m + 1) - 1 = m
      OBVIOUS
    <3>2. Rec(Walked)[m + 1] = Onward(Walked[m])
      BY <2>1, <3>1 DEF Rec
    <3>. QED BY <1>2, <3>2
  <2>. QED BY <2>2, <2>3, MetNext
<1>. HIDE DEF S
<1>5. Nat \subseteq S
  BY <1>3, <1>4, SetInduction
<1>. QED BY <1>5 DEF S

(* What a walk from the head meets is the list. *)
LEMMA ChainIs ==
  ASSUME NEW q \in Seq(Ctx), Linked(q)
  PROVE  Chain = q
<1>1. Cardinality(Ctx) \in Nat /\ Len(q) \in Nat /\ Len(q) <= Cardinality(Ctx)
  BY NoLonger DEF Linked
<1>2. Walked[Cardinality(Ctx)] = Append(q, NULL)
  <2>1. Cardinality(Ctx) \in 0 .. Cardinality(Ctx) /\ ~(Cardinality(Ctx) < Len(q))
    BY <1>1
  <2>2. Walked[Cardinality(Ctx)] = Met(q, Cardinality(Ctx))
    BY <1>1, <2>1, WalkedMet
  <2>. QED BY <2>1, <2>2 DEF Met
<1>3. Front(Append(q, NULL)) = q
  <2>. DEFINE a == Append(q, NULL)
  <2>1. q \in Seq(Ctx \cup {NULL}) /\ NULL \in Ctx \cup {NULL}
    OBVIOUS
  <2>2. /\ a \in Seq(Ctx \cup {NULL}) /\ Len(a) = Len(q) + 1
        /\ \A i \in 1 .. Len(q) : a[i] = q[i]
    BY <2>1, AppendProperties
  <2>. HIDE DEF a
  <2>3. \A i \in 1 .. Len(a) - 1 : a[i] \in Ctx
    BY <1>1, <2>2
  <2>4. /\ SubSeq(a, 1, Len(a) - 1) \in Seq(Ctx) /\ Len(SubSeq(a, 1, Len(a) - 1)) = Len(q)
        /\ \A i \in 1 .. Len(q) : SubSeq(a, 1, Len(a) - 1)[i] = q[i]
    BY <1>1, <2>2, <2>3, SubSeqProperties
  <2>5. SubSeq(a, 1, Len(a) - 1) = q
    BY <2>4, SeqEqual
  <2>. QED BY <2>5 DEF Front, a
<1>. QED BY <1>2, <1>3, ChainWalked

(* What CtxList sees of a state. *)
Shown == IF mixed THEN Lost ELSE Chain

LEMMA ChainShown == \A q \in Seq(Ctx) : Linked(q) /\ ~mixed => Shown = q /\ Shown # Lost
BY ChainIs, ListAssumption DEF Shown

LEMMA ChainShownNext == (\A q \in Seq(Ctx) : Linked(q) /\ ~mixed => Shown = q /\ Shown # Lost)'
BY ChainShown, PTL

LEMMA ShownInit == Init => Abstract!Init
<1>1. SUFFICES ASSUME Init PROVE Shown = <<>>
  BY DEF Abstract!Init, Shown
<1>2. Linked(<<>>) /\ <<>> \in Seq(Ctx) /\ ~mixed
  BY <1>1, InitList DEF IsList, Init
<1>. QED BY <1>2, ChainShown

LEMMA ShownNext ==
  ASSUME ListType, ListInv, [Next]_vars
  PROVE  [Abstract!Next]_Shown
<1>1. CASE mixed
  BY <1>1, MixedStays DEF Shown
<1>2. CASE ~mixed /\ mixed'
  <2>1. PICK q \in Seq(Ctx) : IsList(q)
    BY <1>2 DEF ListInv
  <2>2. Shown # Lost /\ Shown' = Lost
    BY <1>2, <2>1, ChainShown DEF IsList, Shown
  <2>. QED BY <2>2 DEF Abstract!Next, Abstract!Lose, Shown
<1>3. CASE ~mixed /\ ~mixed'
  <2>1. PICK q \in Seq(Ctx) : IsList(q)
    BY <1>3 DEF ListInv
  <2>2. PICK r \in Seq(Ctx) : IsList(r)' /\ ListStep(q, r)
    BY <1>3, <2>1, KeepsList
  <2>3. Shown = q /\ Shown # Lost
    BY <1>3, <2>1, ChainShown DEF IsList
  <2>4. Shown' = r
    BY <1>3, <2>2, ChainShownNext DEF IsList
  <2>5. CASE r = q
    BY <2>3, <2>4, <2>5
  <2>6. ASSUME NEW c \in Ctx, ~InList(q, c), r = Append(q, c) PROVE Abstract!Next
    <3>1. c \notin Abstract!ToSet(q)
      BY <2>6 DEF InList, Abstract!ToSet
    <3>2. Abstract!Insert(c)
      BY <2>3, <2>4, <2>6, <3>1 DEF Abstract!Insert, Shown
    <3>. QED BY <3>2 DEF Abstract!Next
  <2>7. ASSUME NEW k \in 1 .. Len(q), r = RemoveAt(q, k) PROVE Abstract!Next
    <3>1. k \in DOMAIN q /\ q[k] \in Ctx /\ Abstract!RemoveAt(q, k) = RemoveAt(q, k)
      BY DEF Abstract!RemoveAt, RemoveAt
    <3>2. Abstract!Delete(q[k])
      BY <2>3, <2>4, <2>7, <3>1 DEF Abstract!Delete, Shown
    <3>. QED BY <3>1, <3>2 DEF Abstract!Next
  <2>. QED BY <2>2, <2>5, <2>6, <2>7 DEF ListStep
<1>. QED BY <1>1, <1>2, <1>3

(* The statements that insert, search and remove, each a step of its own,    *)
(* are the sequence of CtxList for as long as operations overlap no more     *)
(* than they may: a context is at its end the moment insertInetCtx has set   *)
(* one pointer, gone from where it stood when removeInetCtx has, and no      *)
(* other statement shows.                                                    *)
THEOREM ListRefined == Spec => RefinesCtxList
<1>1. ListType /\ ListInv /\ [Next]_vars => [Abstract!Next]_(IF mixed THEN Lost ELSE Chain)
  BY ShownNext DEF Shown
<1>. QED BY ListTyped, ListKept, ShownInit, <1>1, PTL DEF Spec, RefinesCtxList, Abstract!Spec
=============================================================================
