----------------------------- MODULE InetCtxList -----------------------------
(***************************************************************************)
(* The linked list of contexts of src/src/hooks/wininet/netredir.c, pointer*)
(* by pointer: insertInetCtx, removeInetCtx and the searches, none of which*)
(* takes a lock.  Each statement that reads or writes a pointer another    *)
(* thread may see is a step, and a pointer that is tested first and then   *)
(* read again for use is read in two.  A context is found by the handle it *)
(* was made for, here the context itself; a thread searches and closes     *)
(* only handles it was given.  A context that is freed is zeroed first and *)
(* keeps its zeros until it is allocated again; touching it is undefined,  *)
(* as is following a null pointer, and the thread that does is lost.       *)
(***************************************************************************)
EXTENDS Naturals, FiniteSets, SequencesExt

CONSTANTS
  Thread, Ctx,   \* threads that call WinINet; addresses of contexts
  NULL, Root,    \* the null pointer; &g_inet_ctx
  Lost           \* what the list is worth once operations have overlapped

ASSUME ListAssumption ==
  /\ Root \notin Ctx /\ NULL \notin Ctx /\ Root # NULL /\ NULL \notin Thread
  /\ IsFiniteSet(Ctx) /\ Lost \notin Seq(Ctx)

VARIABLES
  next, prev,    \* _next and _prev
  heap,          \* is the context allocated?
  owner,         \* the thread that was given the handle a context is for
  call,          \* the operation each thread is in
  mixed,         \* history: operations overlapped that must not
  harm           \* history: freed memory or NULL touched, or a handle not found

nodes == <<next, prev, heap>>
vars == <<nodes, owner, call, mixed, harm>>

Outside == [op |-> "none", pc |-> "outside", ctx |-> NULL, node |-> NULL]

(* Type correctness; insertInetCtx comes to hold the null pointer as the   *)
(* node to append to only once operations overlapped that must not, and    *)
(* only to write through it next.                                          *)
TypeOK ==
  /\ next \in [Ctx \cup {Root} -> Ctx \cup {NULL}]
  /\ prev \in [Ctx -> Ctx \cup {Root, NULL}]
  /\ heap \in [Ctx -> BOOLEAN]
  /\ owner \in [Ctx -> Thread \cup {NULL}]
  /\ \A t \in Thread :
       /\ call[t].op \in {"none", "insert", "find", "close"}
       /\ call[t].ctx \in Ctx \cup {NULL} /\ call[t].node \in Ctx \cup {Root, NULL}
       /\ call[t].op = "insert" =>
            call[t].ctx # NULL /\ (call[t].node = NULL => call[t].pc = "link" /\ mixed)
  /\ {mixed, harm} \subseteq BOOLEAN

Init ==
  /\ next = [c \in Ctx \cup {Root} |-> NULL]
  /\ prev = [c \in Ctx |-> NULL]
  /\ heap = [c \in Ctx |-> FALSE]
  /\ owner = [c \in Ctx |-> NULL]
  /\ call = [t \in Thread |-> Outside]
  /\ mixed = FALSE /\ harm = FALSE

-----------------------------------------------------------------------------
(* Two operations get in each other's way if both change the list, or one  *)
(* unlinks while the other walks.  A close walks before it unlinks.        *)
Unlinking(t) ==
  call[t].pc \in {"test", "after", "tieAfter", "before", "tieBefore", "destruct", "free"}
Conflicts(o, op) ==
  \/ Unlinking(o)
  \/ op = "insert" /\ call[o].op = "insert"
  \/ op = "unlink" /\ call[o].op # "none"
Meets(t, op) == mixed' = (mixed \/ \E o \in Thread \ {t} : Conflicts(o, op))

Freed(c) == c \in Ctx /\ ~heap[c]
Go(t, fields) == call' = [call EXCEPT ![t] = fields]

(* AllocMem and createInetCtx: the context is private until it is linked.  *)
createInetCtx(t, c) ==
  /\ call[t].pc = "outside" /\ ~heap[c]
  /\ heap' = [heap EXCEPT ![c] = TRUE]
  /\ next' = [next EXCEPT ![c] = NULL] /\ prev' = [prev EXCEPT ![c] = NULL]
  /\ owner' = [owner EXCEPT ![c] = t]
  /\ Go(t, [op |-> "insert", pc |-> "walk", ctx |-> c, node |-> Root])
  /\ Meets(t, "insert")
  /\ UNCHANGED harm

Bug_Walk(t) ==   \* mutant: the loop runs past the last node
  LET n == next[call[t].node] IN
  /\ call[t].pc = "walk" /\ ~Freed(call[t].node)
  /\ Go(t, [call[t] EXCEPT !.node = n, !.pc = IF n = NULL THEN "link" ELSE "walk"])
  /\ UNCHANGED <<nodes, owner, mixed, harm>>

(* insertInetCtx looks for the last node: the head's _next is read once, *)
(* that of any other node is tested ...                                  *)
Walk(t) ==
  LET n == next[call[t].node] IN
  /\ call[t].pc = "walk" /\ ~Freed(call[t].node)
  /\ \/ n = NULL /\ Go(t, [call[t] EXCEPT !.pc = "link"])
     \/ n # NULL /\ call[t].node = Root /\ Go(t, [call[t] EXCEPT !.node = n])
     \/ n # NULL /\ call[t].node # Root /\ Go(t, [call[t] EXCEPT !.pc = "step"])
  /\ UNCHANGED <<nodes, owner, mixed, harm>>

(* ... and read again to go on; the loop also ends if it is NULL by now. *)
Step(t) ==
  LET n == next[call[t].node] IN
  /\ call[t].pc = "step" /\ ~Freed(call[t].node)
  /\ Go(t, [call[t] EXCEPT !.node = n, !.pc = IF n = NULL THEN "link" ELSE "walk"])
  /\ UNCHANGED <<nodes, owner, mixed, harm>>

(* It makes the new one the next of what it found, where others see it, ... *)
Link(t) ==
  /\ call[t].pc = "link" /\ call[t].node # NULL /\ ~Freed(call[t].node)
  /\ next' = [next EXCEPT ![call[t].node] = call[t].ctx]
  /\ Go(t, [call[t] EXCEPT !.pc = "back"])
  /\ UNCHANGED <<prev, heap, owner, mixed, harm>>

(* ... and only then gives it its own links; nobody else reads its _prev. *)
LinkBack(t) ==
  LET c == call[t].ctx IN
  /\ call[t].pc = "back" /\ ~Freed(c)
  /\ prev' = [prev EXCEPT ![c] = call[t].node]
  /\ next' = [next EXCEPT ![c] = NULL]
  /\ Go(t, Outside)
  /\ UNCHANGED <<heap, owner, mixed, harm>>

-----------------------------------------------------------------------------
(* findInetCtxByConnect and findInetCtxByRequest, by themselves or at the  *)
(* head of InternetCloseHandleHook.                                        *)
Search(t, c, op) ==   \* is the list empty?
  /\ call[t].pc = "outside" /\ owner[c] = t
  /\ Go(t, [op |-> op, pc |-> IF next[Root] = NULL THEN "search" ELSE "head",
            ctx |-> c, node |-> NULL])
  /\ Meets(t, op)
  /\ UNCHANGED <<nodes, owner, harm>>

(* The first node is read again, and used without another test. *)
SearchFirst(t) ==
  /\ call[t].pc = "head" /\ next[Root] # NULL
  /\ Go(t, [call[t] EXCEPT !.pc = "search", !.node = next[Root]])
  /\ UNCHANGED <<nodes, owner, mixed, harm>>

SearchNext(t) ==
  LET n == call[t].node IN
  /\ call[t].pc = "search" /\ n # NULL /\ n # call[t].ctx /\ ~Freed(n)
  /\ Go(t, [call[t] EXCEPT !.node = next[n]])
  /\ UNCHANGED <<nodes, owner, mixed, harm>>

Found(t) ==
  /\ call[t].pc = "search" /\ call[t].node = call[t].ctx /\ ~Freed(call[t].ctx)
  /\ IF call[t].op = "find"
     THEN Go(t, Outside) /\ UNCHANGED mixed
     ELSE Go(t, [call[t] EXCEPT !.pc = "test"]) /\ Meets(t, "unlink")
  /\ UNCHANGED <<nodes, owner, harm>>

(* A handle whose context is not found is passed on as one of the client's *)
(* own: its replacements are never closed.                                 *)
NotFound(t) ==
  /\ call[t].pc = "search" /\ call[t].node = NULL
  /\ harm' = TRUE
  /\ owner' = IF call[t].op = "close" THEN [owner EXCEPT ![call[t].ctx] = NULL] ELSE owner
  /\ Go(t, Outside)
  /\ UNCHANGED <<nodes, mixed>>

-----------------------------------------------------------------------------
(* removeInetCtx: a context without neighbours is freed as it is, ... *)
Test(t) ==
  LET c == call[t].ctx IN
  /\ call[t].pc = "test" /\ ~Freed(c)
  /\ Go(t, [call[t] EXCEPT !.pc =
            IF next[c] = NULL /\ prev[c] = NULL THEN "destruct" ELSE "after"])
  /\ UNCHANGED <<nodes, owner, mixed, harm>>

(* ... otherwise the node behind it, if any, ... *)
TestAfter(t) ==
  LET c == call[t].ctx IN
  /\ call[t].pc = "after" /\ ~Freed(c)
  /\ Go(t, [call[t] EXCEPT !.pc = IF next[c] = NULL THEN "before" ELSE "tieAfter"])
  /\ UNCHANGED <<nodes, owner, mixed, harm>>

(* ... is tied to the one before, ... *)
UnlinkAfter(t) ==
  LET c == call[t].ctx IN
  /\ call[t].pc = "tieAfter" /\ ~Freed(c) /\ next[c] # NULL /\ ~Freed(next[c])
  /\ prev' = [prev EXCEPT ![next[c]] = prev[c]]
  /\ Go(t, [call[t] EXCEPT !.pc = "before"])
  /\ UNCHANGED <<next, heap, owner, mixed, harm>>

Bug_LastStays(t) ==   \* mutant: a context without one behind it is not unlinked
  LET c == call[t].ctx IN
  /\ call[t].pc = "before" /\ ~Freed(c)
  /\ Go(t, [call[t] EXCEPT !.pc = IF next[c] = NULL THEN "destruct" ELSE "tieBefore"])
  /\ UNCHANGED <<nodes, owner, mixed, harm>>

(* ... and the one before, if any, ... *)
TestBefore(t) ==
  LET c == call[t].ctx IN
  /\ call[t].pc = "before" /\ ~Freed(c)
  /\ Go(t, [call[t] EXCEPT !.pc = IF prev[c] = NULL THEN "destruct" ELSE "tieBefore"])
  /\ UNCHANGED <<nodes, owner, mixed, harm>>

Bug_TailLost(t) ==   \* mutant: the list is cut off at the context
  LET c == call[t].ctx IN
  /\ call[t].pc = "tieBefore" /\ ~Freed(c) /\ prev[c] # NULL /\ ~Freed(prev[c])
  /\ next' = [next EXCEPT ![prev[c]] = NULL]
  /\ Go(t, [call[t] EXCEPT !.pc = "destruct"])
  /\ UNCHANGED <<prev, heap, owner, mixed, harm>>

(* ... to the one behind. *)
UnlinkBefore(t) ==
  LET c == call[t].ctx IN
  /\ call[t].pc = "tieBefore" /\ ~Freed(c) /\ prev[c] # NULL /\ ~Freed(prev[c])
  /\ next' = [next EXCEPT ![prev[c]] = next[c]]
  /\ Go(t, [call[t] EXCEPT !.pc = "destruct"])
  /\ UNCHANGED <<prev, heap, owner, mixed, harm>>

(* destructInetCtx: the context is zeroed ... *)
Destruct(t) ==
  LET c == call[t].ctx IN
  /\ call[t].pc = "destruct" /\ ~Freed(c)
  /\ next' = [next EXCEPT ![c] = NULL] /\ prev' = [prev EXCEPT ![c] = NULL]
  /\ Go(t, [call[t] EXCEPT !.pc = "free"])
  /\ UNCHANGED <<heap, owner, mixed, harm>>

(* ... and then freed. *)
Free(t) ==
  LET c == call[t].ctx IN
  /\ call[t].pc = "free" /\ ~Freed(c)
  /\ heap' = [heap EXCEPT ![c] = FALSE]
  /\ owner' = [owner EXCEPT ![c] = NULL]
  /\ Go(t, Outside)
  /\ UNCHANGED <<next, prev, mixed, harm>>

(* What a thread is about to read or write has been freed, or the pointer  *)
(* it is to follow, tested before, is null by now.                         *)
Faults(t) ==
  LET c == call[t].ctx IN
  /\ \/ call[t].pc \in {"walk", "step", "link", "search"} /\ Freed(call[t].node)
     \/ call[t].pc \in {"back", "test", "after", "tieAfter", "before", "tieBefore",
                        "destruct", "free"} /\ Freed(c)
     \/ call[t].pc = "link" /\ call[t].node = NULL
     \/ call[t].pc = "head" /\ next[Root] = NULL
     \/ call[t].pc = "tieAfter" /\ (next[c] = NULL \/ Freed(next[c]))
     \/ call[t].pc = "tieBefore" /\ (prev[c] = NULL \/ Freed(prev[c]))
  /\ harm' = TRUE
  /\ Go(t, [Outside EXCEPT !.pc = "lost"])
  /\ UNCHANGED <<nodes, owner, mixed>>

-----------------------------------------------------------------------------
Next ==
  \E t \in Thread :
    \/ \E c \in Ctx : createInetCtx(t, c)
    \/ Walk(t) \/ Step(t) \/ Link(t) \/ LinkBack(t)
    \/ \E c \in Ctx, op \in {"find", "close"} : Search(t, c, op)
    \/ SearchFirst(t) \/ SearchNext(t) \/ Found(t) \/ NotFound(t)
    \/ Test(t) \/ TestAfter(t) \/ UnlinkAfter(t) \/ TestBefore(t) \/ UnlinkBefore(t)
    \/ Destruct(t) \/ Free(t)
    \/ Faults(t)

Spec == Init /\ [][Next]_vars

-----------------------------------------------------------------------------
(* What a walk from the head meets, cut off where a pointer leads in circles. *)
Chain ==
  LET from[n \in 0..Cardinality(Ctx)] ==
        IF n = 0 THEN <<next[Root]>>
        ELSE LET w == from[n - 1]
             IN IF Last(w) = NULL THEN w ELSE Append(w, next[Last(w)])
  IN Front(from[Cardinality(Ctx)])

(* Freed memory is touched, a null pointer followed, or a context missed   *)
(* by a search for its handle, only if operations overlapped that both     *)
(* change the list, or one of which frees a context while the other walks; *)
(* a search may run while another thread adds (insertInetCtx,              *)
(* removeInetCtx, findInetCtxBy...).                                       *)
HarmNeedsOverlap == harm => mixed

(* As long as no such operations overlapped, the pointers are the list that *)
(* NetRedir works on: a context enters at the end the moment it can be      *)
(* reached, leaves from where it stood, and no other step shows.            *)
Abstract == INSTANCE CtxList WITH list <- IF mixed THEN Lost ELSE Chain
RefinesCtxList == Abstract!Spec
=============================================================================
