--------------------------- MODULE NetRedirProofs ---------------------------
(***************************************************************************)
(* Proofs about NetRedir for every number of threads, handles, contexts,   *)
(* headers and hops, whatever free values WinINet hands out and whichever  *)
(* handles the client closes.                                              *)
(*                                                                         *)
(* The first part has no condition: the state keeps its type, and every    *)
(* replacement handle a context holds is open, hidden from the client and  *)
(* held by that context alone.                                             *)
(*                                                                         *)
(* The second part is about the contexts, and holds until a value a        *)
(* context is searched by is handed out again (stale): connections and     *)
(* contexts correspond; and, until a request a thread waits on or its      *)
(* parent is closed (pulled), no hook comes back to a freed context and    *)
(* the calls that read an answer reach it after one hop at most.  Without  *)
(* these conditions TLC refutes the facts: they are the behaviour itself,  *)
(* recorded by the model, and no assumption on WinINet or on the client.   *)
(*                                                                         *)
(* The third part, that no handle is lost, that a request is routed to its *)
(* own replacement and that this has the request's headers, assumes a      *)
(* client that opens one request on a connection (ReopenConnect = FALSE):  *)
(* a context has room for one request and one replacement.                 *)
(***************************************************************************)
EXTENDS NetRedir, WellFoundedInduction, TLAPS

-----------------------------------------------------------------------------
(* Facts about the operators *)

(* A list search returns a context or NULL. *)
LEMMA FindType ==
  ASSUME list \in Seq(Ctx), NEW field, NEW h
  PROVE  Find(field, h) \in Ctx \cup {NULL}
<1>1. CASE \E i \in 1 .. Len(list) : FirstAt(field, h, i)
  <2>1. (CHOOSE i \in 1 .. Len(list) : FirstAt(field, h, i)) \in 1 .. Len(list)
    BY <1>1
  <2>. QED BY <1>1, <2>1 DEF Find
<1>2. CASE ~ \E i \in 1 .. Len(list) : FirstAt(field, h, i)
  BY <1>2 DEF Find
<1>. QED BY <1>1, <1>2

(* What WinINet hands out is a free value. *)
LEMMA ValuesFree ==
  ASSUME NEW tbl, NEW x, NEW h,
         h \in Values(Free(tbl)) \/ h \in Values(Free(tbl) \ {x})
  PROVE  h \in Handle /\ tbl[h] = "free" /\ (h \in Values(Free(tbl) \ {x}) => h # x)
<1>1. ASSUME NEW S \in SUBSET Handle
      PROVE  Values(S) \subseteq S
  <2>1. S \ Remembered \in SUBSET Handle
    OBVIOUS
  <2>2. Alloc(S \ Remembered) \subseteq S \ Remembered
    BY <2>1, AllocAssumption
  <2>. QED BY <2>2 DEF Values
<1>2. Free(tbl) \in SUBSET Handle /\ (Free(tbl) \ {x}) \in SUBSET Handle
  BY DEF Free
<1>3. Values(Free(tbl)) \subseteq Free(tbl)
  BY <1>1, <1>2
<1>4. Values(Free(tbl) \ {x}) \subseteq Free(tbl) \ {x}
  BY <1>1, <1>2
<1>. QED BY <1>3, <1>4 DEF Free

(* The history of what was handed out is a Boolean. *)
LEMMA HandOutType == ASSUME NEW H, HandOut(H) PROVE stale' \in BOOLEAN
BY Zenon DEF HandOut

(* Closing handles keeps the handle table a table. *)
LEMMA ShutType ==
  ASSUME NEW tbl \in [Handle -> Kind \cup {"free"}], NEW S
  PROVE  /\ Shut(tbl, S) \in [Handle -> Kind \cup {"free"}]
         /\ \A h \in Handle : h \notin S => Shut(tbl, S)[h] = tbl[h]
  BY DEF Shut

(* The replacements of a set of contexts are handles. *)
LEMMA ReplacementsType ==
  ASSUME TypeOK, NEW C \in SUBSET Ctx
  PROVE  AllReplacements(C) \subseteq Handle
  BY DEF AllReplacements, Replacements, TypeOK, HandleOrNull

(* Outer activations are contexts. *)
LEMMA FramesType ==
  ASSUME TypeOK, NEW t \in Thread
  PROVE  /\ ToSet(call[t].frames) \in SUBSET Ctx
         /\ call[t].frames # <<>> => Outer(t) \in SUBSET Ctx
<1>1. call[t].frames \in Seq(Ctx)
  <2>1. call[t] \in Waiting \/ call[t] = Idle
    BY DEF TypeOK, Call
  <2>2. <<>> \in Seq(Ctx)
    OBVIOUS
  <2>3. Idle.frames = <<>>
    BY DEF Idle
  <2>4. CASE call[t] \in Waiting
    BY <2>4 DEF Waiting
  <2>5. CASE call[t] = Idle
    BY <2>2, <2>3, <2>5
  <2>. QED BY <2>1, <2>4, <2>5
<1>2. ToSet(call[t].frames) \in SUBSET Ctx
  BY <1>1 DEF ToSet
<1>3. ASSUME call[t].frames # <<>>
      PROVE  Outer(t) \in SUBSET Ctx
  <2>1. Front(call[t].frames) \in Seq(Ctx)
    BY <1>1, <1>3 DEF Front
  <2>. QED BY <2>1 DEF Outer, ToSet
<1>. QED BY <1>2, <1>3

(* Cleaning up contexts keeps the types of what it changes. *)
LEMMA DropType ==
  ASSUME TypeOK, NEW C \in SUBSET Ctx, DropReplacements(C)
  PROVE  /\ live' \in [Handle -> Kind \cup {"free"}]
         /\ hNewConnect' \in [Ctx -> HandleOrNull]
         /\ hNewRequest' \in [Ctx -> HandleOrNull]
         /\ origin' \in [Handle -> HandleOrNull]
         /\ hdrs' \in [Handle -> Nat]
         /\ moved' \subseteq Handle
         /\ parent' \in [Handle -> HandleOrNull]
  BY DEF TypeOK, DropReplacements, Shut, Forget, HandleOrNull

(* Adding a context keeps the types of the list and of the fields. *)
LEMMA CreateType ==
  ASSUME TypeOK, NEW c \in Ctx, NEW open \in HandleOrNull, NEW connect \in HandleOrNull,
         NEW request \in HandleOrNull, NEW newConnect \in HandleOrNull,
         createInetCtx(c, open, connect, request, newConnect)
  PROVE  /\ list' \in Seq(Ctx)
         /\ hOpen' \in [Ctx -> HandleOrNull]
         /\ hConnect' \in [Ctx -> HandleOrNull]
         /\ hRequest' \in [Ctx -> HandleOrNull]
         /\ hNewConnect' \in [Ctx -> HandleOrNull]
         /\ hNewRequest' \in [Ctx -> HandleOrNull]
         /\ nHeaders' \in [Ctx -> 0 .. MAX_HTTP_HEADER]
<1>. NULL \in HandleOrNull
  BY DEF HandleOrNull
<1>. 0 \in 0 .. MAX_HTTP_HEADER
  BY BoundAssumption
<1>. QED BY DEF TypeOK, createInetCtx

(* Removing a context keeps the types of the list and of the fields. *)
LEMMA RemoveType ==
  ASSUME TypeOK, NEW c \in Ctx, removeInetCtx(c)
  PROVE  /\ list' \in Seq(Ctx)
         /\ hOpen' \in [Ctx -> HandleOrNull]
         /\ hConnect' \in [Ctx -> HandleOrNull]
         /\ hRequest' \in [Ctx -> HandleOrNull]
         /\ hNewConnect' \in [Ctx -> HandleOrNull]
         /\ hNewRequest' \in [Ctx -> HandleOrNull]
         /\ nHeaders' \in [Ctx -> 0 .. MAX_HTTP_HEADER]
<1>1. NULL \in HandleOrNull
  BY DEF HandleOrNull
<1>2. 0 \in 0 .. MAX_HTTP_HEADER
  BY BoundAssumption
<1>3. list' \in Seq(Ctx)
  <2>1. PICK i \in 1 .. Len(list) : list' = RemoveAt(list, i)
    BY DEF removeInetCtx
  <2>2. list \in Seq(Ctx)
    BY DEF TypeOK
  <2>3. SubSeq(list, 1, i - 1) \in Seq(Ctx) /\ SubSeq(list, i + 1, Len(list)) \in Seq(Ctx)
    BY <2>2
  <2>. QED BY <2>1, <2>3 DEF RemoveAt
<1>. QED BY <1>1, <1>2, <1>3 DEF TypeOK, removeInetCtx

(* The record a send enters with is a call record. *)
LEMMA CallType ==
  ASSUME TypeOK, NEW op \in {"Send", "SendEx", "End"}, NEW r \in Handle
  PROVE  [op |-> op, pc |-> "sending", h |-> r, ctx |-> findInetCtxByRequest(r),
          target |-> Target(r), frames |-> <<>>] \in Waiting
<1>1. findInetCtxByRequest(r) \in Ctx \cup {NULL}
  BY FindType DEF TypeOK, findInetCtxByRequest
<1>2. Target(r) \in Handle
  BY <1>1 DEF Target, TypeOK, HandleOrNull
<1>3. <<>> \in Seq(Ctx)
  OBVIOUS
<1>. QED BY <1>1, <1>2, <1>3 DEF Waiting

(* A thread that waits has a waiting record. *)
LEMMA WaitingType ==
  ASSUME TypeOK, NEW t \in Thread, call[t].pc # "idle"
  PROVE  call[t] \in Waiting
  BY DEF TypeOK, Call, Idle

(* An idle thread's record is a call record. *)
LEMMA IdleType == Idle \in Call
  BY DEF Call

-----------------------------------------------------------------------------
(* Type correctness *)

(* Opening a handle, with or without a context, keeps the types. *)
LEMMA OpenType ==
  ASSUME TypeOK, NEW t \in Thread,
         InternetOpenA(t) \/ InternetConnectAHook(t) \/ HttpOpenRequestAHook(t)
           \/ InternetOpenUrlAHook(t)
  PROVE  TypeOK'
<1>. NULL \in HandleOrNull /\ Handle \subseteq HandleOrNull
  BY DEF HandleOrNull
<1>1. CASE InternetOpenA(t)
  <2>1. PICK h \in Values(Free(live)) : InternetOpenA(t)!(h)
    BY <1>1 DEF InternetOpenA
  <2>2. h \in Handle
    BY ValuesFree
  <2>. QED BY <2>1, <2>2, HandOutType DEF TypeOK, Kind, ctxVars, reqVars
<1>2. CASE InternetConnectAHook(t)
  <2>1. PICK s \in Handle, h \in Values(Free(live)), c \in Ctx : InternetConnectAHook(t)!(s, h, c)
    BY <1>2 DEF InternetConnectAHook
  <2>2. h \in Handle
    BY ValuesFree
  <2>3. createInetCtx(c, s, h, NULL, NULL)
    BY <2>1
  <2>. QED BY <2>1, <2>2, <2>3, CreateType, HandOutType DEF TypeOK, Kind, reqVars
<1>3. CASE OpenRequestPlain(t)
  <2>1. PICK hc \in Handle, r \in Values(Free(live)) : OpenRequestPlain(t)!(hc, r)
    BY <1>3 DEF OpenRequestPlain
  <2>2. r \in Handle
    BY ValuesFree
  <2>. QED BY <2>1, <2>2, HandOutType DEF TypeOK, Kind, ctxVars, reqVars
<1>4. CASE OpenRequestFails(t)
  BY <1>4 DEF OpenRequestFails, TypeOK, reqVars, history
<1>5. CASE OpenRequestRewritten(t)
  <2>1. PICK hc \in Handle, nc \in Values(Free(live)) :
          \E r \in Values(Free(live) \ {nc}) : OpenRequestRewritten(t)!(hc, nc)!(r)
    BY <1>5 DEF OpenRequestRewritten
  <2>2. PICK r \in Values(Free(live) \ {nc}) : OpenRequestRewritten(t)!(hc, nc)!(r)
    BY <2>1
  <2>3. nc \in Handle /\ r \in Handle
    BY ValuesFree
  <2>. QED BY <2>2, <2>3, HandOutType DEF TypeOK, Kind
<1>6. CASE OpenUrlNative(t)
  <2>1. PICK s \in Handle, r \in Values(Free(live)) : OpenUrlNative(t)!(s, r)
    BY <1>6 DEF OpenUrlNative
  <2>2. r \in Handle
    BY ValuesFree
  <2>. QED BY <2>1, <2>2, HandOutType DEF TypeOK, Kind, ctxVars, reqVars
<1>7. CASE OpenUrlBypass(t)
  <2>1. PICK s \in Handle, c \in Ctx, nc \in Values(Free(live)) :
          \E r \in Values(Free(live) \ {nc}) : OpenUrlBypass(t)!(s, c, nc)!(r)
    BY <1>7 DEF OpenUrlBypass
  <2>2. PICK r \in Values(Free(live) \ {nc}) : OpenUrlBypass(t)!(s, c, nc)!(r)
    BY <2>1
  <2>3. nc \in Handle /\ r \in Handle
    BY ValuesFree
  <2>4. createInetCtx(c, NULL, s, r, nc)
    BY <2>2
  <2>. QED BY <2>2, <2>3, <2>4, CreateType, HandOutType DEF TypeOK, Kind
<1>. QED BY <1>1, <1>2, <1>3, <1>4, <1>5, <1>6, <1>7 DEF HttpOpenRequestAHook, InternetOpenUrlAHook

(* Sending, following redirects and unwinding keep the types. *)
LEMMA SendType ==
  ASSUME TypeOK, NEW t \in Thread,
         HttpSendRequestAHook(t) \/ HttpSendRequestExAHook(t) \/ HttpEndRequestAHook(t)
           \/ Answer(t)
  PROVE  TypeOK'
<1>. USE IdleType
<1>1. ASSUME NEW op \in {"Send", "SendEx", "End"}, NEW r \in Handle, Enter(t, op, r)
      PROVE  TypeOK'
  BY <1>1, CallType DEF Enter, TypeOK, ctxVars, reqVars, history, Call
<1>2. CASE SendSucceeds(t)
  <2>. DEFINE C == IF call[t].frames = <<>> THEN {} ELSE Outer(t)
  <2>1. C \in SUBSET Ctx
    BY FramesType
  <2>2. DropReplacements(C)
    BY <1>2 DEF SendSucceeds
  <2>. QED BY <1>2, <2>1, <2>2, DropType DEF SendSucceeds, Return, TypeOK, history
<1>3. ASSUME NEW C \in SUBSET Ctx, DropReplacements(C), Return(t),
             UNCHANGED <<held, list, hOpen, hConnect, hRequest, nHeaders, history>>
      PROVE  TypeOK'
  BY <1>3, DropType DEF Return, TypeOK, history
<1>4. CASE SendFails(t)
  BY <1>3, <1>4, FramesType DEF SendFails
<1>5. CASE SendWantsRedirect(t)
  <2>1. call[t] \in Waiting
    BY <1>5, WaitingType DEF SendWantsRedirect
  <2>2. [call[t] EXCEPT !.pc = "redirect"] \in Waiting
    BY <2>1 DEF Waiting
  <2>. QED BY <1>5, <2>2 DEF SendWantsRedirect, TypeOK, Call, ctxVars, reqVars, history
<1>6. CASE RedirectAbandoned(t)
  BY <1>3, <1>6, FramesType DEF RedirectAbandoned
<1>7. CASE RedirectFails(t)
  <2>1. findInetCtxByRequest(call[t].h) \in Ctx
    BY <1>7, FindType DEF RedirectFails, TypeOK, findInetCtxByRequest
  <2>. QED BY <1>3, <1>7, <2>1, FramesType DEF RedirectFails
<1>8. CASE RedirectSends(t)
  <2>. DEFINE c == findInetCtxByRequest(call[t].h)
              tbl == Shut(live, Replacements(c))
  <2>1. c \in Ctx
    BY <1>8, FindType DEF RedirectSends, TypeOK, findInetCtxByRequest
  <2>2. tbl \in [Handle -> Kind \cup {"free"}]
    BY ShutType DEF TypeOK
  <2>0. PICK nc \in Values(Free(tbl)) :
          \E nr \in Values(Free(tbl) \ {nc}) : ReplaceAndSend(t, c, nc, nr)
    BY <1>8 DEF RedirectSends
  <2>3. PICK nr \in Values(Free(tbl) \ {nc}) : ReplaceAndSend(t, c, nc, nr)
    BY <2>0
  <2>4. nc \in Handle /\ nr \in Handle
    BY ValuesFree
  <2>5. live' \in [Handle -> Kind \cup {"free"}]
    BY <2>2, <2>3, <2>4 DEF ReplaceAndSend, Kind
  <2>6. hNewConnect' \in [Ctx -> HandleOrNull] /\ hNewRequest' \in [Ctx -> HandleOrNull]
    BY <2>1, <2>3, <2>4 DEF ReplaceAndSend, TypeOK, HandleOrNull
  <2>7. call[t] \in Waiting
    BY <1>8, WaitingType DEF RedirectSends
  <2>8. origin' \in [Handle -> HandleOrNull]
    BY <2>3, <2>7 DEF ReplaceAndSend, TypeOK, HandleOrNull, Waiting
  <2>10. hdrs' \in [Handle -> Nat]
    <3>1. PICK n \in Replayed(c, call[t].h) :
            hdrs' = [h \in Handle |-> IF h = nr THEN n
                                     ELSE IF h \in Replacements(c) THEN 0 ELSE hdrs[h]]
      BY <2>3 DEF ReplaceAndSend
    <3>2. n \in Nat
      BY <2>1, BoundAssumption DEF Replayed, TypeOK
    <3>. QED BY <3>1, <3>2 DEF TypeOK
  <2>11. stale' \in BOOLEAN
    BY <2>3, HandOutType DEF ReplaceAndSend
  <2>9. call' \in [Thread -> Call]
    <3>1. Append(call[t].frames, c) \in Seq(Ctx)
      BY <2>1, <2>7 DEF Waiting
    <3>2. [call[t] EXCEPT !.pc = IF call[t].op = "End" THEN "sendex" ELSE "sending",
                          !.ctx = c, !.target = nr, !.frames = Append(@, c)] \in Waiting
      BY <2>1, <2>4, <2>7, <3>1 DEF Waiting
    <3>. QED BY <2>3, <3>2 DEF ReplaceAndSend, TypeOK, Call
  <2>. QED BY <2>3, <2>5, <2>6, <2>8, <2>9, <2>10, <2>11 DEF ReplaceAndSend, TypeOK
<1>9. CASE SendExReplayed(t)
  <2>1. call[t] \in Waiting
    BY <1>9, WaitingType DEF SendExReplayed
  <2>2. [call[t] EXCEPT !.pc = "sending"] \in Waiting
    BY <2>1 DEF Waiting
  <2>. QED BY <1>9, <2>2 DEF SendExReplayed, TypeOK, Call, ctxVars, reqVars, history
<1>10. CASE SendExReplayFails(t)
  BY <1>3, <1>10, FramesType DEF SendExReplayFails
<1>. QED
  BY <1>1, <1>2, <1>4, <1>5, <1>6, <1>7, <1>8, <1>9, <1>10
     DEF Answer, HttpSendRequestAHook, HttpSendRequestExAHook, HttpEndRequestAHook

(* Recording a header, reusing its memory and closing a handle keep the types. *)
LEMMA CloseType ==
  ASSUME TypeOK, NEW t \in Thread,
         HttpAddRequestHeadersAHook(t) \/ InternetCloseHandleHook(t)
  PROVE  TypeOK'
<1>1. CASE HttpAddRequestHeadersAHook(t)
  <2>1. PICK r \in Handle : HttpAddRequestHeadersAHook(t)!(r)
    BY <1>1 DEF HttpAddRequestHeadersAHook
  <2>. DEFINE c == findInetCtxByRequest(r)
  <2>2. c \in Ctx
    BY <2>1, FindType DEF TypeOK, findInetCtxByRequest
  <2>3. nHeaders' \in [Ctx -> 0 .. MAX_HTTP_HEADER]
    BY <2>1, <2>2, BoundAssumption DEF TypeOK
  <2>. QED BY <2>1, <2>3 DEF TypeOK, history
<1>2. CASE InternetCloseHandleHook(t)
  <2>1. PICK h \in Handle : InternetCloseHandleHook(t)!(h)
    BY <1>2 DEF InternetCloseHandleHook
  <2>. DEFINE c == findInetCtxByConnect(h)
  <2>2. held' \in [Handle -> Thread \cup {NULL}] /\ call' = call /\ stale' = stale
    BY <2>1 DEF CloseHandle, TypeOK
  <2>3. pulled' \in BOOLEAN
    BY <2>1, Zenon DEF CloseHandle
  <2>4. ASSUME NEW S, live' = Shut(live, S), Forget(S)
        PROVE  /\ live' \in [Handle -> Kind \cup {"free"}]
               /\ origin' \in [Handle -> HandleOrNull] /\ hdrs' \in [Handle -> Nat]
               /\ moved' \subseteq Handle /\ parent' \in [Handle -> HandleOrNull]
    BY <2>4 DEF Forget, Shut, TypeOK, HandleOrNull
  <2>5. CASE c # NULL
    <3>1. c \in Ctx
      BY <2>5, FindType DEF TypeOK, findInetCtxByConnect
    <3>2. CloseConnect(h, c)
      BY <2>1, <2>5
    <3>3. removeInetCtx(c) /\ stranded' \subseteq Ctx
      BY <3>2 DEF CloseConnect, TypeOK
    <3>. QED BY <2>2, <2>3, <2>4, <3>1, <3>2, <3>3, RemoveType DEF CloseConnect, TypeOK
  <2>6. CASE c = NULL
    <3>1. CloseOther(h)
      BY <2>1, <2>6
    <3>. QED BY <2>2, <2>3, <2>4, <3>1 DEF CloseOther, TypeOK, ctxVars
  <2>. QED BY <2>5, <2>6
<1>. QED BY <1>1, <1>2

(* The initial state is of the type. *)
LEMMA InitType == Init => TypeOK
<1>. SUFFICES ASSUME Init PROVE TypeOK
  OBVIOUS
<1>1. stale \in BOOLEAN /\ pulled \in BOOLEAN
  BY Zenon DEF Init
<1>2. 0 \in 0 .. MAX_HTTP_HEADER /\ 0 \in Nat /\ NULL \in HandleOrNull
  BY BoundAssumption DEF HandleOrNull
<1>3. nHeaders \in [Ctx -> 0 .. MAX_HTTP_HEADER] /\ hdrs \in [Handle -> Nat]
  BY <1>2 DEF Init
<1>. QED BY <1>1, <1>2, <1>3, IdleType DEF Init, TypeOK

(* Every step keeps the type. *)
LEMMA NextType == TypeOK /\ [Next]_vars => TypeOK'
<1>. SUFFICES ASSUME TypeOK, [Next]_vars PROVE TypeOK'
  OBVIOUS
<1>1. CASE UNCHANGED vars
  <2>1. /\ live' = live /\ held' = held /\ list' = list /\ call' = call
        /\ UNCHANGED ctxVars /\ UNCHANGED reqVars /\ UNCHANGED history
    BY <1>1 DEF vars
  <2>. QED BY <2>1, ZenonT(30) DEF ctxVars, reqVars, history, TypeOK
<1>2. ASSUME NEW r \in Handle, HeaderMemoryReused(r)
      PROVE  TypeOK'
  BY <1>2 DEF HeaderMemoryReused, TypeOK, ctxVars, history
<1>3. CASE Next
  BY <1>2, <1>3, OpenType, SendType, CloseType DEF Next
<1>. QED BY <1>1, <1>3

(* The hooks' state always has its type: in particular a context never      *)
(* records more headers than vHeaders holds (netredir.c's MAX_HTTP_HEADER). *)
THEOREM TypeCorrect == Spec => []TypeOK
<1>. QED BY InitType, NextType, PTL DEF Spec

-----------------------------------------------------------------------------
(* Ownership of the replacement handles *)

(* A value WinINet may hand out is in no client's hands: without this, a     *)
(* replacement could be opened on a value the client still thinks it holds.  *)
FreeUnheld == \A h \in Handle : live[h] = "free" => held[h] = NULL

(* The inductive strengthening of OwnedLive. *)
OwnInv == TypeOK /\ OwnedLive /\ FreeUnheld

(* A context's replacements are open handles of the hooks, and no two       *)
(* contexts have one in common.                                             *)
LEMMA Apart ==
  ASSUME OwnInv, NEW c \in Ctx
  PROVE  /\ \A h \in Replacements(c) :
              h \in Handle /\ held[h] = NULL /\ live[h] \in {"connect", "request"}
         /\ \A d \in Ctx : d # c => Replacements(c) \cap Replacements(d) = {}
<1>1. ASSUME NEW h \in Replacements(c)
      PROVE  h \in Handle /\ held[h] = NULL /\ live[h] \in {"connect", "request"}
  BY <1>1 DEF Replacements, OwnInv, OwnedLive, TypeOK, HandleOrNull
<1>2. ASSUME NEW d \in Ctx, d # c
      PROVE  Replacements(c) \cap Replacements(d) = {}
  BY <1>2 DEF Replacements, OwnInv, OwnedLive
<1>. QED BY <1>1, <1>2

(* Closing handles that are not among the replacements the contexts keep     *)
(* leaves those replacements as they were.                                   *)
LEMMA ShutKeepsOwned ==
  ASSUME OwnInv, TypeOK', NEW S \in SUBSET Handle, live' = Shut(live, S),
         \A h \in Handle : held'[h] = held[h] \/ (h \in S /\ held'[h] = NULL),
         \A h \in S : held'[h] = NULL,
         \A d \in Ctx : /\ hNewConnect'[d] \in {hNewConnect[d], NULL}
                        /\ hNewRequest'[d] \in {hNewRequest[d], NULL}
                        /\ hNewConnect'[d] \notin S
                        /\ hNewRequest'[d] \notin S
  PROVE  OwnedLive' /\ FreeUnheld'
<1>1. \A h \in Handle : h \notin S => live'[h] = live[h] /\ held'[h] = held[h]
  BY DEF Shut
<1>2. ASSUME NEW d \in Ctx, hNewConnect'[d] # NULL
      PROVE  live'[hNewConnect'[d]] = "connect" /\ held'[hNewConnect'[d]] = NULL
  <2>1. hNewConnect'[d] = hNewConnect[d] /\ hNewConnect[d] \in Handle
    BY <1>2 DEF OwnInv, TypeOK, HandleOrNull
  <2>. QED BY <1>1, <1>2, <2>1 DEF OwnInv, OwnedLive
<1>3. ASSUME NEW d \in Ctx, hNewRequest'[d] # NULL
      PROVE  live'[hNewRequest'[d]] = "request" /\ held'[hNewRequest'[d]] = NULL
  <2>1. hNewRequest'[d] = hNewRequest[d] /\ hNewRequest[d] \in Handle
    BY <1>3 DEF OwnInv, TypeOK, HandleOrNull
  <2>. QED BY <1>1, <1>3, <2>1 DEF OwnInv, OwnedLive
<1>4. ASSUME NEW c \in Ctx, NEW d \in Ctx, c # d
      PROVE  /\ hNewConnect'[c] # NULL => hNewConnect'[c] # hNewConnect'[d]
             /\ hNewRequest'[c] # NULL => hNewRequest'[c] # hNewRequest'[d]
  BY <1>4 DEF OwnInv, OwnedLive
<1>5. OwnedLive'
  BY <1>2, <1>3, <1>4 DEF OwnedLive
<1>6. FreeUnheld'
  BY <1>1 DEF FreeUnheld, OwnInv
<1>. QED BY <1>5, <1>6

(* Cleaning up contexts closes their replacements and nobody else's. *)
LEMMA DropOwned ==
  ASSUME OwnInv, TypeOK', NEW C \in SUBSET Ctx, DropReplacements(C), held' = held
  PROVE  OwnedLive' /\ FreeUnheld'
<1>. DEFINE S == AllReplacements(C)
<1>1. S \in SUBSET Handle
  BY ReplacementsType DEF OwnInv
<1>2. \A h \in S : held[h] = NULL
  BY Apart DEF AllReplacements
<1>3. ASSUME NEW d \in Ctx
      PROVE  /\ hNewConnect'[d] \in {hNewConnect[d], NULL}
             /\ hNewRequest'[d] \in {hNewRequest[d], NULL}
             /\ hNewConnect'[d] \notin S
             /\ hNewRequest'[d] \notin S
  <2>1. NULL \notin S
    BY <1>1, NullAssumption
  <2>2. CASE d \in C
    BY <2>1, <2>2 DEF DropReplacements
  <2>3. CASE d \notin C
    <3>1. \A c \in C : Replacements(c) \cap Replacements(d) = {}
      BY <2>3, Apart
    <3>2. Replacements(d) \cap S = {}
      BY <3>1 DEF AllReplacements
    <3>3. hNewConnect'[d] = hNewConnect[d] /\ hNewRequest'[d] = hNewRequest[d]
      BY <2>3 DEF DropReplacements
    <3>. QED BY <2>1, <3>2, <3>3 DEF Replacements
  <2>. QED BY <2>2, <2>3
<1>4. live' = Shut(live, S)
  BY DEF DropReplacements
<1>5. /\ \A h \in Handle : held'[h] = held[h] \/ (h \in S /\ held'[h] = NULL)
      /\ \A h \in S : held'[h] = NULL
  BY <1>2
<1>. HIDE DEF S
<1>. QED BY <1>1, <1>3, <1>4, <1>5, ShutKeepsOwned

(* Opening a handle for the client disturbs no replacement. *)
LEMMA OpenKeepsOwned ==
  ASSUME OwnInv, NEW h \in Handle, live[h] = "free", NEW kind \in Kind, NEW t \in Thread,
         live' = [live EXCEPT ![h] = kind], held' = [held EXCEPT ![h] = t],
         \A d \in Ctx : /\ hNewConnect'[d] \in {hNewConnect[d], NULL}
                        /\ hNewRequest'[d] \in {hNewRequest[d], NULL}
  PROVE  OwnedLive' /\ FreeUnheld'
<1>1. \A g \in Handle : g # h => live'[g] = live[g] /\ held'[g] = held[g]
  BY DEF OwnInv, TypeOK
<1>2. live'[h] # "free"
  BY DEF OwnInv, TypeOK, Kind
<1>3. ASSUME NEW d \in Ctx
      PROVE  /\ hNewConnect'[d] # NULL => /\ hNewConnect'[d] = hNewConnect[d]
                                          /\ hNewConnect[d] \in Handle \ {h}
             /\ hNewRequest'[d] # NULL => /\ hNewRequest'[d] = hNewRequest[d]
                                          /\ hNewRequest[d] \in Handle \ {h}
  BY <1>3 DEF OwnInv, OwnedLive, TypeOK, HandleOrNull
<1>4. OwnedLive'
  BY <1>1, <1>3 DEF OwnInv, OwnedLive
<1>5. FreeUnheld'
  BY <1>1, <1>2 DEF OwnInv, FreeUnheld
<1>. QED BY <1>4, <1>5

(* A context that takes a fresh connection, its request going to the client, *)
(* owns that connection alone.                                               *)
LEMMA RewriteOwned ==
  ASSUME OwnInv, NEW c \in Ctx, NEW nc \in Handle, NEW r \in Handle, NEW t \in Thread,
         nc # r, live[nc] = "free", live[r] = "free",
         live' = [live EXCEPT ![nc] = "connect", ![r] = "request"],
         held' = [held EXCEPT ![r] = t],
         hNewConnect' = [hNewConnect EXCEPT ![c] = nc],
         \A d \in Ctx : hNewRequest'[d] \in {hNewRequest[d], NULL}
  PROVE  OwnedLive' /\ FreeUnheld'
<1>1. \A g \in Handle : g \notin {nc, r} => live'[g] = live[g] /\ held'[g] = held[g]
  BY DEF OwnInv, TypeOK
<1>2. live'[nc] = "connect" /\ live'[r] = "request" /\ held'[nc] = NULL
  BY DEF OwnInv, TypeOK, FreeUnheld
<1>3. hNewConnect'[c] = nc /\ \A d \in Ctx : d # c => hNewConnect'[d] = hNewConnect[d]
  BY DEF OwnInv, TypeOK
<1>4. ASSUME NEW d \in Ctx
      PROVE  /\ hNewConnect[d] # NULL => hNewConnect[d] \in Handle \ {nc, r}
             /\ hNewRequest[d] # NULL => hNewRequest[d] \in Handle \ {nc, r}
  BY <1>4 DEF OwnInv, OwnedLive, TypeOK, HandleOrNull
<1>5. nc # NULL
  BY NullAssumption
<1>6. ASSUME NEW d \in Ctx, hNewConnect'[d] # NULL
      PROVE  live'[hNewConnect'[d]] = "connect" /\ held'[hNewConnect'[d]] = NULL
  <2>1. CASE d = c
    BY <1>2, <1>3, <2>1
  <2>2. CASE d # c
    <3>1. hNewConnect'[d] = hNewConnect[d] /\ hNewConnect[d] \in Handle \ {nc, r}
      BY <1>3, <1>4, <1>6, <2>2
    <3>2. live[hNewConnect[d]] = "connect" /\ held[hNewConnect[d]] = NULL
      BY <1>6, <3>1 DEF OwnInv, OwnedLive
    <3>. QED BY <1>1, <3>1, <3>2
  <2>. QED BY <2>1, <2>2
<1>7. ASSUME NEW d \in Ctx, hNewRequest'[d] # NULL
      PROVE  live'[hNewRequest'[d]] = "request" /\ held'[hNewRequest'[d]] = NULL
  <2>1. hNewRequest'[d] = hNewRequest[d] /\ hNewRequest[d] \in Handle \ {nc, r}
    BY <1>4, <1>7
  <2>2. live[hNewRequest[d]] = "request" /\ held[hNewRequest[d]] = NULL
    BY <1>7, <2>1 DEF OwnInv, OwnedLive
  <2>. QED BY <1>1, <2>1, <2>2
<1>8. ASSUME NEW b \in Ctx, NEW d \in Ctx, b # d
      PROVE  /\ hNewConnect'[b] # NULL => hNewConnect'[b] # hNewConnect'[d]
             /\ hNewRequest'[b] # NULL => hNewRequest'[b] # hNewRequest'[d]
  BY <1>3, <1>4, <1>5, <1>8 DEF OwnInv, OwnedLive
<1>9. OwnedLive'
  BY <1>6, <1>7, <1>8 DEF OwnedLive
<1>10. FreeUnheld'
  BY <1>1, <1>2 DEF OwnInv, FreeUnheld
<1>. QED BY <1>9, <1>10

(* A redirect closes the context's old replacements and gives it two fresh   *)
(* handles of its own, even if WinINet reuses the values just closed.        *)
LEMMA ReplaceOwned ==
  ASSUME OwnInv, NEW t \in Thread, NEW c \in Ctx,
         NEW nc \in Handle, NEW nr \in Handle, nc # nr,
         Shut(live, Replacements(c))[nc] = "free", Shut(live, Replacements(c))[nr] = "free",
         ReplaceAndSend(t, c, nc, nr)
  PROVE  OwnedLive' /\ FreeUnheld'
<1>. DEFINE old == Replacements(c)
            tbl == Shut(live, old)
<1>1. tbl \in [Handle -> Kind \cup {"free"}]
  BY ShutType DEF OwnInv, TypeOK
<1>2. \A h \in Handle : h \notin old => tbl[h] = live[h]
  BY ShutType DEF OwnInv, TypeOK
<1>3. \A h \in old : held[h] = NULL
  BY Apart
<1>4. ASSUME NEW h \in Handle, tbl[h] = "free"
      PROVE  held[h] = NULL
  BY <1>2, <1>3, <1>4 DEF OwnInv, FreeUnheld
<1>5. held' = held /\ live' = [tbl EXCEPT ![nc] = "connect", ![nr] = "request"]
  BY DEF ReplaceAndSend
<1>. /\ tbl[nc] = "free" /\ tbl[nr] = "free"
     /\ hNewConnect' = [hNewConnect EXCEPT ![c] = nc]
     /\ hNewRequest' = [hNewRequest EXCEPT ![c] = nr]
  BY DEF ReplaceAndSend
<1>6. ASSUME NEW d \in Ctx, d # c
      PROVE  /\ hNewConnect[d] # NULL =>
                  /\ hNewConnect[d] \in Handle \ {nc, nr}
                  /\ tbl[hNewConnect[d]] = "connect" /\ held[hNewConnect[d]] = NULL
             /\ hNewRequest[d] # NULL =>
                  /\ hNewRequest[d] \in Handle \ {nc, nr}
                  /\ tbl[hNewRequest[d]] = "request" /\ held[hNewRequest[d]] = NULL
  <2>1. Replacements(d) \cap old = {}
    BY <1>6, Apart
  <2>. HIDE DEF tbl, old
  <2>2. ASSUME hNewConnect[d] # NULL
        PROVE  /\ hNewConnect[d] \in Handle \ {nc, nr}
               /\ tbl[hNewConnect[d]] = "connect" /\ held[hNewConnect[d]] = NULL
    <3>1. hNewConnect[d] \in Handle /\ hNewConnect[d] \notin old
      BY <2>1, <2>2 DEF Replacements, OwnInv, TypeOK, HandleOrNull
    <3>2. tbl[hNewConnect[d]] = "connect" /\ held[hNewConnect[d]] = NULL
      BY <1>2, <2>2, <3>1 DEF OwnInv, OwnedLive
    <3>. QED BY <3>1, <3>2
  <2>3. ASSUME hNewRequest[d] # NULL
        PROVE  /\ hNewRequest[d] \in Handle \ {nc, nr}
               /\ tbl[hNewRequest[d]] = "request" /\ held[hNewRequest[d]] = NULL
    <3>1. hNewRequest[d] \in Handle /\ hNewRequest[d] \notin old
      BY <2>1, <2>3 DEF Replacements, OwnInv, TypeOK, HandleOrNull
    <3>2. tbl[hNewRequest[d]] = "request" /\ held[hNewRequest[d]] = NULL
      BY <1>2, <2>3, <3>1 DEF OwnInv, OwnedLive
    <3>. QED BY <3>1, <3>2
  <2>. QED BY <2>2, <2>3
<1>. HIDE DEF tbl, old
<1>7. /\ live'[nc] = "connect" /\ live'[nr] = "request"
      /\ \A h \in Handle \ {nc, nr} : live'[h] = tbl[h]
  BY <1>1, <1>5
<1>8. /\ hNewConnect'[c] = nc /\ hNewRequest'[c] = nr
      /\ \A d \in Ctx : d # c => /\ hNewConnect'[d] = hNewConnect[d]
                                 /\ hNewRequest'[d] = hNewRequest[d]
  BY DEF OwnInv, TypeOK
<1>9. ASSUME NEW d \in Ctx
      PROVE  /\ hNewConnect'[d] # NULL =>
                  live'[hNewConnect'[d]] = "connect" /\ held'[hNewConnect'[d]] = NULL
             /\ hNewRequest'[d] # NULL =>
                  live'[hNewRequest'[d]] = "request" /\ held'[hNewRequest'[d]] = NULL
  <2>1. CASE d = c
    <3>1. held'[nc] = NULL /\ held'[nr] = NULL
      BY <1>4, <1>5
    <3>. QED BY <1>7, <1>8, <2>1, <3>1
  <2>2. CASE d # c
    <3>1. hNewConnect'[d] = hNewConnect[d] /\ hNewRequest'[d] = hNewRequest[d]
      BY <1>8, <2>2
    <3>2. hNewConnect[d] # NULL =>
            live'[hNewConnect[d]] = "connect" /\ held'[hNewConnect[d]] = NULL
      <4>1. SUFFICES ASSUME hNewConnect[d] # NULL
                     PROVE  live'[hNewConnect[d]] = "connect" /\ held'[hNewConnect[d]] = NULL
        OBVIOUS
      <4>2. /\ hNewConnect[d] \in Handle \ {nc, nr}
            /\ tbl[hNewConnect[d]] = "connect" /\ held[hNewConnect[d]] = NULL
        BY <1>6, <2>2, <4>1
      <4>3. held'[hNewConnect[d]] = held[hNewConnect[d]] /\ live'[hNewConnect[d]] = tbl[hNewConnect[d]]
        BY <1>5, <1>7, <4>2
      <4>. QED BY <4>2, <4>3
    <3>3. hNewRequest[d] # NULL =>
            live'[hNewRequest[d]] = "request" /\ held'[hNewRequest[d]] = NULL
      <4>1. SUFFICES ASSUME hNewRequest[d] # NULL
                     PROVE  live'[hNewRequest[d]] = "request" /\ held'[hNewRequest[d]] = NULL
        OBVIOUS
      <4>2. /\ hNewRequest[d] \in Handle \ {nc, nr}
            /\ tbl[hNewRequest[d]] = "request" /\ held[hNewRequest[d]] = NULL
        BY <1>6, <2>2, <4>1
      <4>3. held'[hNewRequest[d]] = held[hNewRequest[d]] /\ live'[hNewRequest[d]] = tbl[hNewRequest[d]]
        BY <1>5, <1>7, <4>2
      <4>. QED BY <4>2, <4>3
    <3>. QED BY <3>1, <3>2, <3>3
  <2>. QED BY <2>1, <2>2
<1>10. nc # NULL /\ nr # NULL
  BY NullAssumption
<1>11. ASSUME NEW b \in Ctx, NEW d \in Ctx, b # d
       PROVE  /\ hNewConnect'[b] # NULL => hNewConnect'[b] # hNewConnect'[d]
              /\ hNewRequest'[b] # NULL => hNewRequest'[b] # hNewRequest'[d]
  <2>1. CASE b = c
    BY <1>6, <1>8, <1>10, <1>11, <2>1
  <2>2. CASE d = c
    BY <1>6, <1>8, <1>10, <1>11, <2>2
  <2>3. CASE b # c /\ d # c
    BY <1>8, <1>11, <2>3 DEF OwnInv, OwnedLive
  <2>. QED BY <2>1, <2>2, <2>3
<1>12. OwnedLive'
  BY <1>9, <1>11 DEF OwnedLive
<1>13. FreeUnheld'
  BY <1>4, <1>5, <1>7 DEF FreeUnheld
<1>. QED BY <1>12, <1>13

(* Opening keeps every replacement owned. *)
LEMMA OpenOwned ==
  ASSUME OwnInv, NEW t \in Thread,
         InternetOpenA(t) \/ InternetConnectAHook(t) \/ HttpOpenRequestAHook(t)
           \/ InternetOpenUrlAHook(t)
  PROVE  OwnedLive' /\ FreeUnheld'
<1>. USE DEF Kind
<1>1. CASE InternetOpenA(t)
  <2>1. PICK h \in Values(Free(live)) : InternetOpenA(t)!(h)
    BY <1>1 DEF InternetOpenA
  <2>2. h \in Handle /\ live[h] = "free"
    BY ValuesFree
  <2>. QED BY <2>1, <2>2, OpenKeepsOwned DEF ctxVars
<1>2. CASE InternetConnectAHook(t)
  <2>1. PICK s \in Handle, h \in Values(Free(live)), c \in Ctx : InternetConnectAHook(t)!(s, h, c)
    BY <1>2 DEF InternetConnectAHook
  <2>2. h \in Handle /\ live[h] = "free"
    BY ValuesFree
  <2>3. \A d \in Ctx : /\ hNewConnect'[d] \in {hNewConnect[d], NULL}
                       /\ hNewRequest'[d] \in {hNewRequest[d], NULL}
    BY <2>1 DEF createInetCtx, OwnInv, TypeOK
  <2>. QED BY <2>1, <2>2, <2>3, OpenKeepsOwned
<1>3. CASE OpenRequestPlain(t)
  <2>1. PICK hc \in Handle, r \in Values(Free(live)) : OpenRequestPlain(t)!(hc, r)
    BY <1>3 DEF OpenRequestPlain
  <2>2. r \in Handle /\ live[r] = "free"
    BY ValuesFree
  <2>. QED BY <2>1, <2>2, OpenKeepsOwned DEF ctxVars
<1>4. CASE OpenRequestFails(t)
  BY <1>4 DEF OpenRequestFails, OwnInv, OwnedLive, FreeUnheld, TypeOK
<1>5. CASE OpenRequestRewritten(t)
  <2>1. PICK hc \in Handle, nc \in Values(Free(live)) :
          \E r \in Values(Free(live) \ {nc}) : OpenRequestRewritten(t)!(hc, nc)!(r)
    BY <1>5 DEF OpenRequestRewritten
  <2>2. PICK r \in Values(Free(live) \ {nc}) : OpenRequestRewritten(t)!(hc, nc)!(r)
    BY <2>1
  <2>3. nc \in Handle /\ r \in Handle /\ nc # r /\ live[nc] = "free" /\ live[r] = "free"
    BY ValuesFree
  <2>4. findInetCtxByConnect(hc) \in Ctx
    BY <2>2, FindType DEF OwnInv, TypeOK, findInetCtxByConnect
  <2>. QED BY <2>2, <2>3, <2>4, RewriteOwned
<1>6. CASE OpenUrlNative(t)
  <2>1. PICK s \in Handle, r \in Values(Free(live)) : OpenUrlNative(t)!(s, r)
    BY <1>6 DEF OpenUrlNative
  <2>2. r \in Handle /\ live[r] = "free"
    BY ValuesFree
  <2>. QED BY <2>1, <2>2, OpenKeepsOwned DEF ctxVars
<1>7. CASE OpenUrlBypass(t)
  <2>1. PICK s \in Handle, c \in Ctx, nc \in Values(Free(live)) :
          \E r \in Values(Free(live) \ {nc}) : OpenUrlBypass(t)!(s, c, nc)!(r)
    BY <1>7 DEF OpenUrlBypass
  <2>2. PICK r \in Values(Free(live) \ {nc}) : OpenUrlBypass(t)!(s, c, nc)!(r)
    BY <2>1
  <2>3. nc \in Handle /\ r \in Handle /\ nc # r /\ live[nc] = "free" /\ live[r] = "free"
    BY ValuesFree
  <2>4. /\ hNewConnect' = [hNewConnect EXCEPT ![c] = nc]
        /\ \A d \in Ctx : hNewRequest'[d] \in {hNewRequest[d], NULL}
    BY <2>2 DEF createInetCtx, OwnInv, TypeOK
  <2>. QED BY <2>2, <2>3, <2>4, RewriteOwned
<1>. QED BY <1>1, <1>2, <1>3, <1>4, <1>5, <1>6, <1>7 DEF HttpOpenRequestAHook, InternetOpenUrlAHook

(* Sending, following redirects and unwinding keep every replacement owned.  *)
LEMMA SendOwned ==
  ASSUME OwnInv, TypeOK', NEW t \in Thread,
         HttpSendRequestAHook(t) \/ HttpSendRequestExAHook(t) \/ HttpEndRequestAHook(t)
           \/ Answer(t)
  PROVE  OwnedLive' /\ FreeUnheld'
<1>. TypeOK
  BY DEF OwnInv
<1>1. ASSUME live' = live, held' = held, hNewConnect' = hNewConnect, hNewRequest' = hNewRequest
      PROVE  OwnedLive' /\ FreeUnheld'
  BY <1>1 DEF OwnInv, OwnedLive, FreeUnheld
<1>2. ASSUME NEW op, NEW r, Enter(t, op, r)
      PROVE  OwnedLive' /\ FreeUnheld'
  BY <1>1, <1>2 DEF Enter, ctxVars
<1>3. CASE SendSucceeds(t)
  <2>. DEFINE C == IF call[t].frames = <<>> THEN {} ELSE Outer(t)
  <2>1. C \in SUBSET Ctx
    BY FramesType
  <2>2. DropReplacements(C) /\ held' = held
    BY <1>3 DEF SendSucceeds
  <2>. QED BY <2>1, <2>2, DropOwned
<1>4. CASE SendFails(t)
  BY <1>4, FramesType, DropOwned DEF SendFails
<1>5. CASE SendWantsRedirect(t)
  BY <1>1, <1>5 DEF SendWantsRedirect, ctxVars
<1>6. CASE RedirectAbandoned(t)
  BY <1>6, FramesType, DropOwned DEF RedirectAbandoned
<1>7. CASE RedirectFails(t)
  <2>. DEFINE c == findInetCtxByRequest(call[t].h)
  <2>1. c \in Ctx
    BY <1>7, FindType DEF RedirectFails, TypeOK, findInetCtxByRequest
  <2>2. ToSet(call[t].frames) \cup {c} \in SUBSET Ctx
    BY <2>1, FramesType
  <2>3. DropReplacements(ToSet(call[t].frames) \cup {c}) /\ held' = held
    BY <1>7 DEF RedirectFails
  <2>. QED BY <2>2, <2>3, DropOwned
<1>8. CASE RedirectSends(t)
  <2>. DEFINE c == findInetCtxByRequest(call[t].h)
              tbl == Shut(live, Replacements(c))
  <2>1. c \in Ctx
    BY <1>8, FindType DEF RedirectSends, TypeOK, findInetCtxByRequest
  <2>2. PICK nc \in Values(Free(tbl)) :
          \E nr \in Values(Free(tbl) \ {nc}) : ReplaceAndSend(t, c, nc, nr)
    BY <1>8 DEF RedirectSends
  <2>3. PICK nr \in Values(Free(tbl) \ {nc}) : ReplaceAndSend(t, c, nc, nr)
    BY <2>2
  <2>4. nc \in Handle /\ nr \in Handle /\ nc # nr /\ tbl[nc] = "free" /\ tbl[nr] = "free"
    BY ValuesFree
  <2>. QED BY <2>1, <2>3, <2>4, ReplaceOwned
<1>9. CASE SendExReplayed(t)
  BY <1>1, <1>9 DEF SendExReplayed, ctxVars
<1>10. CASE SendExReplayFails(t)
  BY <1>10, FramesType, DropOwned DEF SendExReplayFails
<1>. QED
  BY <1>2, <1>3, <1>4, <1>5, <1>6, <1>7, <1>8, <1>9, <1>10
     DEF Answer, HttpSendRequestAHook, HttpSendRequestExAHook, HttpEndRequestAHook

(* A close closes the client's handle and, with a connection, the            *)
(* replacements of its context, which no other context has.                  *)
LEMMA CloseOwned ==
  ASSUME OwnInv, TypeOK', NEW t \in Thread, InternetCloseHandleHook(t)
  PROVE  OwnedLive' /\ FreeUnheld'
<1>1. PICK h \in Handle : InternetCloseHandleHook(t)!(h)
  BY DEF InternetCloseHandleHook
<1>2. held[h] # NULL
  BY <1>1 DEF CloseHandle
<1>3. \A d \in Ctx : h \notin Replacements(d)
  BY <1>2, Apart
<1>4. \A d \in Ctx : /\ hNewConnect[d] # NULL => hNewConnect[d] \in Replacements(d)
                     /\ hNewRequest[d] # NULL => hNewRequest[d] \in Replacements(d)
  BY DEF Replacements
<1>5. CASE findInetCtxByConnect(h) # NULL
  <2>. DEFINE c == findInetCtxByConnect(h)
              S == Replacements(c) \cup {h}
  <2>1. c \in Ctx
    BY <1>5, FindType DEF OwnInv, TypeOK, findInetCtxByConnect
  <2>2. CloseConnect(h, c)
    BY <1>1, <1>5
  <2>3. S \in SUBSET Handle /\ \A g \in Replacements(c) : held[g] = NULL
    BY <2>1, Apart
  <2>4. live' = Shut(live, S)
    BY <2>2 DEF CloseConnect
  <2>5. /\ \A g \in Handle : held'[g] = held[g] \/ (g \in S /\ held'[g] = NULL)
        /\ \A g \in S : held'[g] = NULL
    BY <1>1, <2>3 DEF CloseHandle, OwnInv, TypeOK
  <2>6. ASSUME NEW d \in Ctx
        PROVE  /\ hNewConnect'[d] \in {hNewConnect[d], NULL}
               /\ hNewRequest'[d] \in {hNewRequest[d], NULL}
               /\ hNewConnect'[d] \notin S
               /\ hNewRequest'[d] \notin S
    <3>1. NULL \notin S
      BY <2>3, NullAssumption
    <3>2. CASE d = c
      BY <2>2, <3>1, <3>2 DEF CloseConnect, removeInetCtx, OwnInv, TypeOK
    <3>3. CASE d # c
      <4>1. Replacements(c) \cap Replacements(d) = {}
        BY <2>1, <3>3, Apart
      <4>2. hNewConnect'[d] = hNewConnect[d] /\ hNewRequest'[d] = hNewRequest[d]
        BY <2>2, <3>3 DEF CloseConnect, removeInetCtx, OwnInv, TypeOK
      <4>. HIDE DEF c
      <4>. QED BY <1>3, <1>4, <3>1, <4>1, <4>2
    <3>. QED BY <3>2, <3>3
  <2>. HIDE DEF S, c
  <2>. QED BY <2>3, <2>4, <2>5, <2>6, ShutKeepsOwned
<1>6. CASE findInetCtxByConnect(h) = NULL
  <2>1. CloseOther(h)
    BY <1>1, <1>6
  <2>2. live' = Shut(live, {h}) /\ held' = [held EXCEPT ![h] = NULL]
        /\ hNewConnect' = hNewConnect /\ hNewRequest' = hNewRequest
    BY <1>1, <2>1 DEF CloseOther, CloseHandle, ctxVars
  <2>3. /\ \A g \in Handle : held'[g] = held[g] \/ (g \in {h} /\ held'[g] = NULL)
        /\ \A g \in {h} : held'[g] = NULL
    BY <2>2 DEF OwnInv, TypeOK
  <2>4. \A d \in Ctx : /\ hNewConnect'[d] \in {hNewConnect[d], NULL}
                       /\ hNewRequest'[d] \in {hNewRequest[d], NULL}
                       /\ hNewConnect'[d] \notin {h}
                       /\ hNewRequest'[d] \notin {h}
    BY <1>3, <1>4, <2>2, NullAssumption
  <2>. QED BY <2>2, <2>3, <2>4, ShutKeepsOwned
<1>. QED BY <1>5, <1>6

(* The initial state satisfies the strengthened invariant. *)
LEMMA InitOwned == Init => OwnInv
  BY InitType DEF Init, OwnInv, OwnedLive, FreeUnheld

(* Every step preserves it. *)
LEMMA NextOwned == OwnInv /\ [Next]_vars => OwnInv'
<1>. SUFFICES ASSUME OwnInv, [Next]_vars PROVE OwnInv'
  OBVIOUS
<1>1. TypeOK'
  BY NextType DEF OwnInv
<1>2. CASE UNCHANGED vars
  BY <1>1, <1>2 DEF vars, ctxVars, OwnInv, OwnedLive, FreeUnheld
<1>3. ASSUME NEW t \in Thread, HttpAddRequestHeadersAHook(t)
      PROVE  OwnInv'
  BY <1>1, <1>3 DEF HttpAddRequestHeadersAHook, OwnInv, OwnedLive, FreeUnheld
<1>4. ASSUME NEW r \in Handle, HeaderMemoryReused(r)
      PROVE  OwnInv'
  BY <1>1, <1>4 DEF HeaderMemoryReused, ctxVars, OwnInv, OwnedLive, FreeUnheld
<1>5. CASE Next
  BY <1>1, <1>3, <1>4, <1>5, OpenOwned, SendOwned, CloseOwned DEF Next, OwnInv
<1>. QED BY <1>2, <1>5

(* Whatever the servers answer, whatever the client opens and closes, in    *)
(* whatever order its threads do so, and even if WinINet reuses handle      *)
(* values: every replacement a context holds is open, of its kind, hidden   *)
(* from the client and that context's alone, so the error paths and the     *)
(* unwinding of the redirects never close a handle twice or another's.      *)
THEOREM OwnedLiveAlways == Spec => []OwnedLive
<1>1. OwnInv => OwnedLive
  BY DEF OwnInv
<1>. QED BY <1>1, InitOwned, NextOwned, PTL DEF Spec

-----------------------------------------------------------------------------
(* The list *)

(* A set of natural numbers that is not empty has a least element. *)
LEMMA LeastNat ==
  ASSUME NEW T \in SUBSET Nat, T # {}
  PROVE  \E x \in T : \A y \in T : x <= y
<1>. DEFINE R == OpToRel(<, Nat)
<1>1. IsWellFoundedOn(R, Nat)
  BY NatLessThanWellFounded
<1>2. \A x, y \in Nat : y < x => <<y, x>> \in R
  BY DEF OpToRel
<1>. HIDE DEF R
<1>3. PICK x \in T : \A y \in T : ~ (<<y, x>> \in R)
  BY <1>1, WFMin
<1>4. \A y \in T : ~ (y < x)
  BY <1>2, <1>3, Zenon
<1>. QED BY <1>4

(* A search returns a listed context with the handle, or there is none. *)
LEMMA FindIs ==
  ASSUME list \in Seq(Ctx), NEW field, NEW h
  PROVE  /\ Find(field, h) # NULL =>
              /\ Find(field, h) \in Ctx
              /\ Listed(Find(field, h))
              /\ field[Find(field, h)] = h
         /\ Find(field, h) = NULL => \A c \in Ctx : Listed(c) => field[c] # h
<1>1. CASE \E i \in 1 .. Len(list) : FirstAt(field, h, i)
  <2>. DEFINE i == CHOOSE i \in 1 .. Len(list) : FirstAt(field, h, i)
  <2>1. i \in 1 .. Len(list) /\ FirstAt(field, h, i)
    BY <1>1
  <2>2. Find(field, h) = list[i]
    BY <1>1 DEF Find
  <2>. HIDE DEF i
  <2>3. list[i] \in Ctx /\ list[i] # NULL
    BY <2>1, NullAssumption
  <2>. QED BY <2>1, <2>2, <2>3 DEF Listed, FirstAt
<1>2. CASE ~ \E i \in 1 .. Len(list) : FirstAt(field, h, i)
  <2>1. Find(field, h) = NULL
    BY <1>2 DEF Find
  <2>2. ASSUME NEW k \in 1 .. Len(list), field[list[k]] = h
        PROVE  FALSE
    <3>. DEFINE T == {j \in 1 .. Len(list) : field[list[j]] = h}
    <3>1. T \in SUBSET Nat /\ T # {}
      BY <2>2
    <3>2. PICK i \in T : \A j \in T : i <= j
      BY <3>1, LeastNat
    <3>3. i \in 1 .. Len(list) /\ field[list[i]] = h
      BY <3>2
    <3>4. \A j \in 1 .. i - 1 : field[list[j]] # h
      <4>1. SUFFICES ASSUME NEW j \in 1 .. i - 1, field[list[j]] = h PROVE FALSE
        OBVIOUS
      <4>2. j \in T
        BY <3>3, <4>1
      <4>. QED BY <3>2, <3>3, <4>2
    <3>5. FirstAt(field, h, i)
      BY <3>3, <3>4 DEF FirstAt
    <3>. QED BY <1>2, <3>3, <3>5
  <2>. QED BY <2>1, <2>2 DEF Listed
<1>. QED BY <1>1, <1>2

(* A context joins the list. *)
LEMMA ListGrows ==
  ASSUME list \in Seq(Ctx), NEW c \in Ctx, list' = Append(list, c)
  PROVE  \A d \in Ctx : Listed(d)' <=> Listed(d) \/ d = c
<1>1. /\ Len(list') = Len(list) + 1 /\ Len(list) \in Nat
      /\ \A i \in 1 .. Len(list) : list'[i] = list[i]
      /\ list'[Len(list) + 1] = c
  OBVIOUS
<1>2. ASSUME NEW d \in Ctx, Listed(d)'
      PROVE  Listed(d) \/ d = c
  <2>1. PICK i \in 1 .. Len(list') : list'[i] = d
    BY <1>2 DEF Listed
  <2>2. CASE i = Len(list) + 1
    BY <1>1, <2>1, <2>2
  <2>3. CASE i # Len(list) + 1
    <3>1. i \in 1 .. Len(list)
      BY <1>1, <2>3
    <3>. QED BY <1>1, <2>1, <3>1 DEF Listed
  <2>. QED BY <2>2, <2>3
<1>3. ASSUME NEW d \in Ctx, Listed(d)
      PROVE  Listed(d)'
  <2>1. PICK i \in 1 .. Len(list) : list[i] = d
    BY <1>3 DEF Listed
  <2>2. i \in 1 .. Len(list') /\ list'[i] = d
    BY <1>1, <2>1
  <2>. QED BY <2>2 DEF Listed
<1>4. Listed(c)'
  <2>1. Len(list) + 1 \in 1 .. Len(list')
    BY <1>1
  <2>. QED BY <1>1, <2>1 DEF Listed
<1>. QED BY <1>2, <1>3, <1>4

(* No context is in the list twice. *)
Distinct == \A i, j \in 1 .. Len(list) : list[i] = list[j] => i = j

(* An unlisted context that joins the list is in it once. *)
LEMMA GrowsDistinct ==
  ASSUME list \in Seq(Ctx), Distinct, NEW c \in Ctx, ~ Listed(c), list' = Append(list, c)
  PROVE  Distinct'
<1>1. /\ Len(list') = Len(list) + 1 /\ Len(list) \in Nat
      /\ \A i \in 1 .. Len(list) : list'[i] = list[i]
      /\ list'[Len(list) + 1] = c
  OBVIOUS
<1>2. \A i \in 1 .. Len(list) : list[i] # c
  BY DEF Listed
<1>3. \A i \in 1 .. Len(list') : i \in 1 .. Len(list) \/ i = Len(list) + 1
  BY <1>1
<1>. QED BY <1>1, <1>2, <1>3 DEF Distinct

(* A context leaves the list, and only that one. *)
LEMMA ListShrinks ==
  ASSUME list \in Seq(Ctx), Distinct, NEW c \in Ctx, removeInetCtx(c)
  PROVE  /\ Distinct'
         /\ \A d \in Ctx : Listed(d)' <=> Listed(d) /\ d # c
<1>1. PICK k \in 1 .. Len(list) : list[k] = c /\ list' = RemoveAt(list, k)
  BY DEF removeInetCtx
<1>2. /\ list' \in Seq(Ctx) /\ Len(list') = Len(list) - 1 /\ Len(list) \in Nat
      /\ \A i \in 1 .. Len(list') : list'[i] = IF i < k THEN list[i] ELSE list[i + 1]
  <2>1. list' = SubSeq(list, 1, k - 1) \o SubSeq(list, k + 1, Len(list))
    BY <1>1 DEF RemoveAt
  <2>. DEFINE front == SubSeq(list, 1, k - 1)
              back == SubSeq(list, k + 1, Len(list))
  <2>2. /\ front \in Seq(Ctx) /\ Len(front) = k - 1
        /\ \A i \in 1 .. k - 1 : front[i] = list[i]
    OBVIOUS
  <2>3. /\ back \in Seq(Ctx) /\ Len(back) = Len(list) - k
        /\ \A i \in 1 .. Len(list) - k : back[i] = list[k + i]
    OBVIOUS
  <2>4. list' = front \o back /\ Len(list) \in Nat /\ k \in 1 .. Len(list)
    BY <2>1
  <2>. HIDE DEF front, back
  <2>5. list' \in Seq(Ctx) /\ Len(list') = Len(list) - 1
    <3>1. list' \in Seq(Ctx)
      BY <2>2, <2>3, <2>4
    <3>2. Len(front \o back) = Len(front) + Len(back)
      BY <2>2, <2>3
    <3>. QED BY <2>2, <2>3, <2>4, <3>1, <3>2
  <2>6. ASSUME NEW i \in 1 .. Len(list')
        PROVE  list'[i] = IF i < k THEN list[i] ELSE list[i + 1]
    <3>1. CASE i < k
      BY <2>2, <2>3, <2>4, <2>5, <3>1
    <3>2. CASE ~ (i < k)
      <4>1. list'[i] = back[i - (k - 1)] /\ i - (k - 1) \in 1 .. Len(list) - k
        BY <2>2, <2>3, <2>4, <2>5, <3>2
      <4>2. back[i - (k - 1)] = list[k + (i - (k - 1))] /\ k + (i - (k - 1)) = i + 1
        BY <2>3, <2>4, <4>1
      <4>. QED BY <3>2, <4>1, <4>2
    <3>. QED BY <3>1, <3>2
  <2>. QED BY <2>4, <2>5, <2>6
<1>3. ASSUME NEW i \in 1 .. Len(list'), NEW j \in 1 .. Len(list'), list'[i] = list'[j]
      PROVE  i = j
  <2>. DEFINE at(n) == IF n < k THEN n ELSE n + 1
  <2>1. at(i) \in 1 .. Len(list) /\ at(j) \in 1 .. Len(list)
    BY <1>2
  <2>2. list[at(i)] = list[at(j)]
    BY <1>2, <1>3
  <2>3. at(i) = at(j)
    BY <2>1, <2>2 DEF Distinct
  <2>. QED BY <1>2, <2>3
<1>4. ASSUME NEW d \in Ctx, Listed(d)'
      PROVE  Listed(d) /\ d # c
  <2>1. PICK i \in 1 .. Len(list') : list'[i] = d
    BY <1>4 DEF Listed
  <2>2. CASE i < k
    <3>1. i \in 1 .. Len(list) /\ i # k /\ list[i] = d
      BY <1>2, <2>1, <2>2
    <3>. QED BY <1>1, <3>1 DEF Listed, Distinct
  <2>3. CASE ~ (i < k)
    <3>1. i + 1 \in 1 .. Len(list) /\ i + 1 # k /\ list[i + 1] = d
      BY <1>2, <2>1, <2>3
    <3>. QED BY <1>1, <3>1 DEF Listed, Distinct
  <2>. QED BY <2>2, <2>3
<1>5. ASSUME NEW d \in Ctx, Listed(d), d # c
      PROVE  Listed(d)'
  <2>1. PICK i \in 1 .. Len(list) : list[i] = d
    BY <1>5 DEF Listed
  <2>2. i # k
    BY <1>1, <1>5, <2>1
  <2>3. CASE i < k
    <3>1. i \in 1 .. Len(list') /\ list'[i] = d
      BY <1>2, <2>1, <2>3
    <3>. QED BY <3>1 DEF Listed
  <2>4. CASE i > k
    <3>1. i - 1 \in 1 .. Len(list') /\ list'[i - 1] = d
      BY <1>2, <2>1, <2>4
    <3>. QED BY <3>1 DEF Listed
  <2>. QED BY <2>2, <2>3, <2>4
<1>. QED BY <1>3, <1>4, <1>5 DEF Distinct

-----------------------------------------------------------------------------
(* The steps, by what they do to the state *)

(* The contexts a waiting thread has pointers to. *)
CtxsOf(t) == ToSet(call[t].frames) \cup ({call[t].ctx} \ {NULL})

(* A handle without a context is opened for the client. *)
Opens(t, h, kind) ==
  /\ live[h] = "free" /\ kind \in {"session", "request"} /\ call[t] = Idle
  /\ live' = [live EXCEPT ![h] = kind]
  /\ held' = [held EXCEPT ![h] = t]
  /\ \A g \in Handle : g # h => parent'[g] = parent[g]
  /\ HandOut({h})
  /\ UNCHANGED <<list, ctxVars, call, origin, hdrs, moved, pulled, stranded>>

(* A connection is opened, and a context for it. *)
Connects(t, s, h, c) ==
  /\ live[h] = "free" /\ call[t] = Idle
  /\ live' = [live EXCEPT ![h] = "connect"]
  /\ held' = [held EXCEPT ![h] = t]
  /\ createInetCtx(c, s, h, NULL, NULL)
  /\ HandOut({h})
  /\ UNCHANGED <<call, reqVars, pulled, stranded>>

(* A rewritten request could not be opened. *)
Misses(t, hc, c) ==
  /\ call[t] = Idle /\ ClientHolds(t, hc, "connect") /\ MayOpenOn(hc)
  /\ c = findInetCtxByConnect(hc) /\ Listed(c) /\ hConnect[c] = hc
  /\ hNewConnect' = [hNewConnect EXCEPT ![c] = NULL]
  /\ UNCHANGED <<live, held, list, hOpen, hConnect, hRequest, hNewRequest, nHeaders,
                 call, reqVars, history>>

(* A rewritten request is opened. *)
Rewrites(t, hc, c, nc, r) ==
  /\ call[t] = Idle /\ ClientHolds(t, hc, "connect") /\ MayOpenOn(hc)
  /\ c = findInetCtxByConnect(hc) /\ Listed(c) /\ hConnect[c] = hc /\ hOpen[c] # NULL
  /\ nc # r /\ live[nc] = "free" /\ live[r] = "free"
  /\ live' = [live EXCEPT ![nc] = "connect", ![r] = "request"]
  /\ held' = [held EXCEPT ![r] = t]
  /\ parent' = [parent EXCEPT ![r] = hc]
  /\ hNewConnect' = [hNewConnect EXCEPT ![c] = nc]
  /\ hRequest' = [hRequest EXCEPT ![c] = r]
  /\ HandOut({nc, r})
  /\ UNCHANGED <<list, hOpen, hConnect, hNewRequest, nHeaders, call, origin, hdrs, moved,
                 pulled, stranded>>

(* A URL is opened through the certificate bypass. *)
Bypasses(t, s, c, nc, r) ==
  /\ call[t] = Idle /\ ClientSession(s)
  /\ nc # r /\ live[nc] = "free" /\ live[r] = "free"
  /\ live' = [live EXCEPT ![nc] = "connect", ![r] = "request"]
  /\ held' = [held EXCEPT ![r] = t]
  /\ parent' = [parent EXCEPT ![r] = s]
  /\ createInetCtx(c, NULL, s, r, nc)
  /\ HandOut({nc, r})
  /\ UNCHANGED <<call, origin, hdrs, moved, pulled, stranded>>

(* A thread waits for something else. *)
Pauses(t) ==
  /\ call[t].pc # "idle"
  /\ \E p \in {"sending", "redirect"} : call' = [call EXCEPT ![t].pc = p]
  /\ UNCHANGED <<live, held, list, ctxVars, reqVars, history>>

(* A send returns and the contexts of C lose their replacements. *)
Unwinds(t, C) ==
  /\ call[t].pc # "idle" /\ Return(t)
  /\ \A c \in C : c \in CtxsOf(t) \/ (Listed(c) /\ hRequest[c] = call[t].h)
  /\ DropReplacements(C)
  /\ UNCHANGED <<held, list, hOpen, hConnect, hRequest, nHeaders, history>>

(* A redirect is followed. *)
Redirects(t, c, nc, nr) ==
  /\ call[t].pc # "idle" /\ Listed(c) /\ hRequest[c] = call[t].h
  /\ nc # nr
  /\ Shut(live, Replacements(c))[nc] = "free" /\ Shut(live, Replacements(c))[nr] = "free"
  /\ ReplaceAndSend(t, c, nc, nr)

(* A header is added. *)
Adds(t, r, c) ==
  /\ call[t] = Idle /\ ClientHolds(t, r, "request") /\ Listed(c) /\ hRequest[c] = r
  /\ c = findInetCtxByRequest(r)
  /\ hdrs' = [h \in Handle |-> IF h \in {r, Target(r)} THEN hdrs[h] + 1 ELSE hdrs[h]]
  /\ nHeaders' = IF nHeaders[c] < MAX_HTTP_HEADER
                 THEN [nHeaders EXCEPT ![c] = @ + 1] ELSE nHeaders
  /\ UNCHANGED <<live, held, list, hOpen, hConnect, hRequest, hNewConnect, hNewRequest,
                 call, origin, moved, parent, history>>

(* A handle is closed that brings its context along, or that has none. *)
Closes(t, h, c) ==
  /\ call[t] = Idle /\ CloseHandle(h)
  /\ \/ c \in Ctx /\ Listed(c) /\ hConnect[c] = h /\ CloseConnect(h, c)
     \/ (\A d \in Ctx : Listed(d) => hConnect[d] # h) /\ CloseOther(h)

(* Every step of a thread is one of these. *)
Step(t) ==
  \/ \E h \in Handle, kind \in {"session", "request"} : Opens(t, h, kind)
  \/ \E s, h \in Handle, c \in Ctx : Connects(t, s, h, c)
  \/ \E hc \in Handle, c \in Ctx : Misses(t, hc, c)
  \/ \E hc, nc, r \in Handle, c \in Ctx : Rewrites(t, hc, c, nc, r)
  \/ \E s, nc, r \in Handle, c \in Ctx : Bypasses(t, s, c, nc, r)
  \/ \E op \in {"Send", "SendEx", "End"}, r \in Handle : Enter(t, op, r)
  \/ Pauses(t)
  \/ \E C \in SUBSET Ctx : Unwinds(t, C)
  \/ \E c \in Ctx, nc, nr \in Handle : Redirects(t, c, nc, nr)
  \/ \E r \in Handle, c \in Ctx : Adds(t, r, c)
  \/ \E h \in Handle, c \in Ctx \cup {NULL} : Closes(t, h, c)

(* The only other step: the memory of headers is used for something else. *)
Reuses ==
  /\ moved \subseteq moved'
  /\ UNCHANGED <<live, held, list, ctxVars, call, origin, hdrs, parent, history>>

(* The search by connection and by request. *)
LEMMA ByConnect ==
  ASSUME TypeOK, NEW h, findInetCtxByConnect(h) # NULL
  PROVE  /\ findInetCtxByConnect(h) \in Ctx
         /\ Listed(findInetCtxByConnect(h))
         /\ hConnect[findInetCtxByConnect(h)] = h
  BY FindIs DEF TypeOK, findInetCtxByConnect

(* A search by request returns a listed context with that request. *)
LEMMA ByRequest ==
  ASSUME TypeOK, NEW h, findInetCtxByRequest(h) # NULL
  PROVE  /\ findInetCtxByRequest(h) \in Ctx
         /\ Listed(findInetCtxByRequest(h))
         /\ hRequest[findInetCtxByRequest(h)] = h
  BY FindIs DEF TypeOK, findInetCtxByRequest

(* The client's handles and the free ones are handles WinINet knows. *)
LEMMA OpenSteps ==
  ASSUME TypeOK, NEW t \in Thread,
         InternetOpenA(t) \/ InternetConnectAHook(t) \/ HttpOpenRequestAHook(t)
           \/ InternetOpenUrlAHook(t)
  PROVE  Step(t)
<1>1. CASE InternetOpenA(t)
  <2>1. PICK h \in Values(Free(live)) : InternetOpenA(t)!(h)
    BY <1>1 DEF InternetOpenA
  <2>2. h \in Handle /\ live[h] = "free"
    BY ValuesFree
  <2>3. Opens(t, h, "session")
    BY <2>1, <2>2 DEF Opens, reqVars
  <2>. QED BY <2>2, <2>3 DEF Step
<1>2. CASE InternetConnectAHook(t)
  <2>1. PICK s \in Handle, h \in Values(Free(live)), c \in Ctx : InternetConnectAHook(t)!(s, h, c)
    BY <1>2 DEF InternetConnectAHook
  <2>2. h \in Handle /\ live[h] = "free"
    BY ValuesFree
  <2>3. Connects(t, s, h, c)
    BY <2>1, <2>2 DEF Connects
  <2>. QED BY <2>2, <2>3 DEF Step
<1>3. CASE OpenRequestPlain(t)
  <2>1. PICK hc \in Handle, r \in Values(Free(live)) : OpenRequestPlain(t)!(hc, r)
    BY <1>3 DEF OpenRequestPlain
  <2>2. r \in Handle /\ live[r] = "free"
    BY ValuesFree
  <2>3. Opens(t, r, "request")
    BY <2>1, <2>2 DEF Opens, TypeOK
  <2>. QED BY <2>2, <2>3 DEF Step
<1>4. CASE OpenRequestFails(t)
  <2>1. PICK hc \in Handle : OpenRequestFails(t)!(hc)
    BY <1>4 DEF OpenRequestFails
  <2>2. Misses(t, hc, findInetCtxByConnect(hc)) /\ findInetCtxByConnect(hc) \in Ctx
    BY <2>1, ByConnect DEF Misses
  <2>. QED BY <2>2 DEF Step
<1>5. CASE OpenRequestRewritten(t)
  <2>1. PICK hc \in Handle, nc \in Values(Free(live)) :
          \E r \in Values(Free(live) \ {nc}) : OpenRequestRewritten(t)!(hc, nc)!(r)
    BY <1>5 DEF OpenRequestRewritten
  <2>2. PICK r \in Values(Free(live) \ {nc}) : OpenRequestRewritten(t)!(hc, nc)!(r)
    BY <2>1
  <2>3. nc \in Handle /\ r \in Handle /\ nc # r /\ live[nc] = "free" /\ live[r] = "free"
    BY ValuesFree
  <2>4. Rewrites(t, hc, findInetCtxByConnect(hc), nc, r) /\ findInetCtxByConnect(hc) \in Ctx
    BY <2>2, <2>3, ByConnect DEF Rewrites
  <2>. QED BY <2>3, <2>4 DEF Step
<1>6. CASE OpenUrlNative(t)
  <2>1. PICK s \in Handle, r \in Values(Free(live)) : OpenUrlNative(t)!(s, r)
    BY <1>6 DEF OpenUrlNative
  <2>2. r \in Handle /\ live[r] = "free"
    BY ValuesFree
  <2>3. Opens(t, r, "request")
    BY <2>1, <2>2 DEF Opens, TypeOK
  <2>. QED BY <2>2, <2>3 DEF Step
<1>7. CASE OpenUrlBypass(t)
  <2>1. PICK s \in Handle, c \in Ctx, nc \in Values(Free(live)) :
          \E r \in Values(Free(live) \ {nc}) : OpenUrlBypass(t)!(s, c, nc)!(r)
    BY <1>7 DEF OpenUrlBypass
  <2>2. PICK r \in Values(Free(live) \ {nc}) : OpenUrlBypass(t)!(s, c, nc)!(r)
    BY <2>1
  <2>3. nc \in Handle /\ r \in Handle /\ nc # r /\ live[nc] = "free" /\ live[r] = "free"
    BY ValuesFree
  <2>4. Bypasses(t, s, c, nc, r)
    BY <2>2, <2>3 DEF Bypasses
  <2>. QED BY <2>3, <2>4 DEF Step
<1>. QED BY <1>1, <1>2, <1>3, <1>4, <1>5, <1>6, <1>7 DEF HttpOpenRequestAHook, InternetOpenUrlAHook

(* Sending and answering. *)
LEMMA SendSteps ==
  ASSUME TypeOK, NEW t \in Thread,
         HttpSendRequestAHook(t) \/ HttpSendRequestExAHook(t) \/ HttpEndRequestAHook(t)
           \/ Answer(t)
  PROVE  Step(t)
<1>1. CASE HttpSendRequestAHook(t) \/ HttpSendRequestExAHook(t) \/ HttpEndRequestAHook(t)
  BY <1>1 DEF HttpSendRequestAHook, HttpSendRequestExAHook, HttpEndRequestAHook, Step
<1>2. ASSUME NEW C \in SUBSET Ctx, C \subseteq ToSet(call[t].frames),
             call[t].pc # "idle", Return(t), DropReplacements(C),
             UNCHANGED <<held, list, hOpen, hConnect, hRequest, nHeaders, history>>
      PROVE  Step(t)
  BY <1>2 DEF Step, Unwinds, CtxsOf
<1>3. CASE SendSucceeds(t)
  <2>. DEFINE C == IF call[t].frames = <<>> THEN {} ELSE Outer(t)
  <2>1. C \in SUBSET Ctx
    BY FramesType
  <2>2. C \subseteq ToSet(call[t].frames)
    <3>1. SUFFICES ASSUME call[t].frames # <<>> PROVE Outer(t) \subseteq ToSet(call[t].frames)
      OBVIOUS
    <3>2. call[t].frames \in Seq(Ctx)
      BY <1>3, WaitingType DEF SendSucceeds, Waiting
    <3>. QED BY <3>1, <3>2 DEF Outer, ToSet, Front
  <2>. QED BY <1>2, <1>3, <2>1, <2>2 DEF SendSucceeds
<1>4. CASE SendFails(t)
  BY <1>2, <1>4, FramesType DEF SendFails
<1>5. CASE SendWantsRedirect(t)
  BY <1>5 DEF SendWantsRedirect, Step, Pauses
<1>6. CASE RedirectAbandoned(t)
  BY <1>2, <1>6, FramesType DEF RedirectAbandoned
<1>7. CASE RedirectFails(t)
  <2>. DEFINE c == findInetCtxByRequest(call[t].h)
              C == ToSet(call[t].frames) \cup {c}
  <2>1. c \in Ctx /\ Listed(c) /\ hRequest[c] = call[t].h
    BY <1>7, ByRequest DEF RedirectFails
  <2>2. C \in SUBSET Ctx
    BY <2>1, FramesType
  <2>3. Unwinds(t, C)
    BY <1>7, <2>1 DEF RedirectFails, Unwinds, CtxsOf
  <2>. QED BY <2>2, <2>3 DEF Step
<1>8. CASE RedirectSends(t)
  <2>. DEFINE c == findInetCtxByRequest(call[t].h)
              tbl == Shut(live, Replacements(c))
  <2>1. c \in Ctx /\ Listed(c) /\ hRequest[c] = call[t].h
    BY <1>8, ByRequest DEF RedirectSends
  <2>2. PICK nc \in Values(Free(tbl)) :
          \E nr \in Values(Free(tbl) \ {nc}) : ReplaceAndSend(t, c, nc, nr)
    BY <1>8 DEF RedirectSends
  <2>3. PICK nr \in Values(Free(tbl) \ {nc}) : ReplaceAndSend(t, c, nc, nr)
    BY <2>2
  <2>4. nc \in Handle /\ nr \in Handle /\ nc # nr /\ tbl[nc] = "free" /\ tbl[nr] = "free"
    BY ValuesFree
  <2>5. Redirects(t, c, nc, nr)
    BY <1>8, <2>1, <2>3, <2>4 DEF RedirectSends, Redirects
  <2>. QED BY <2>1, <2>4, <2>5 DEF Step
<1>9. CASE SendExReplayed(t)
  BY <1>9 DEF SendExReplayed, Step, Pauses
<1>10. CASE SendExReplayFails(t)
  BY <1>2, <1>10, FramesType DEF SendExReplayFails
<1>. QED BY <1>1, <1>3, <1>4, <1>5, <1>6, <1>7, <1>8, <1>9, <1>10 DEF Answer

(* Headers and closing. *)
LEMMA CloseSteps ==
  ASSUME TypeOK, NEW t \in Thread,
         HttpAddRequestHeadersAHook(t) \/ InternetCloseHandleHook(t)
  PROVE  Step(t)
<1>1. CASE HttpAddRequestHeadersAHook(t)
  <2>1. PICK r \in Handle : HttpAddRequestHeadersAHook(t)!(r)
    BY <1>1 DEF HttpAddRequestHeadersAHook
  <2>. DEFINE c == findInetCtxByRequest(r)
  <2>2. c \in Ctx /\ Listed(c) /\ hRequest[c] = r
    BY <2>1, ByRequest
  <2>3. Adds(t, r, c)
    BY <2>1, <2>2 DEF Adds
  <2>. QED BY <2>2, <2>3 DEF Step
<1>2. CASE InternetCloseHandleHook(t)
  <2>1. PICK h \in Handle : InternetCloseHandleHook(t)!(h)
    BY <1>2 DEF InternetCloseHandleHook
  <2>. DEFINE c == findInetCtxByConnect(h)
  <2>2. c \in Ctx \cup {NULL}
    BY FindType DEF TypeOK, findInetCtxByConnect
  <2>3. Closes(t, h, c)
    <3>1. CASE c # NULL
      BY <2>1, <3>1, ByConnect DEF Closes
    <3>2. CASE c = NULL
      <4>1. \A d \in Ctx : Listed(d) => hConnect[d] # h
        BY <3>2, FindIs DEF TypeOK, findInetCtxByConnect
      <4>. QED BY <2>1, <3>2, <4>1 DEF Closes
    <3>. QED BY <3>1, <3>2
  <2>. QED BY <2>2, <2>3 DEF Step
<1>. QED BY <1>1, <1>2

(* Every step of the specification is one of these. *)
LEMMA NextSteps ==
  ASSUME TypeOK, Next
  PROVE  Reuses \/ \E t \in Thread : Step(t)
<1>1. ASSUME NEW r \in Handle, HeaderMemoryReused(r)
      PROVE  Reuses
  BY <1>1 DEF HeaderMemoryReused, Reuses
<1>. QED BY <1>1, OpenSteps, SendSteps, CloseSteps DEF Next

-----------------------------------------------------------------------------
(* Contexts and threads *)

(* A context has a handle it is closed by.  Its request is closed, or open   *)
(* in the client's hands; then, as long as the connection or session is not  *)
(* closed, it was opened on that, and on a connection by the same thread.    *)
Serves(c) ==
  /\ hConnect[c] # NULL
  /\ hRequest[c] # NULL =>
       \/ live[hRequest[c]] = "free" /\ held[hRequest[c]] = NULL
       \/ /\ live[hRequest[c]] = "request" /\ held[hRequest[c]] # NULL
          /\ held[hConnect[c]] # NULL =>
               /\ parent[hRequest[c]] = hConnect[c]
               /\ hOpen[c] # NULL => held[hConnect[c]] = held[hRequest[c]]

(* A request has one context. *)
OneRequest ==
  \A c, d \in Ctx :
    Listed(c) /\ Listed(d) /\ hRequest[c] # NULL /\ hRequest[c] = hRequest[d] => c = d

(* A connection of the client has one context. *)
HasContext ==
  \A h \in Handle : held[h] # NULL /\ live[h] = "connect" =>
    \E c \in Ctx : /\ Listed(c) /\ hConnect[c] = h
                   /\ \A d \in Ctx : Listed(d) /\ hConnect[d] = h => d = c

(* A context has an open connection or session of the client, or is stranded. *)
HasConnect ==
  \A c \in Ctx : Listed(c) =>
    \/ c \in stranded
    \/ /\ held[hConnect[c]] # NULL
       /\ live[hConnect[c]] = IF hOpen[c] = NULL THEN "session" ELSE "connect"

CtxInv ==
  /\ \A c \in Ctx : Listed(c) => Serves(c)
  /\ OneRequest
  /\ HasContext
  /\ HasConnect

(* A thread that waits has the request it waits on; every context it points *)
(* to is that request's; the handle it waits on is what a call would be     *)
(* passed to, and after a redirect that is not the request itself.          *)
WaitOk(t) ==
  call[t].pc # "idle" =>
    /\ held[call[t].h] = t
    /\ \A c \in CtxsOf(t) : Listed(c) /\ hRequest[c] = call[t].h
    /\ Target(call[t].h) = call[t].target
    /\ call[t].frames # <<>> => call[t].target # call[t].h

WaitInv == \A t \in Thread : WaitOk(t)

(* What holds whatever values come back and whatever is closed. *)
Base == OwnInv /\ Distinct

(* The state before a searched value comes back. *)
Calm == Base /\ CtxInv

(* The strengthening of NoUseAfterFree and ContextPerConnect. *)
ContextInv ==
  /\ Base
  /\ ~ stale => CtxInv
  /\ ~ stale /\ ~ pulled => WaitInv

-----------------------------------------------------------------------------
(* What the steps do to the handles *)

(* The handles the contexts are searched by are closed at most, and a        *)
(* request loses its parent only to a close.                                 *)
Gentle ==
  \A h \in Handle : h \in Searched =>
    /\ \/ live'[h] = live[h] /\ held'[h] = held[h]
       \/ live'[h] = "free" /\ held'[h] = NULL
    /\ held'[h] # NULL => parent'[h] = parent[h] \/ held'[parent[h]] = NULL

(* The client's handles outside X stay as they are. *)
Spares(X) ==
  \A h \in Handle : h \notin X /\ held[h] # NULL => held'[h] = held[h] /\ live'[h] = live[h]

(* The handles of a listed context are searched by. *)
LEMMA SearchedIs ==
  ASSUME NEW c \in Ctx, Listed(c)
  PROVE  hConnect[c] \in Searched /\ hRequest[c] \in Searched
BY DEF Searched

(* Opening handles that are free, none of them a searched value. *)
LEMMA OpenGentle ==
  ASSUME OwnInv, NEW N \in SUBSET Handle, HandOut(N), ~ stale',
         \A h \in N : live[h] = "free",
         \A h \in Handle : h \notin N =>
           live'[h] = live[h] /\ held'[h] = held[h] /\ parent'[h] = parent[h]
  PROVE  Gentle /\ Spares({}) /\ \A h \in N : h \notin Searched
<1>1. N \cap Searched = {}
  BY Zenon DEF HandOut
<1>2. Gentle
  BY <1>1 DEF Gentle
<1>3. Spares({})
  BY DEF Spares, OwnInv, FreeUnheld
<1>. QED BY <1>1, <1>2, <1>3

(* Closing handles. *)
LEMMA ShutGentle ==
  ASSUME OwnInv, NEW S \in SUBSET Handle, live' = Shut(live, S), Forget(S),
         \A h \in S : held'[h] = NULL,
         \A h \in Handle : h \notin S => held'[h] = held[h]
  PROVE  Gentle /\ Spares(S) /\ ((\A h \in S : held[h] = NULL) => Spares({}))
<1>1. \A h \in Handle : live'[h] = IF h \in S THEN "free" ELSE live[h]
  BY DEF Shut
<1>2. \A h \in Handle : parent'[h] = IF h \in S \/ parent[h] \in S THEN NULL ELSE parent[h]
  BY DEF Forget
<1>3. Gentle
  BY <1>1, <1>2 DEF Gentle
<1>4. Spares(S) /\ ((\A h \in S : held[h] = NULL) => Spares({}))
  BY <1>1 DEF Spares
<1>. QED BY <1>3, <1>4

(* Nothing happens to the handles. *)
LEMMA QuietGentle ==
  ASSUME UNCHANGED <<live, held, parent>> PROVE Gentle /\ Spares({})
BY DEF Gentle, Spares

-----------------------------------------------------------------------------
(* What the steps keep *)

(* A listed context was listed, with the same client handles. *)
Stays(d) ==
  Listed(d) /\ hOpen'[d] = hOpen[d] /\ hConnect'[d] = hConnect[d] /\ hRequest'[d] = hRequest[d]

(* A context has been given handles, its request a new one. *)
Takes(c) == Serves(c)' /\ (hRequest'[c] # NULL => hRequest'[c] \notin Searched)

(* The contexts keep their handles in order, if at most one has new ones. *)
LEMMA ContextsKept ==
  ASSUME Calm, TypeOK', Gentle, NEW c,
         \A d \in Ctx : Listed(d)' /\ d # c => Stays(d),
         c \in Ctx /\ Listed(c)' => Stays(c) \/ Takes(c)
  PROVE  (\A d \in Ctx : Listed(d)' => Serves(d)') /\ OneRequest'
<1>. USE NullAssumption
<1>0. ASSUME NEW d \in Ctx
      PROVE  hConnect[d] \in Handle \cup {NULL} /\ hRequest[d] \in Handle \cup {NULL}
  BY DEF Calm, Base, OwnInv, TypeOK, HandleOrNull
<1>1. ASSUME NEW d \in Ctx, Stays(d)
      PROVE  Serves(d)' /\ hRequest'[d] \in Searched
  <2>1. PICK s \in Handle : s = hConnect[d]
    BY <1>0, <1>1 DEF Stays, Calm, CtxInv, Serves
  <2>2. s \in Searched /\ hRequest[d] \in Searched
    BY <1>1, <2>1, SearchedIs DEF Stays
  <2>3. CASE hRequest[d] = NULL
    BY <1>1, <2>1, <2>2, <2>3 DEF Stays, Serves
  <2>4. CASE hRequest[d] # NULL
    <3>1. PICK r \in Handle : r = hRequest[d]
      BY <1>0, <2>4
    <3>2. \/ live[r] = "free" /\ held[r] = NULL
          \/ /\ live[r] = "request" /\ held[r] # NULL
             /\ held[s] # NULL => /\ parent[r] = s
                                  /\ hOpen[d] # NULL => held[s] = held[r]
      BY <1>1, <2>1, <2>4, <3>1 DEF Stays, Calm, CtxInv, Serves
    <3>3. /\ \/ live'[r] = live[r] /\ held'[r] = held[r]
             \/ live'[r] = "free" /\ held'[r] = NULL
          /\ held'[r] # NULL => parent'[r] = parent[r] \/ held'[parent[r]] = NULL
          /\ held'[s] \in {held[s], NULL}
      BY <2>2, <3>1 DEF Gentle
    <3>4. \/ live'[r] = "free" /\ held'[r] = NULL
          \/ /\ live'[r] = "request" /\ held'[r] # NULL
             /\ held'[s] # NULL => /\ parent'[r] = s
                                   /\ hOpen[d] # NULL => held'[s] = held'[r]
      BY <3>2, <3>3
    <3>. QED BY <1>1, <2>1, <2>2, <3>1, <3>4 DEF Stays, Serves
  <2>. QED BY <2>3, <2>4
<1>2. ASSUME NEW d \in Ctx, Listed(d)'
      PROVE  Stays(d) \/ (d = c /\ Takes(d))
  BY <1>2
<1>3. ASSUME NEW d \in Ctx, Listed(d)'
      PROVE  Serves(d)'
  BY <1>1, <1>2, <1>3 DEF Takes
<1>4. ASSUME NEW d \in Ctx, NEW e \in Ctx, Listed(d)', Listed(e)',
             hRequest'[d] # NULL, hRequest'[d] = hRequest'[e]
      PROVE  d = e
  <2>1. CASE Stays(d) /\ Stays(e)
    BY <1>4, <2>1 DEF Stays, Calm, CtxInv, OneRequest
  <2>2. CASE ~ (Stays(d) /\ Stays(e))
    BY <1>1, <1>2, <1>4, <2>2 DEF Takes
  <2>. QED BY <2>1, <2>2
<1>5. OneRequest'
  BY <1>4 DEF OneRequest
<1>. QED BY <1>3, <1>5

(* No connection comes into the client's hands. *)
NoNewConnect ==
  \A h \in Handle : held'[h] # NULL /\ live'[h] = "connect" => held[h] # NULL /\ live[h] = "connect"

(* Connections and their contexts stay as they are, if no connection is      *)
(* opened for the client or closed; a session's context may come.            *)
LEMMA ConnectsKept ==
  ASSUME Calm, TypeOK', NEW X, Spares(X), NoNewConnect, NEW c,
         \A d \in Ctx : d # c => /\ Listed(d)' <=> Listed(d)
                                 /\ hConnect'[d] = hConnect[d] /\ hOpen'[d] = hOpen[d],
         c \in Ctx => /\ ~ Listed(c) /\ hOpen'[c] = NULL
                      /\ held'[hConnect'[c]] # NULL /\ live'[hConnect'[c]] = "session",
         \A d \in Ctx : Listed(d) => hConnect[d] \notin X,
         stranded' = stranded
  PROVE  HasContext' /\ HasConnect'
<1>1. ASSUME NEW h \in Handle, held'[h] # NULL, live'[h] = "connect"
      PROVE  \E d \in Ctx : /\ Listed(d)' /\ hConnect'[d] = h
                            /\ \A e \in Ctx : Listed(e)' /\ hConnect'[e] = h => e = d
  <2>1. held[h] # NULL /\ live[h] = "connect"
    BY <1>1 DEF NoNewConnect
  <2>2. PICK d \in Ctx : /\ Listed(d) /\ hConnect[d] = h
                         /\ \A e \in Ctx : Listed(e) /\ hConnect[e] = h => e = d
    BY <2>1 DEF Calm, CtxInv, HasContext
  <2>3. d # c /\ Listed(d)' /\ hConnect'[d] = h
    BY <2>2
  <2>4. ASSUME NEW e \in Ctx, Listed(e)', hConnect'[e] = h
        PROVE  e = d
    BY <1>1, <2>2, <2>4
  <2>. QED BY <2>3, <2>4
<1>2. HasContext'
  BY <1>1 DEF HasContext
<1>3. ASSUME NEW d \in Ctx, Listed(d)'
      PROVE  \/ d \in stranded'
             \/ /\ held'[hConnect'[d]] # NULL
                /\ live'[hConnect'[d]] = IF hOpen'[d] = NULL THEN "session" ELSE "connect"
  <2>1. CASE d = c
    BY <2>1
  <2>2. CASE d # c
    <3>1. Listed(d) /\ hConnect'[d] = hConnect[d] /\ hOpen'[d] = hOpen[d]
      BY <1>3, <2>2
    <3>2. hConnect[d] \in Handle /\ hConnect[d] \notin X
      BY <3>1 DEF Calm, Base, OwnInv, TypeOK, HandleOrNull, CtxInv, Serves
    <3>3. \/ d \in stranded
          \/ /\ held[hConnect[d]] # NULL
             /\ live[hConnect[d]] = IF hOpen[d] = NULL THEN "session" ELSE "connect"
      BY <3>1 DEF Calm, CtxInv, HasConnect
    <3>. QED BY <3>1, <3>2, <3>3 DEF Spares
  <2>. QED BY <2>1, <2>2
<1>4. HasConnect'
  BY <1>3 DEF HasConnect
<1>. QED BY <1>2, <1>4

(* A step that leaves the client's handles in the contexts alone. *)
LEMMA QuietKeeps ==
  ASSUME Calm, TypeOK', Gentle, Spares({}), NoNewConnect,
         UNCHANGED <<list, hOpen, hConnect, hRequest, stranded>>
  PROVE  CtxInv'
<1>1. \A d \in Ctx : Listed(d)' <=> Listed(d)
  BY DEF Listed
<1>2. \A d \in Ctx : Listed(d)' => Stays(d)
  BY <1>1 DEF Stays
<1>3. NULL \notin Ctx
  BY NullAssumption
<1>4. (\A d \in Ctx : Listed(d)' => Serves(d)') /\ OneRequest'
  BY <1>2, <1>3, ContextsKept
<1>. DEFINE none == {}
<1>5. Spares(none) /\ \A d \in Ctx : Listed(d) => hConnect[d] \notin none
  OBVIOUS
<1>. HIDE DEF none
<1>6. HasContext' /\ HasConnect'
  BY <1>1, <1>3, <1>5, ConnectsKept
<1>. QED BY <1>4, <1>6 DEF CtxInv

(* What a call on r is passed to: the replacement of r's context. *)
LEMMA TargetIs ==
  TypeOK /\ OneRequest =>
    \A r \in Handle :
      /\ \A c \in Ctx : Listed(c) /\ hRequest[c] = r =>
           Target(r) = IF hNewRequest[c] # NULL THEN hNewRequest[c] ELSE r
      /\ (\A c \in Ctx : Listed(c) => hRequest[c] # r) => Target(r) = r
<1>. SUFFICES ASSUME TypeOK, OneRequest, NEW r \in Handle
              PROVE  /\ \A c \in Ctx : Listed(c) /\ hRequest[c] = r =>
                          Target(r) = IF hNewRequest[c] # NULL THEN hNewRequest[c] ELSE r
                     /\ (\A c \in Ctx : Listed(c) => hRequest[c] # r) => Target(r) = r
  OBVIOUS
<1>. DEFINE f == findInetCtxByRequest(r)
<1>1. /\ f # NULL => f \in Ctx /\ Listed(f) /\ hRequest[f] = r
      /\ f = NULL => \A c \in Ctx : Listed(c) => hRequest[c] # r
  BY FindIs DEF TypeOK, findInetCtxByRequest
<1>2. Target(r) = IF f # NULL /\ hNewRequest[f] # NULL THEN hNewRequest[f] ELSE r
  BY DEF Target
<1>. HIDE DEF f
<1>3. ASSUME NEW c \in Ctx, Listed(c), hRequest[c] = r
      PROVE  Target(r) = IF hNewRequest[c] # NULL THEN hNewRequest[c] ELSE r
  <2>1. f = c
    BY <1>1, <1>3, NullAssumption DEF OneRequest
  <2>. QED BY <1>2, <2>1, NullAssumption
<1>4. ASSUME \A c \in Ctx : Listed(c) => hRequest[c] # r
      PROVE  Target(r) = r
  BY <1>1, <1>2, <1>4
<1>. QED BY <1>3, <1>4

(* The same of the next state. *)
LEMMA TargetIsNext ==
  TypeOK' /\ OneRequest' =>
    \A r \in Handle :
      /\ \A c \in Ctx : Listed(c)' /\ hRequest'[c] = r =>
           Target(r)' = IF hNewRequest'[c] # NULL THEN hNewRequest'[c] ELSE r
      /\ (\A c \in Ctx : Listed(c)' => hRequest'[c] # r) => Target(r)' = r
<1>1. (TypeOK /\ OneRequest =>
         \A r \in Handle :
           /\ \A c \in Ctx : Listed(c) /\ hRequest[c] = r =>
                Target(r) = IF hNewRequest[c] # NULL THEN hNewRequest[c] ELSE r
           /\ (\A c \in Ctx : Listed(c) => hRequest[c] # r) => Target(r) = r)'
  BY TargetIs, PTL
<1>. QED BY <1>1

(* A step leaves what o waits for alone. *)
Untouched(o) ==
  /\ call'[o] = call[o] /\ held'[call[o].h] = held[call[o].h]
  /\ \A d \in Ctx :
       /\ Listed(d)' /\ hRequest'[d] = call[o].h <=> Listed(d) /\ hRequest[d] = call[o].h
       /\ Listed(d) /\ hRequest[d] = call[o].h => hNewRequest'[d] = hNewRequest[d]

(* A step of t leaves what the others wait for alone. *)
Leaves(t) == \A o \in Thread : o # t /\ call[o].pc # "idle" => Untouched(o)

(* What is left alone can be waited for. *)
LEMMA OthersWait ==
  ASSUME Calm, TypeOK', OneRequest', NEW o \in Thread, WaitOk(o),
         call[o].pc # "idle", Untouched(o)
  PROVE  WaitOk(o)'
<1>. USE NullAssumption
<1>. TypeOK /\ OneRequest
  BY DEF Calm, Base, OwnInv, CtxInv
<1>0. call[o].h \in Handle /\ CtxsOf(o) \subseteq Ctx
  BY WaitingType, FramesType DEF Waiting, CtxsOf
<1>2. PICK r \in Handle : r = call[o].h
  BY <1>0
<1>1. /\ held[r] = o /\ Target(r) = call[o].target
      /\ \A d \in CtxsOf(o) : Listed(d) /\ hRequest[d] = r
      /\ call[o].frames # <<>> => call[o].target # r
  BY <1>2 DEF WaitOk
<1>3. /\ call'[o] = call[o] /\ held'[r] = o
      /\ \A d \in Ctx : /\ Listed(d)' /\ hRequest'[d] = r <=> Listed(d) /\ hRequest[d] = r
                        /\ Listed(d) /\ hRequest[d] = r => hNewRequest'[d] = hNewRequest[d]
  BY <1>1, <1>2 DEF Untouched
<1>6. \A d \in CtxsOf(o) : Listed(d)' /\ hRequest'[d] = r
  BY <1>0, <1>1, <1>3
<1>7. Target(r)' = Target(r)
  <2>1. CASE \E d \in Ctx : Listed(d) /\ hRequest[d] = r
    <3>1. PICK d \in Ctx : Listed(d) /\ hRequest[d] = r
      BY <2>1
    <3>2. Target(r) = IF hNewRequest[d] # NULL THEN hNewRequest[d] ELSE r
      BY <3>1, TargetIs
    <3>3. Target(r)' = IF hNewRequest'[d] # NULL THEN hNewRequest'[d] ELSE r
      BY <1>3, <3>1, TargetIsNext
    <3>. QED BY <1>3, <3>1, <3>2, <3>3
  <2>2. CASE ~ \E d \in Ctx : Listed(d) /\ hRequest[d] = r
    <3>1. Target(r) = r
      BY <2>2, TargetIs
    <3>2. Target(r)' = r
      BY <1>3, <2>2, TargetIsNext
    <3>. QED BY <3>1, <3>2
  <2>. QED BY <2>1, <2>2
<1>8. CtxsOf(o)' = CtxsOf(o)
  BY <1>3 DEF CtxsOf, ToSet
<1>. QED BY <1>1, <1>2, <1>3, <1>6, <1>7, <1>8 DEF WaitOk

(* What a step of t keeps before a searched value comes back, and before a   *)
(* request waited on or its parent is closed.                                *)
Kept(t) ==
  /\ Gentle
  /\ CtxInv'
  /\ WaitInv /\ ~ pulled' => Leaves(t) /\ WaitOk(t)'

(* An idle thread waits for nothing. *)
LEMMA IdleWaits == ASSUME NEW t \in Thread, call'[t] = Idle PROVE WaitOk(t)'
BY DEF WaitOk, Idle

(* A step of t that changes at most the replacements of t's own request. *)
LEMMA QuietLeaves ==
  ASSUME TypeOK, NEW t \in Thread, WaitInv, Spares({}), UNCHANGED <<list, hRequest>>,
         \A o \in Thread : o # t => call'[o] = call[o],
         \A d \in Ctx : \/ hNewRequest'[d] = hNewRequest[d]
                        \/ hRequest[d] = call[t].h /\ held[call[t].h] = t
  PROVE  Leaves(t)
<1>. SUFFICES ASSUME NEW o \in Thread, o # t, call[o].pc # "idle" PROVE Untouched(o)
  BY DEF Leaves
<1>1. call[o].h \in Handle /\ held[call[o].h] = o /\ o # NULL
  BY WaitingType, NullAssumption DEF Waiting, WaitInv, WaitOk
<1>2. held'[call[o].h] = held[call[o].h]
  BY <1>1 DEF Spares
<1>3. \A d \in Ctx : Listed(d)' <=> Listed(d)
  BY DEF Listed
<1>. QED BY <1>1, <1>2, <1>3 DEF Untouched

(* Opening a handle without a context. *)
LEMMA OpensKeeps ==
  ASSUME Calm, TypeOK', ~ stale', NEW t \in Thread,
         NEW h \in Handle, NEW kind \in {"session", "request"}, Opens(t, h, kind)
  PROVE  Kept(t)
<1>. TypeOK /\ OwnInv
  BY DEF Calm, Base, OwnInv
<1>1. \A g \in Handle : g \notin {h} =>
        live'[g] = live[g] /\ held'[g] = held[g] /\ parent'[g] = parent[g]
  BY DEF Opens, TypeOK
<1>2. Gentle /\ Spares({})
  BY <1>1, OpenGentle DEF Opens
<1>3. NoNewConnect
  <2>1. live'[h] # "connect"
    BY DEF Opens, TypeOK
  <2>. QED BY <1>1, <2>1 DEF NoNewConnect
<1>4. CtxInv'
  BY <1>2, <1>3, QuietKeeps DEF Opens, ctxVars
<1>5. WaitInv => Leaves(t)
  BY <1>2, QuietLeaves DEF Opens, ctxVars
<1>. QED BY <1>2, <1>4, <1>5, IdleWaits DEF Kept, Opens

(* A context field, a header counter or a thread's wait changes. *)
LEMMA TouchesKeeps ==
  ASSUME Calm, TypeOK', NEW t \in Thread, WaitInv => WaitOk(t)',
         UNCHANGED <<live, held, parent, list, hOpen, hConnect, hRequest, hNewRequest, stranded>>,
         \A o \in Thread : o # t => call'[o] = call[o]
  PROVE  Kept(t)
<1>. TypeOK
  BY DEF Calm, Base, OwnInv
<1>1. Gentle /\ Spares({}) /\ NoNewConnect
  BY QuietGentle DEF NoNewConnect
<1>2. CtxInv'
  BY <1>1, QuietKeeps
<1>3. WaitInv => Leaves(t)
  BY <1>1, QuietLeaves
<1>. QED BY <1>1, <1>2, <1>3 DEF Kept

(* A send begins. *)
LEMMA EnterKeeps ==
  ASSUME Calm, TypeOK', NEW t \in Thread, NEW op, NEW r \in Handle, Enter(t, op, r)
  PROVE  Kept(t)
<1>. TypeOK
  BY DEF Calm, Base, OwnInv
<1>. DEFINE f == findInetCtxByRequest(r)
<1>1. call'[t] = [op |-> op, pc |-> "sending", h |-> r, ctx |-> f,
                  target |-> Target(r), frames |-> <<>>]
  BY DEF Enter, TypeOK
<1>2. held'[r] = t
  BY DEF Enter, ClientHolds
<1>3. f # NULL => f \in Ctx /\ Listed(f) /\ hRequest[f] = r
  BY ByRequest
<1>4. CtxsOf(t)' = {f} \ {NULL}
  BY <1>1 DEF CtxsOf, ToSet
<1>5. \A d : Listed(d)' <=> Listed(d)
  BY DEF Enter, Listed
<1>6. \A h : Target(h)' = Target(h)
  BY DEF Enter, ctxVars, Target, findInetCtxByRequest, Find, FirstAt
<1>7. hRequest' = hRequest
  BY DEF Enter, ctxVars
<1>. HIDE DEF f
<1>8. WaitOk(t)'
  BY <1>1, <1>2, <1>3, <1>4, <1>5, <1>6, <1>7 DEF WaitOk
<1>9. \A o \in Thread : o # t => call'[o] = call[o]
  BY DEF Enter, TypeOK
<1>. QED BY <1>8, <1>9, TouchesKeeps DEF Enter, ctxVars, reqVars, history

(* A waiting thread waits for something else. *)
LEMMA PausesKeeps ==
  ASSUME Calm, TypeOK', NEW t \in Thread, Pauses(t)
  PROVE  Kept(t)
<1>. TypeOK
  BY DEF Calm, Base, OwnInv
<1>1. PICK p \in {"sending", "redirect"} : call' = [call EXCEPT ![t].pc = p]
  BY DEF Pauses
<1>2. call[t] \in Waiting
  BY WaitingType DEF Pauses
<1>3. /\ call'[t].h = call[t].h /\ call'[t].target = call[t].target
      /\ call'[t].ctx = call[t].ctx /\ call'[t].frames = call[t].frames
  BY <1>1, <1>2 DEF TypeOK, Waiting
<1>5. CtxsOf(t)' = CtxsOf(t)
  BY <1>3 DEF CtxsOf, ToSet
<1>7. \A h : Target(h)' = Target(h)
  BY DEF Pauses, ctxVars, Target, findInetCtxByRequest, Find, FirstAt
<1>8. \A d : Listed(d)' <=> Listed(d)
  BY DEF Pauses, Listed
<1>9. ASSUME WaitInv
      PROVE  WaitOk(t)'
  <2>1. /\ held[call[t].h] = t /\ Target(call[t].h) = call[t].target
        /\ \A d \in CtxsOf(t) : Listed(d) /\ hRequest[d] = call[t].h
        /\ call[t].frames # <<>> => call[t].target # call[t].h
    BY <1>9 DEF WaitInv, WaitOk, Pauses
  <2>. QED BY <1>3, <1>5, <1>7, <1>8, <2>1 DEF WaitOk, Pauses, ctxVars
<1>10. \A o \in Thread : o # t => call'[o] = call[o]
  BY <1>1 DEF TypeOK
<1>. QED BY <1>9, <1>10, TouchesKeeps DEF Pauses, ctxVars, reqVars, history

(* A send returns to the client. *)
LEMMA UnwindsKeeps ==
  ASSUME Calm, TypeOK', NEW t \in Thread, NEW C \in SUBSET Ctx, Unwinds(t, C)
  PROVE  Kept(t)
<1>. TypeOK /\ OwnInv
  BY DEF Calm, Base, OwnInv
<1>. DEFINE S == AllReplacements(C)
<1>1. S \in SUBSET Handle /\ \A h \in S : held[h] = NULL
  BY ReplacementsType, Apart DEF AllReplacements
<1>2. live' = Shut(live, S) /\ Forget(S) /\ held' = held
  BY DEF Unwinds, DropReplacements
<1>3. Gentle /\ Spares({})
  BY <1>1, <1>2, ShutGentle
<1>4. NoNewConnect
  BY <1>1, <1>2 DEF NoNewConnect, Shut
<1>. HIDE DEF S
<1>5. CtxInv'
  BY <1>3, <1>4, QuietKeeps DEF Unwinds, history
<1>6. WaitOk(t)' /\ \A o \in Thread : o # t => call'[o] = call[o]
  BY IdleWaits DEF Unwinds, Return, TypeOK
<1>7. ASSUME WaitInv, NEW d \in Ctx
      PROVE  \/ hNewRequest'[d] = hNewRequest[d]
             \/ hRequest[d] = call[t].h /\ held[call[t].h] = t
  <2>1. CASE d \in C
    BY <1>7, <2>1 DEF WaitInv, WaitOk, Unwinds
  <2>2. CASE d \notin C
    BY <2>2 DEF Unwinds, DropReplacements, TypeOK
  <2>. QED BY <2>1, <2>2
<1>8. WaitInv => Leaves(t)
  BY <1>3, <1>6, <1>7, QuietLeaves DEF Unwinds
<1>. QED BY <1>3, <1>5, <1>6, <1>8 DEF Kept

(* What a sequence with one element more has. *)
LEMMA AppendSet ==
  ASSUME NEW S, NEW s \in Seq(S), NEW x \in S
  PROVE  ToSet(Append(s, x)) = ToSet(s) \cup {x}
<1>1. /\ Len(Append(s, x)) = Len(s) + 1 /\ Len(s) \in Nat
      /\ \A i \in 1 .. Len(s) : Append(s, x)[i] = s[i]
      /\ Append(s, x)[Len(s) + 1] = x
  OBVIOUS
<1>. DEFINE q == Append(s, x)
<1>. HIDE DEF q
<1>2. \A i \in 1 .. Len(q) : i \in 1 .. Len(s) \/ i = Len(s) + 1
  BY <1>1 DEF q
<1>3. Len(s) + 1 \in 1 .. Len(q) /\ 1 .. Len(s) \subseteq 1 .. Len(q)
  BY <1>1 DEF q
<1>4. ASSUME NEW y
      PROVE  y \in ToSet(q) <=> y \in ToSet(s) \/ y = x
  <2>1. y \in ToSet(q) <=> \E i \in 1 .. Len(q) : q[i] = y
    BY DEF ToSet
  <2>2. y \in ToSet(s) <=> \E i \in 1 .. Len(s) : s[i] = y
    BY DEF ToSet
  <2>. QED BY <1>1, <1>2, <1>3, <2>1, <2>2 DEF q
<1>. QED BY <1>4 DEF q

(* A redirect is followed: the thread waits on the new replacement. *)
LEMMA RedirectsKeeps ==
  ASSUME Calm, TypeOK', ~ stale', NEW t \in Thread, NEW c \in Ctx,
         NEW nc \in Handle, NEW nr \in Handle, Redirects(t, c, nc, nr)
  PROVE  Kept(t)
<1>. TypeOK /\ OwnInv
  BY DEF Calm, Base, OwnInv
<1>0. call[t] \in Waiting
  BY WaitingType DEF Redirects
<1>2. PICK r \in Handle : r = call[t].h
  BY <1>0 DEF Waiting
<1>3. Listed(c) /\ hRequest[c] = r
  BY <1>2 DEF Redirects
<1>4. /\ \A h \in Replacements(c) : h \in Handle /\ held[h] = NULL
      /\ held[nc] = NULL /\ held[nr] = NULL
  <2>1. \A h \in Replacements(c) : h \in Handle /\ held[h] = NULL
    BY Apart
  <2>. QED BY <2>1 DEF Redirects, Shut, OwnInv, FreeUnheld
<1>5. /\ UNCHANGED <<held, parent, list, hOpen, hConnect, hRequest, stranded>>
      /\ \A h \in Handle \ {nc, nr} :
           live'[h] = IF h \in Replacements(c) THEN "free" ELSE live[h]
  BY DEF Redirects, ReplaceAndSend, Shut
<1>6. {nc, nr} \cap Searched = {}
  <2>1. HandOut({nc, nr})
    BY DEF Redirects, ReplaceAndSend
  <2>. QED BY <2>1, Zenon DEF HandOut
<1>7. Gentle /\ Spares({}) /\ NoNewConnect
  <2>1. Gentle
    BY <1>4, <1>5, <1>6 DEF Gentle
  <2>2. Spares({})
    BY <1>4, <1>5 DEF Spares
  <2>3. NoNewConnect
    BY <1>4, <1>5 DEF NoNewConnect
  <2>. QED BY <2>1, <2>2, <2>3
<1>8. CtxInv'
  BY <1>5, <1>7, QuietKeeps
<1>9. /\ call'[t].pc # "idle" /\ call'[t].h = r /\ call'[t].target = nr
      /\ call'[t].ctx = c /\ call'[t].frames = Append(call[t].frames, c)
      /\ \A o \in Thread : o # t => call'[o] = call[o]
  BY <1>2, <1>0 DEF Redirects, ReplaceAndSend, TypeOK, Waiting
<1>10. hNewRequest'[c] = nr /\ \A d \in Ctx : d # c => hNewRequest'[d] = hNewRequest[d]
  BY DEF Redirects, ReplaceAndSend, TypeOK
<1>11. ASSUME WaitInv
       PROVE  Leaves(t) /\ WaitOk(t)'
  <2>1. held[r] = t /\ \A d \in CtxsOf(t) : Listed(d) /\ hRequest[d] = r
    BY <1>2, <1>11 DEF WaitInv, WaitOk, Redirects
  <2>2. Leaves(t)
    <3>1. \A d \in Ctx : \/ hNewRequest'[d] = hNewRequest[d]
                         \/ hRequest[d] = call[t].h /\ held[call[t].h] = t
      BY <1>2, <1>3, <1>10, <2>1
    <3>. QED BY <1>5, <1>7, <1>9, <1>11, <3>1, QuietLeaves
  <2>3. CtxsOf(t)' = ToSet(call[t].frames) \cup {c}
    <3>1. call[t].frames \in Seq(Ctx)
      BY <1>0 DEF Waiting
    <3>2. ToSet(Append(call[t].frames, c)) = ToSet(call[t].frames) \cup {c}
      BY <3>1, AppendSet
    <3>3. CtxsOf(t)' = ToSet(call'[t].frames) \cup ({c} \ {NULL})
      BY <1>9 DEF CtxsOf, ToSet
    <3>. QED BY <1>9, <3>2, <3>3, NullAssumption
  <2>4. \A d : Listed(d)' <=> Listed(d)
    BY <1>5 DEF Listed
  <2>5. Target(r)' = nr
    <3>1. Target(r)' = IF hNewRequest'[c] # NULL THEN hNewRequest'[c] ELSE r
      BY <1>3, <1>5, <1>8, <2>4, TargetIsNext DEF CtxInv
    <3>. QED BY <1>10, <3>1, NullAssumption
  <2>6. \A d \in CtxsOf(t)' : Listed(d) /\ hRequest[d] = r
    BY <1>3, <2>1, <2>3 DEF CtxsOf
  <2>7. nr # r
    BY <1>4, <2>1, NullAssumption
  <2>8. WaitOk(t)'
    BY <1>5, <1>9, <2>1, <2>4, <2>5, <2>6, <2>7 DEF WaitOk
  <2>. QED BY <2>2, <2>8
<1>. QED BY <1>7, <1>8, <1>11 DEF Kept

(* A context joins the list. *)
LEMMA CreateKeeps ==
  ASSUME Calm, TypeOK', Gentle, NEW t \in Thread, Spares({}), NEW c \in Ctx,
         NEW open, NEW connect \in Handle, NEW request \in HandleOrNull, NEW newConnect,
         createInetCtx(c, open, connect, request, newConnect), Takes(c), call' = call,
         call[t] = Idle, request = NULL \/ live[request] = "free"
  PROVE  /\ (\A d \in Ctx : Listed(d)' => Serves(d)') /\ OneRequest'
         /\ WaitInv => Leaves(t) /\ WaitOk(t)'
         /\ \A d \in Ctx : /\ Listed(d)' <=> Listed(d) \/ d = c
                           /\ d # c => hConnect'[d] = hConnect[d] /\ hOpen'[d] = hOpen[d]
         /\ hConnect'[c] = connect /\ hOpen'[c] = open /\ ~ Listed(c)
<1>. TypeOK
  BY DEF Calm, Base, OwnInv
<1>1. ~ Listed(c) /\ list' = Append(list, c)
  BY DEF createInetCtx
<1>2. \A d \in Ctx : Listed(d)' <=> Listed(d) \/ d = c
  BY <1>1, ListGrows DEF TypeOK
<1>4. \A d \in Ctx \ {c} : /\ hConnect'[d] = hConnect[d] /\ hRequest'[d] = hRequest[d]
                           /\ hOpen'[d] = hOpen[d] /\ hNewRequest'[d] = hNewRequest[d]
  BY DEF createInetCtx, TypeOK
<1>5. hConnect'[c] = connect /\ hRequest'[c] = request /\ hOpen'[c] = open
  BY DEF createInetCtx, TypeOK
<1>6. \A d \in Ctx : Listed(d)' /\ d # c => Stays(d)
  BY <1>2, <1>4 DEF Stays
<1>7. (\A d \in Ctx : Listed(d)' => Serves(d)') /\ OneRequest'
  BY <1>6, ContextsKept
<1>8. ASSUME WaitInv, NEW o \in Thread, o # t, call[o].pc # "idle"
      PROVE  Untouched(o)
  <2>1. call[o].h \in Handle /\ held[call[o].h] = o /\ o # NULL
    BY <1>8, WaitingType, NullAssumption DEF Waiting, WaitInv, WaitOk
  <2>2. held'[call[o].h] = held[call[o].h] /\ live[call[o].h] # "free"
    BY <2>1 DEF Spares, Calm, Base, OwnInv, FreeUnheld
  <2>3. request # call[o].h
    BY <2>1, <2>2, NullAssumption
  <2>. QED BY <1>1, <1>2, <1>4, <1>5, <2>2, <2>3 DEF Untouched
<1>. QED BY <1>1, <1>2, <1>4, <1>5, <1>7, <1>8, IdleWaits DEF Leaves

(* A connection is opened with its context. *)
LEMMA ConnectsKeeps ==
  ASSUME Calm, TypeOK', ~ stale', NEW t \in Thread,
         NEW s \in Handle, NEW h \in Handle, NEW c \in Ctx, Connects(t, s, h, c)
  PROVE  Kept(t)
<1>. TypeOK /\ OwnInv
  BY DEF Calm, Base, OwnInv
<1>. USE NullAssumption
<1>1. /\ live'[h] = "connect" /\ held'[h] = t /\ live[h] = "free" /\ parent' = parent
      /\ \A g \in Handle \ {h} : live'[g] = live[g] /\ held'[g] = held[g]
  BY DEF Connects, TypeOK, reqVars
<1>2. /\ hConnect'[c] = h /\ hRequest'[c] = NULL /\ hOpen'[c] = s
      /\ createInetCtx(c, s, h, NULL, NULL)
  BY DEF Connects, createInetCtx, TypeOK
<1>3. Gentle /\ Spares({}) /\ h \notin Searched
  <2>1. \A g \in Handle : g \notin {h} =>
          live'[g] = live[g] /\ held'[g] = held[g] /\ parent'[g] = parent[g]
    BY <1>1
  <2>2. HandOut({h}) /\ {h} \in SUBSET Handle /\ \A g \in {h} : live[g] = "free"
    BY <1>1 DEF Connects
  <2>. QED BY <2>1, <2>2, OpenGentle
<1>4. Takes(c)
  BY <1>2 DEF Takes, Serves
<1>5. /\ (\A d \in Ctx : Listed(d)' => Serves(d)') /\ OneRequest'
      /\ WaitInv => Leaves(t) /\ WaitOk(t)'
      /\ \A d \in Ctx : /\ Listed(d)' <=> Listed(d) \/ d = c
                        /\ d # c => hConnect'[d] = hConnect[d] /\ hOpen'[d] = hOpen[d]
      /\ ~ Listed(c)
  <2>1. NULL \in HandleOrNull
    BY DEF HandleOrNull
  <2>. QED BY <1>2, <1>3, <1>4, <2>1, CreateKeeps DEF Connects
<1>6. \A d \in Ctx : Listed(d) => hConnect[d] # h /\ hConnect[d] \in Handle
  BY <1>3, SearchedIs DEF TypeOK, HandleOrNull, Calm, CtxInv, Serves
<1>7. ASSUME NEW g \in Handle, held'[g] # NULL, live'[g] = "connect"
      PROVE  \E d \in Ctx : /\ Listed(d)' /\ hConnect'[d] = g
                            /\ \A e \in Ctx : Listed(e)' /\ hConnect'[e] = g => e = d
  <2>1. CASE g = h
    BY <1>2, <1>5, <1>6, <2>1
  <2>2. CASE g # h
    <3>1. PICK d \in Ctx : /\ Listed(d) /\ hConnect[d] = g
                           /\ \A e \in Ctx : Listed(e) /\ hConnect[e] = g => e = d
      BY <1>1, <1>7, <2>2 DEF Calm, CtxInv, HasContext
    <3>. QED BY <1>2, <1>5, <2>2, <3>1
  <2>. QED BY <2>1, <2>2
<1>8. ASSUME NEW d \in Ctx, Listed(d)'
      PROVE  \/ d \in stranded'
             \/ /\ held'[hConnect'[d]] # NULL
                /\ live'[hConnect'[d]] = IF hOpen'[d] = NULL THEN "session" ELSE "connect"
  <2>1. CASE d = c
    BY <1>1, <1>2, <2>1
  <2>2. CASE d # c
    <3>1. Listed(d) /\ hConnect'[d] = hConnect[d] /\ hOpen'[d] = hOpen[d]
      BY <1>5, <1>8, <2>2
    <3>2. \/ d \in stranded
          \/ /\ held[hConnect[d]] # NULL
             /\ live[hConnect[d]] = IF hOpen[d] = NULL THEN "session" ELSE "connect"
      BY <3>1 DEF Calm, CtxInv, HasConnect
    <3>3. stranded' = stranded
      BY DEF Connects
    <3>. QED BY <1>1, <1>6, <3>1, <3>2, <3>3
  <2>. QED BY <2>1, <2>2
<1>9. CtxInv'
  BY <1>5, <1>7, <1>8 DEF CtxInv, HasContext, HasConnect
<1>. QED BY <1>3, <1>5, <1>9 DEF Kept

(* A URL is opened through the bypass, with a context of its session. *)
LEMMA BypassesKeeps ==
  ASSUME Calm, TypeOK', ~ stale', NEW t \in Thread,
         NEW s \in Handle, NEW nc \in Handle, NEW r \in Handle, NEW c \in Ctx,
         Bypasses(t, s, c, nc, r)
  PROVE  Kept(t)
<1>. TypeOK /\ OwnInv
  BY DEF Calm, Base, OwnInv
<1>. USE NullAssumption
<1>1. /\ live'[nc] = "connect" /\ live'[r] = "request" /\ held'[r] = t
      /\ live[nc] = "free" /\ live[r] = "free" /\ held'[nc] = held[nc] /\ parent'[r] = s
      /\ \A g \in Handle \ {nc, r} :
           live'[g] = live[g] /\ held'[g] = held[g] /\ parent'[g] = parent[g]
  BY DEF Bypasses, TypeOK
<1>2. /\ hConnect'[c] = s /\ hRequest'[c] = r /\ hOpen'[c] = NULL
      /\ createInetCtx(c, NULL, s, r, nc)
  BY DEF Bypasses, createInetCtx, TypeOK
<1>3. held[nc] = NULL /\ held[r] = NULL /\ live[s] = "session" /\ held[s] # NULL
  BY <1>1 DEF OwnInv, FreeUnheld, Bypasses, ClientSession
<1>4. Gentle /\ Spares({}) /\ r \notin Searched
  <2>1. \A g \in Handle : g \notin {nc, r} =>
          live'[g] = live[g] /\ held'[g] = held[g] /\ parent'[g] = parent[g]
    BY <1>1
  <2>2. HandOut({nc, r}) /\ {nc, r} \in SUBSET Handle /\ \A g \in {nc, r} : live[g] = "free"
    BY <1>1 DEF Bypasses
  <2>3. Gentle /\ Spares({}) /\ \A g \in {nc, r} : g \notin Searched
    BY <2>1, <2>2, OpenGentle
  <2>. QED BY <2>3
<1>5. Takes(c)
  BY <1>1, <1>2, <1>4 DEF Takes, Serves
<1>6. /\ (\A d \in Ctx : Listed(d)' => Serves(d)') /\ OneRequest'
      /\ WaitInv => Leaves(t) /\ WaitOk(t)'
      /\ \A d \in Ctx : /\ Listed(d)' <=> Listed(d) \/ d = c
                        /\ d # c => hConnect'[d] = hConnect[d] /\ hOpen'[d] = hOpen[d]
      /\ ~ Listed(c)
  <2>1. r \in HandleOrNull /\ call' = call /\ call[t] = Idle
    BY DEF HandleOrNull, Bypasses
  <2>2. createInetCtx(c, NULL, s, r, nc)
    BY <1>2
  <2>3. Gentle /\ Spares({}) /\ (r = NULL \/ live[r] = "free")
    BY <1>1, <1>4
  <2>4. /\ (\A d \in Ctx : Listed(d)' => Serves(d)') /\ OneRequest'
        /\ WaitInv => Leaves(t) /\ WaitOk(t)'
        /\ \A d \in Ctx : /\ Listed(d)' <=> Listed(d) \/ d = c
                          /\ d # c => hConnect'[d] = hConnect[d] /\ hOpen'[d] = hOpen[d]
        /\ hConnect'[c] = s /\ hOpen'[c] = NULL /\ ~ Listed(c)
    BY <1>5, <2>1, <2>2, <2>3, CreateKeeps
  <2>. QED BY <2>4
<1>7. NoNewConnect
  BY <1>1, <1>3 DEF NoNewConnect
<1>8. held'[s] # NULL /\ live'[s] = "session"
  BY <1>1, <1>3
<1>. DEFINE none == {}
<1>9. Spares(none) /\ \A d \in Ctx : Listed(d) => hConnect[d] \notin none
  BY <1>4
<1>. HIDE DEF none
<1>10. stranded' = stranded
  BY DEF Bypasses
<1>11. HasContext' /\ HasConnect'
  BY <1>2, <1>6, <1>7, <1>8, <1>9, <1>10, ConnectsKept
<1>. QED BY <1>4, <1>6, <1>11 DEF CtxInv, Kept

(* A rewritten request becomes the request of its connection's context. *)
LEMMA RewritesKeeps ==
  ASSUME Calm, TypeOK', ~ stale', NEW t \in Thread,
         NEW hc \in Handle, NEW nc \in Handle, NEW r \in Handle, NEW c \in Ctx,
         Rewrites(t, hc, c, nc, r)
  PROVE  Kept(t)
<1>. TypeOK /\ OwnInv
  BY DEF Calm, Base, OwnInv
<1>. USE NullAssumption
<1>1. /\ live'[nc] = "connect" /\ live'[r] = "request" /\ held'[r] = t
      /\ live[nc] = "free" /\ live[r] = "free" /\ held'[nc] = held[nc] /\ parent'[r] = hc
      /\ \A g \in Handle \ {nc, r} :
           live'[g] = live[g] /\ held'[g] = held[g] /\ parent'[g] = parent[g]
  BY DEF Rewrites, TypeOK
<1>2. /\ hRequest'[c] = r
      /\ \A d \in Ctx : d # c => hRequest'[d] = hRequest[d]
  BY DEF Rewrites, TypeOK
<1>3. /\ UNCHANGED <<list, hOpen, hConnect, hNewRequest, call, stranded>>
      /\ Listed(c) /\ hConnect[c] = hc /\ live[hc] = "connect" /\ held[hc] = t
      /\ hOpen[c] # NULL /\ call[t] = Idle
  BY DEF Rewrites, ClientHolds
<1>4. held[nc] = NULL /\ held[r] = NULL
  BY <1>1 DEF OwnInv, FreeUnheld
<1>5. \A d \in Ctx : Listed(d)' <=> Listed(d)
  BY <1>3 DEF Listed
<1>6. Gentle /\ Spares({}) /\ r \notin Searched
  <2>1. \A g \in Handle : g \notin {nc, r} =>
          live'[g] = live[g] /\ held'[g] = held[g] /\ parent'[g] = parent[g]
    BY <1>1
  <2>2. HandOut({nc, r}) /\ {nc, r} \in SUBSET Handle /\ \A g \in {nc, r} : live[g] = "free"
    BY <1>1 DEF Rewrites
  <2>3. Gentle /\ Spares({}) /\ \A g \in {nc, r} : g \notin Searched
    BY <2>1, <2>2, OpenGentle
  <2>. QED BY <2>3
<1>7. held'[hc] = t
  BY <1>1, <1>3
<1>8. Takes(c)
  BY <1>1, <1>2, <1>3, <1>6, <1>7 DEF Takes, Serves
<1>9. (\A d \in Ctx : Listed(d)' => Serves(d)') /\ OneRequest'
  <2>1. \A d \in Ctx : Listed(d)' /\ d # c => Stays(d)
    BY <1>2, <1>3, <1>5 DEF Stays
  <2>. QED BY <1>6, <1>8, <2>1, ContextsKept
<1>. DEFINE none == {}
<1>10. Spares(none) /\ \A d \in Ctx : Listed(d) => hConnect[d] \notin none
  BY <1>6
<1>. HIDE DEF none
<1>11. HasContext' /\ HasConnect'
  <2>1. NoNewConnect
    BY <1>1, <1>4 DEF NoNewConnect
  <2>2. NULL \notin Ctx
    OBVIOUS
  <2>3. \A d \in Ctx : d # NULL => /\ Listed(d)' <=> Listed(d)
                                   /\ hConnect'[d] = hConnect[d] /\ hOpen'[d] = hOpen[d]
    BY <1>3, <1>5
  <2>. QED BY <1>3, <1>10, <2>1, <2>2, <2>3, ConnectsKept
<1>12. ASSUME WaitInv, NEW o \in Thread, o # t, call[o].pc # "idle"
       PROVE  Untouched(o)
  <2>1. call[o].h \in Handle /\ held[call[o].h] = o /\ o # NULL
    BY <1>12, WaitingType DEF Waiting, WaitInv, WaitOk
  <2>2. held'[call[o].h] = held[call[o].h] /\ call[o].h # r
    BY <1>4, <1>6, <2>1 DEF Spares
  <2>3. hRequest[c] # call[o].h
    <3>1. held[hConnect[c]] # NULL /\ Serves(c)
      BY <1>3 DEF Calm, CtxInv
    <3>2. SUFFICES ASSUME hRequest[c] = call[o].h PROVE FALSE
      OBVIOUS
    <3>3. held[hConnect[c]] = held[hRequest[c]]
      BY <1>3, <2>1, <3>1, <3>2 DEF Serves
    <3>. QED BY <1>3, <1>12, <2>1, <3>2, <3>3
  <2>. QED BY <1>2, <1>3, <1>5, <2>2, <2>3 DEF Untouched
<1>. QED BY <1>3, <1>6, <1>9, <1>11, <1>12, IdleWaits DEF Kept, CtxInv, Leaves

(* A handle is closed, and a connection's or a session's context with it. *)
LEMMA ClosesKeeps ==
  ASSUME Calm, TypeOK', NEW t \in Thread,
         NEW h \in Handle, NEW c \in Ctx \cup {NULL}, Closes(t, h, c)
  PROVE  Kept(t)
<1>. TypeOK /\ OwnInv
  BY DEF Calm, Base, OwnInv
<1>. USE NullAssumption
<1>1. /\ held[h] # NULL /\ call[t] = Idle /\ call' = call
      /\ held' = [held EXCEPT ![h] = NULL]
  BY DEF Closes, CloseHandle
<1>2. \A g \in Handle : held'[g] = IF g = h THEN NULL ELSE held[g]
  BY <1>1 DEF TypeOK
<1>3. ASSUME WaitInv, ~ pulled', NEW o \in Thread, o # t, call[o].pc # "idle"
      PROVE  /\ call[o].h \in Handle /\ held[call[o].h] = o /\ held'[call[o].h] = o
             /\ h # parent[call[o].h]
  <2>1. call[o].h \in Handle /\ held[call[o].h] = o /\ call[o] # Idle
    BY <1>3, WaitingType DEF Waiting, WaitInv, WaitOk, Idle
  <2>2. pulled' = (pulled \/ \E p \in Thread : call[p] # Idle /\ h \in {call[p].h, parent[call[p].h]})
    BY DEF Closes, CloseHandle
  <2>3. h \notin {call[o].h, parent[call[o].h]}
    BY <1>3, <2>1, <2>2, Zenon
  <2>. QED BY <1>2, <2>1, <2>3
<1>4. CASE c \in Ctx /\ Listed(c) /\ hConnect[c] = h /\ CloseConnect(h, c)
  <2>. DEFINE S == Replacements(c) \cup {h}
  <2>0. S \in SUBSET Handle /\ (\A g \in S : held'[g] = NULL)
        /\ (\A g \in Handle : g \notin S => held'[g] = held[g])
        /\ (\A g \in S : held[g] = NULL \/ g = h)
    <3>1. \A g \in Replacements(c) : g \in Handle /\ held[g] = NULL
      BY <1>4, Apart
    <3>. QED BY <1>2, <3>1
  <2>1. Gentle /\ Spares(S)
    <3>1. live' = Shut(live, S) /\ Forget(S)
      BY <1>4 DEF CloseConnect
    <3>. HIDE DEF S
    <3>. QED BY <2>0, <3>1, ShutGentle
  <2>2. Spares({h})
    BY <2>0, <2>1 DEF Spares
  <2>3. \A d \in Ctx : Listed(d)' <=> Listed(d) /\ d # c
    BY <1>4, ListShrinks DEF CloseConnect, TypeOK, Calm, Base
  <2>4. \A d \in Ctx : d # c =>
          /\ hOpen'[d] = hOpen[d] /\ hConnect'[d] = hConnect[d]
          /\ hRequest'[d] = hRequest[d] /\ hNewRequest'[d] = hNewRequest[d]
    BY <1>4 DEF CloseConnect, removeInetCtx, TypeOK
  <2>5. (\A d \in Ctx : Listed(d)' => Serves(d)') /\ OneRequest'
    <3>1. \A d \in Ctx : Listed(d)' /\ d # NULL => Stays(d)
      BY <2>3, <2>4 DEF Stays
    <3>. QED BY <2>1, <3>1, ContextsKept
  <2>6. HasContext'
    <3>1. ASSUME NEW g \in Handle, held'[g] # NULL, live'[g] = "connect"
          PROVE  \E d \in Ctx : /\ Listed(d)' /\ hConnect'[d] = g
                                /\ \A e \in Ctx : Listed(e)' /\ hConnect'[e] = g => e = d
      <4>1. g # h /\ held[g] # NULL /\ live[g] = "connect"
        BY <1>2, <2>2, <3>1 DEF Spares
      <4>2. PICK d \in Ctx : /\ Listed(d) /\ hConnect[d] = g
                             /\ \A e \in Ctx : Listed(e) /\ hConnect[e] = g => e = d
        BY <4>1 DEF Calm, CtxInv, HasContext
      <4>3. d # c
        BY <1>4, <4>1, <4>2
      <4>. QED BY <2>3, <2>4, <4>2, <4>3
    <3>. QED BY <3>1 DEF HasContext
  <2>7. HasConnect'
    <3>1. ASSUME NEW d \in Ctx, Listed(d)'
          PROVE  \/ d \in stranded'
                 \/ /\ held'[hConnect'[d]] # NULL
                    /\ live'[hConnect'[d]] = IF hOpen'[d] = NULL THEN "session" ELSE "connect"
      <4>1. Listed(d) /\ d # c /\ hOpen'[d] = hOpen[d] /\ hConnect'[d] = hConnect[d]
        BY <2>3, <2>4, <3>1
      <4>2. \/ d \in stranded
            \/ /\ held[hConnect[d]] # NULL
               /\ live[hConnect[d]] = IF hOpen[d] = NULL THEN "session" ELSE "connect"
        BY <4>1 DEF Calm, CtxInv, HasConnect
      <4>3. hConnect[d] \in Handle
        BY <4>1 DEF TypeOK, HandleOrNull, Calm, CtxInv, Serves
      <4>4. stranded' = (stranded \cup {e \in Ctx : Listed(e) /\ hConnect[e] = h /\ hOpen[e] = NULL})
                          \ {c}
        BY <1>4 DEF CloseConnect
      <4>5. CASE d \in stranded
        BY <4>1, <4>4, <4>5
      <4>6. CASE d \notin stranded /\ hConnect[d] # h
        BY <2>2, <4>1, <4>2, <4>3, <4>6 DEF Spares
      <4>7. CASE d \notin stranded /\ hConnect[d] = h
        <5>1. CASE hOpen[d] = NULL
          BY <4>1, <4>4, <4>7, <5>1
        <5>2. CASE hOpen[d] # NULL
          <6>1. held[h] # NULL /\ live[h] = "connect"
            BY <4>2, <4>7, <5>2
          <6>2. PICK b \in Ctx : \A e \in Ctx : Listed(e) /\ hConnect[e] = h => e = b
            BY <6>1 DEF Calm, CtxInv, HasContext
          <6>. QED BY <1>4, <4>1, <4>7, <6>2
        <5>. QED BY <5>1, <5>2
      <4>. QED BY <4>5, <4>6, <4>7
    <3>. QED BY <3>1 DEF HasConnect
  <2>8. ASSUME WaitInv, ~ pulled', NEW o \in Thread, o # t, call[o].pc # "idle"
        PROVE  Untouched(o)
    <3>1. /\ call[o].h \in Handle /\ held[call[o].h] = o /\ held'[call[o].h] = o
          /\ h # parent[call[o].h] /\ o # NULL
      BY <1>3, <2>8
    <3>2. hRequest[c] # call[o].h
      <4>1. SUFFICES ASSUME hRequest[c] = call[o].h PROVE FALSE
        OBVIOUS
      <4>2. Serves(c)
        BY <1>4 DEF Calm, CtxInv
      <4>3. parent[call[o].h] = h
        BY <1>1, <1>4, <3>1, <4>1, <4>2 DEF Serves
      <4>. QED BY <3>1, <4>3
    <3>. QED BY <1>1, <2>3, <2>4, <3>1, <3>2 DEF Untouched
  <2>. QED BY <1>1, <2>1, <2>5, <2>6, <2>7, <2>8, IdleWaits DEF Kept, CtxInv, Leaves
<1>5. CASE (\A d \in Ctx : Listed(d) => hConnect[d] # h) /\ CloseOther(h)
  <2>1. live' = Shut(live, {h}) /\ Forget({h}) /\ UNCHANGED <<list, ctxVars, stranded>>
    BY <1>5 DEF CloseOther
  <2>2. {h} \in SUBSET Handle /\ (\A g \in {h} : held'[g] = NULL)
        /\ (\A g \in Handle : g \notin {h} => held'[g] = held[g])
    BY <1>2
  <2>3. Gentle /\ Spares({h})
    BY <2>1, <2>2, ShutGentle
  <2>4. NoNewConnect
    BY <1>2, <2>1 DEF NoNewConnect, Shut
  <2>5. \A d \in Ctx : Listed(d)' <=> Listed(d)
    BY <2>1 DEF Listed
  <2>6. NULL \notin Ctx
    OBVIOUS
  <2>7. (\A d \in Ctx : Listed(d)' => Serves(d)') /\ OneRequest'
    <3>1. \A d \in Ctx : Listed(d)' => Stays(d)
      BY <2>1, <2>5 DEF Stays, ctxVars
    <3>. QED BY <2>3, <2>6, <3>1, ContextsKept
  <2>8. HasContext' /\ HasConnect'
    <3>1. \A d \in Ctx : d # NULL => /\ Listed(d)' <=> Listed(d)
                                     /\ hConnect'[d] = hConnect[d] /\ hOpen'[d] = hOpen[d]
      BY <2>1, <2>5 DEF ctxVars
    <3>2. \A d \in Ctx : Listed(d) => hConnect[d] \notin {h}
      BY <1>5
    <3>. QED BY <2>1, <2>3, <2>4, <2>6, <3>1, <3>2, ConnectsKept
  <2>9. ASSUME WaitInv, ~ pulled', NEW o \in Thread, o # t, call[o].pc # "idle"
        PROVE  Untouched(o)
    <3>1. held[call[o].h] = o /\ held'[call[o].h] = o
      BY <1>3, <2>9
    <3>. QED BY <1>1, <2>1, <2>5, <3>1 DEF Untouched, ctxVars
  <2>. QED BY <1>1, <2>3, <2>7, <2>8, <2>9, IdleWaits DEF Kept, CtxInv, Leaves
<1>. QED BY <1>4, <1>5 DEF Closes


(* Every step of a thread keeps the contexts and the waits. *)
LEMMA StepKept ==
  ASSUME Calm, TypeOK', ~ stale', NEW t \in Thread, Step(t)
  PROVE  Kept(t)
<1>. TypeOK
  BY DEF Calm, Base, OwnInv
<1>1. ASSUME NEW hc \in Handle, NEW c \in Ctx, Misses(t, hc, c)
      PROVE  Kept(t)
  <2>1. WaitOk(t)' /\ \A o \in Thread : o # t => call'[o] = call[o]
    BY <1>1, IdleWaits DEF Misses
  <2>. QED BY <1>1, <2>1, TouchesKeeps DEF Misses, reqVars, history
<1>2. ASSUME NEW r \in Handle, NEW c \in Ctx, Adds(t, r, c)
      PROVE  Kept(t)
  <2>1. WaitOk(t)' /\ \A o \in Thread : o # t => call'[o] = call[o]
    BY <1>2, IdleWaits DEF Adds
  <2>. QED BY <1>2, <2>1, TouchesKeeps DEF Adds, history
<1>. QED BY <1>1, <1>2, OpensKeeps, ConnectsKeeps, RewritesKeeps, BypassesKeeps, EnterKeeps,
            PausesKeeps, UnwindsKeeps, RedirectsKeeps, ClosesKeeps DEF Step

(* No context is listed twice. *)
LEMMA StepDistinct ==
  ASSUME TypeOK, Distinct, NEW t \in Thread, Step(t)
  PROVE  Distinct'
<1>1. ASSUME list' = list
      PROVE  Distinct'
  BY <1>1 DEF Distinct
<1>2. ASSUME NEW c \in Ctx, ~ Listed(c), list' = Append(list, c)
      PROVE  Distinct'
  BY <1>2, GrowsDistinct DEF TypeOK
<1>3. ASSUME NEW c \in Ctx, removeInetCtx(c)
      PROVE  Distinct'
  BY <1>3, ListShrinks DEF TypeOK
<1>4. ASSUME NEW s, NEW h, NEW c \in Ctx, Connects(t, s, h, c)
      PROVE  Distinct'
  BY <1>2, <1>4 DEF Connects, createInetCtx
<1>5. ASSUME NEW s, NEW nc, NEW r, NEW c \in Ctx, Bypasses(t, s, c, nc, r)
      PROVE  Distinct'
  BY <1>2, <1>5 DEF Bypasses, createInetCtx
<1>6. ASSUME NEW h, NEW c \in Ctx \cup {NULL}, Closes(t, h, c)
      PROVE  Distinct'
  BY <1>1, <1>3, <1>6 DEF Closes, CloseConnect, CloseOther
<1>7. ASSUME NEW h, NEW kind, Opens(t, h, kind)
      PROVE  Distinct'
  BY <1>1, <1>7 DEF Opens
<1>8. ASSUME NEW hc, NEW c, Misses(t, hc, c)
      PROVE  Distinct'
  BY <1>1, <1>8 DEF Misses
<1>9. ASSUME NEW hc, NEW nc, NEW r, NEW c, Rewrites(t, hc, c, nc, r)
      PROVE  Distinct'
  BY <1>1, <1>9 DEF Rewrites
<1>10. ASSUME NEW op, NEW r, Enter(t, op, r)
       PROVE  Distinct'
  BY <1>1, <1>10 DEF Enter
<1>11. CASE Pauses(t)
  BY <1>1, <1>11 DEF Pauses
<1>12. ASSUME NEW C, Unwinds(t, C)
       PROVE  Distinct'
  BY <1>1, <1>12 DEF Unwinds
<1>13. ASSUME NEW c, NEW nc, NEW nr, Redirects(t, c, nc, nr)
       PROVE  Distinct'
  BY <1>1, <1>13 DEF Redirects, ReplaceAndSend
<1>14. ASSUME NEW r, NEW c, Adds(t, r, c)
       PROVE  Distinct'
  BY <1>1, <1>14 DEF Adds
<1>. QED BY <1>4, <1>5, <1>6, <1>7, <1>8, <1>9, <1>10, <1>11, <1>12, <1>13, <1>14 DEF Step

(* What was seen is not forgotten. *)
LEMMA StepRemembers ==
  ASSUME NEW t \in Thread, Step(t)
  PROVE  (~ stale' => ~ stale) /\ (~ pulled' => ~ pulled)
<1>1. ASSUME NEW H, HandOut(H) PROVE ~ stale' => ~ stale
  BY <1>1, Zenon DEF HandOut
<1>2. ASSUME NEW h, NEW kind, Opens(t, h, kind)
      PROVE  (~ stale' => ~ stale) /\ (~ pulled' => ~ pulled)
  BY <1>1, <1>2, Zenon DEF Opens
<1>3. ASSUME NEW s, NEW h, NEW c, Connects(t, s, h, c)
      PROVE  (~ stale' => ~ stale) /\ (~ pulled' => ~ pulled)
  BY <1>1, <1>3, Zenon DEF Connects
<1>4. ASSUME NEW hc, NEW c, Misses(t, hc, c)
      PROVE  (~ stale' => ~ stale) /\ (~ pulled' => ~ pulled)
  BY <1>4, Zenon DEF Misses, history
<1>5. ASSUME NEW hc, NEW nc, NEW r, NEW c, Rewrites(t, hc, c, nc, r)
      PROVE  (~ stale' => ~ stale) /\ (~ pulled' => ~ pulled)
  BY <1>1, <1>5, Zenon DEF Rewrites
<1>6. ASSUME NEW s, NEW nc, NEW r, NEW c, Bypasses(t, s, c, nc, r)
      PROVE  (~ stale' => ~ stale) /\ (~ pulled' => ~ pulled)
  BY <1>1, <1>6, Zenon DEF Bypasses
<1>7. ASSUME NEW op, NEW r, Enter(t, op, r)
      PROVE  (~ stale' => ~ stale) /\ (~ pulled' => ~ pulled)
  BY <1>7, Zenon DEF Enter, history
<1>8. CASE Pauses(t)
  BY <1>8, Zenon DEF Pauses, history
<1>9. ASSUME NEW C, Unwinds(t, C)
      PROVE  (~ stale' => ~ stale) /\ (~ pulled' => ~ pulled)
  BY <1>9, Zenon DEF Unwinds, history
<1>10. ASSUME NEW c, NEW nc, NEW nr, Redirects(t, c, nc, nr)
       PROVE  (~ stale' => ~ stale) /\ (~ pulled' => ~ pulled)
  BY <1>1, <1>10, Zenon DEF Redirects, ReplaceAndSend
<1>11. ASSUME NEW r, NEW c, Adds(t, r, c)
       PROVE  (~ stale' => ~ stale) /\ (~ pulled' => ~ pulled)
  BY <1>11, Zenon DEF Adds, history
<1>12. ASSUME NEW h, NEW c, Closes(t, h, c)
       PROVE  (~ stale' => ~ stale) /\ (~ pulled' => ~ pulled)
  BY <1>12, Zenon DEF Closes, CloseHandle
<1>. QED BY <1>2, <1>3, <1>4, <1>5, <1>6, <1>7, <1>8, <1>9, <1>10, <1>11, <1>12 DEF Step

(* The other threads' calls stay as they are. *)
LEMMA OthersCall ==
  ASSUME TypeOK, NEW t \in Thread, Step(t), NEW o \in Thread, o # t
  PROVE  call'[o] = call[o]
<1>1. ASSUME NEW hc, NEW nc, NEW r, NEW c, Rewrites(t, hc, c, nc, r) \/ Bypasses(t, hc, c, nc, r)
      PROVE  call' = call
  BY <1>1 DEF Rewrites, Bypasses
<1>2. ASSUME NEW h, NEW kind, Opens(t, h, kind) \/ Misses(t, h, kind) \/ Adds(t, h, kind)
      PROVE  call' = call
  BY <1>2 DEF Opens, Misses, Adds
<1>3. ASSUME NEW s, NEW h, NEW c, Connects(t, s, h, c) \/ Closes(t, h, c)
      PROVE  call' = call
  BY <1>3 DEF Connects, Closes, CloseHandle
<1>4. ASSUME NEW op, NEW r, Enter(t, op, r)
      PROVE  call'[o] = call[o]
  BY <1>4 DEF Enter, TypeOK
<1>5. CASE Pauses(t)
  BY <1>5 DEF Pauses, TypeOK
<1>6. ASSUME NEW C, Unwinds(t, C)
      PROVE  call'[o] = call[o]
  BY <1>6 DEF Unwinds, Return, TypeOK
<1>7. ASSUME NEW c, NEW nc, NEW nr, Redirects(t, c, nc, nr)
      PROVE  call'[o] = call[o]
  BY <1>7 DEF Redirects, ReplaceAndSend, TypeOK
<1>. QED BY <1>1, <1>2, <1>3, <1>4, <1>5, <1>6, <1>7 DEF Step

(* At first there is no context and no wait. *)
LEMMA InitContext == Init => ContextInv
<1>. SUFFICES ASSUME Init PROVE ContextInv
  OBVIOUS
<1>1. Len(list) = 0
  BY DEF Init
<1>2. \A c : ~ Listed(c)
  BY <1>1 DEF Listed
<1>3. Base
  BY <1>1, InitOwned DEF Base, Distinct
<1>4. CtxInv
  BY <1>2 DEF Init, CtxInv, OneRequest, HasContext, HasConnect
<1>5. WaitInv
  BY DEF Init, WaitInv, WaitOk, Idle
<1>. QED BY <1>3, <1>4, <1>5 DEF ContextInv

(* A step of a thread keeps the invariant. *)
LEMMA StepContext ==
  ASSUME ContextInv, OwnInv', NEW t \in Thread, Step(t)
  PROVE  ContextInv'
<1>. TypeOK /\ TypeOK' /\ Base
  BY DEF ContextInv, Base, OwnInv
<1>1. Base'
  BY StepDistinct DEF Base
<1>2. ASSUME ~ stale'
      PROVE  Kept(t) /\ Calm /\ (~ pulled' => WaitInv)
  BY <1>2, StepKept, StepRemembers DEF ContextInv, Calm
<1>3. ASSUME ~ stale', ~ pulled'
      PROVE  WaitInv'
  <2>1. WaitInv /\ Calm /\ OneRequest' /\ Leaves(t) /\ WaitOk(t)'
    BY <1>2, <1>3 DEF Kept, CtxInv
  <2>2. ASSUME NEW o \in Thread, o # t
        PROVE  WaitOk(o)'
    <3>1. CASE call[o].pc # "idle"
      BY <2>1, <2>2, <3>1, OthersWait DEF WaitInv, Leaves
    <3>2. CASE call[o].pc = "idle"
      <4>1. call'[o] = call[o]
        BY <2>2, OthersCall
      <4>. QED BY <3>2, <4>1 DEF WaitOk
    <3>. QED BY <3>1, <3>2
  <2>. QED BY <2>1, <2>2 DEF WaitInv
<1>. QED BY <1>1, <1>2, <1>3 DEF ContextInv, Kept

(* What was used for something else is not in the contexts. *)
LEMMA QuietContext ==
  ASSUME ContextInv, OwnInv',
         UNCHANGED <<live, held, list, ctxVars, call, parent>>, UNCHANGED history
  PROVE  ContextInv'
<1>1. UNCHANGED <<live, held, list, hOpen, hConnect, hRequest, hNewRequest, call, parent, stranded>>
  BY DEF ctxVars, history
<1>2. (stale' <=> stale) /\ (pulled' <=> pulled)
  BY Zenon DEF history
<1>3. (CtxInv => CtxInv') /\ Base'
  BY <1>1 DEF ContextInv, Base, Distinct, CtxInv, Serves, OneRequest, HasContext, HasConnect, Listed
<1>4. \A r : Target(r)' = Target(r)
  BY <1>1 DEF Target, findInetCtxByRequest, Find, FirstAt
<1>5. WaitInv => WaitInv'
  BY <1>1, <1>4 DEF WaitInv, WaitOk, CtxsOf, ToSet, Listed
<1>. QED BY <1>2, <1>3, <1>5 DEF ContextInv

(* Every step keeps it. *)
LEMMA NextContext == ContextInv /\ [Next]_vars => ContextInv'
<1>. SUFFICES ASSUME ContextInv, [Next]_vars PROVE ContextInv'
  OBVIOUS
<1>1. OwnInv' /\ TypeOK
  BY NextOwned DEF ContextInv, Base, OwnInv
<1>2. CASE UNCHANGED vars
  <2>1. UNCHANGED <<live, held, list, ctxVars, call, parent>> /\ UNCHANGED history
    BY <1>2, ZenonT(30) DEF vars, reqVars
  <2>. QED BY <1>1, <2>1, QuietContext
<1>3. CASE Reuses
  BY <1>1, <1>3, QuietContext DEF Reuses
<1>4. CASE \E t \in Thread : Step(t)
  BY <1>1, <1>4, StepContext
<1>. QED BY <1>1, <1>2, <1>3, <1>4, NextSteps

(* The contexts stay right throughout. *)
LEMMA ContextAlways == Spec => []ContextInv
BY InitContext, NextContext, PTL DEF Spec

(* A hook that waits for the network comes back to contexts that are still  *)
(* listed, whoever closes what, until a value a context is searched by is    *)
(* handed out again or the request waited on, or its parent, is closed.      *)
THEOREM NeverUsedAfterFree == Spec => []NoUseAfterFree
<1>1. ASSUME ContextInv, ~ stale, ~ pulled
      PROVE  Intact
  <2>1. ASSUME NEW t \in Thread
        PROVE  /\ call[t].ctx # NULL => Listed(call[t].ctx)
               /\ \A i \in 1 .. Len(call[t].frames) : Listed(call[t].frames[i])
    <3>1. CASE call[t].pc # "idle"
      <4>1. \A c \in CtxsOf(t) : Listed(c)
        BY <1>1, <3>1 DEF ContextInv, WaitInv, WaitOk
      <4>2. call[t].ctx # NULL => call[t].ctx \in CtxsOf(t)
        BY DEF CtxsOf
      <4>3. \A i \in 1 .. Len(call[t].frames) : call[t].frames[i] \in CtxsOf(t)
        BY DEF CtxsOf, ToSet
      <4>. QED BY <4>1, <4>2, <4>3
    <3>2. CASE call[t].pc = "idle"
      <4>1. call[t] = Idle
        BY <1>1, <3>2 DEF ContextInv, Base, OwnInv, TypeOK, Call, Waiting
      <4>. QED BY <4>1 DEF Idle
    <3>. QED BY <3>1, <3>2
  <2>. QED BY <2>1 DEF Intact
<1>2. ContextInv => NoUseAfterFree
  BY <1>1 DEF NoUseAfterFree
<1>. QED BY <1>2, ContextAlways, PTL

(* An open connection of the client has one context, and a context an open   *)
(* connection or session, unless it is stranded; until a value a context is  *)
(* searched by is handed out again.                                          *)
THEOREM OneContextPerConnect == Spec => []ContextPerConnect
<1>1. ASSUME ContextInv, ~ stale, NEW h \in Handle, held[h] # NULL, live[h] = "connect"
      PROVE  \E i \in 1 .. Len(list) :
               /\ hConnect[list[i]] = h
               /\ \A j \in 1 .. Len(list) : hConnect[list[j]] = h => j = i
  <2>1. PICK c \in Ctx : /\ Listed(c) /\ hConnect[c] = h
                         /\ \A d \in Ctx : Listed(d) /\ hConnect[d] = h => d = c
    BY <1>1 DEF ContextInv, CtxInv, HasContext
  <2>2. PICK i \in 1 .. Len(list) : list[i] = c
    BY <2>1 DEF Listed
  <2>3. ASSUME NEW j \in 1 .. Len(list), hConnect[list[j]] = h
        PROVE  j = i
    <3>1. list[j] \in Ctx /\ Listed(list[j])
      BY <1>1 DEF ContextInv, Base, OwnInv, TypeOK, Listed
    <3>2. list[j] = list[i]
      BY <2>1, <2>2, <2>3, <3>1
    <3>. QED BY <1>1, <3>2 DEF ContextInv, Base, Distinct
  <2>. QED BY <2>1, <2>2, <2>3
<1>2. ASSUME ContextInv, ~ stale, NEW i \in 1 .. Len(list)
      PROVE  \/ list[i] \in stranded
             \/ /\ held[hConnect[list[i]]] # NULL
                /\ live[hConnect[list[i]]] =
                     IF hOpen[list[i]] = NULL THEN "session" ELSE "connect"
  <2>1. list[i] \in Ctx /\ Listed(list[i])
    BY <1>2 DEF ContextInv, Base, OwnInv, TypeOK, Listed
  <2>. QED BY <1>2, <2>1 DEF ContextInv, CtxInv, HasConnect
<1>3. ContextInv => ContextPerConnect
  BY <1>1, <1>2 DEF ContextPerConnect
<1>. QED BY <1>3, ContextAlways, PTL

(* A send that succeeds after one hop at most changes no target. *)
LEMMA SuccessKeepsTarget ==
  ASSUME TypeOK, NEW t \in Thread, SendSucceeds(t), Len(call[t].frames) <= 1
  PROVE  \A h : Target(h)' = Target(h)
<1>. DEFINE C == IF call[t].frames = <<>> THEN {} ELSE Outer(t)
<1>1. call[t].frames \in Seq(Ctx)
  BY WaitingType DEF SendSucceeds, Waiting
<1>2. C = {}
  <2>1. SUFFICES ASSUME call[t].frames # <<>> PROVE Outer(t) = {}
    OBVIOUS
  <2>2. ASSUME NEW s \in Seq(Ctx), Len(s) <= 1
        PROVE  Len(SubSeq(s, 1, Len(s) - 1)) = 0
    BY <2>2
  <2>3. Len(Front(call[t].frames)) = 0
    BY <1>1, <2>2 DEF Front
  <2>. QED BY <2>3 DEF Outer, ToSet
<1>3. DropReplacements(C) /\ UNCHANGED <<list, hRequest>>
  BY DEF SendSucceeds
<1>4. hNewRequest' = hNewRequest
  BY <1>2, <1>3 DEF DropReplacements, TypeOK
<1>. QED BY <1>3, <1>4 DEF Target, findInetCtxByRequest, Find, FirstAt

(* After more hops than one the calls go to the client's request again. *)
LEMMA SuccessClosesTarget ==
  ASSUME TypeOK, TypeOK', OneRequest, NEW t \in Thread, WaitOk(t), NEW r \in Handle,
         r = call[t].h, SendSucceeds(t), Len(call[t].frames) > 1
  PROVE  Target(r)' # call[t].target
<1>1. call[t].frames \in Seq(Ctx) /\ call[t].pc # "idle"
  BY WaitingType DEF SendSucceeds, Waiting
<1>2. PICK s \in Seq(Ctx) : s = call[t].frames
  BY <1>1
<1>3. Len(s) > 1 /\ s # <<>> /\ 1 \in 1 .. Len(s)
  BY <1>2
<1>4. PICK c \in Ctx : c = s[1]
  BY <1>3
<1>5. c \in Outer(t) /\ c \in CtxsOf(t)
  <2>1. Front(s) \in Seq(Ctx) /\ Len(Front(s)) = Len(s) - 1 /\ Front(s)[1] = s[1]
    BY <1>3 DEF Front
  <2>2. 1 \in DOMAIN Front(s)
    BY <1>3, <2>1
  <2>3. c \in Outer(t)
    <3>1. c \in ToSet(Front(s))
      BY <1>4, <2>1, <2>2 DEF ToSet
    <3>. QED BY <1>2, <3>1 DEF Outer
  <2>4. c \in ToSet(call[t].frames)
    BY <1>2, <1>3, <1>4 DEF ToSet
  <2>. QED BY <2>3, <2>4 DEF CtxsOf
<1>6. Listed(c) /\ hRequest[c] = r /\ call[t].target # r
  BY <1>1, <1>2, <1>3, <1>5 DEF WaitOk
<1>7. /\ UNCHANGED <<list, hRequest>> /\ DropReplacements(Outer(t))
  BY <1>2, <1>3 DEF SendSucceeds
<1>8. hNewRequest'[c] = NULL /\ Listed(c)' /\ hRequest'[c] = r /\ OneRequest'
  BY <1>5, <1>6, <1>7 DEF DropReplacements, Listed, OneRequest
<1>9. Target(r)' = r
  BY <1>8, TargetIsNext
<1>. QED BY <1>6, <1>9

(* After a send that succeeds, the calls that read the answer reach the      *)
(* request that was answered if and only if it took one hop at most.         *)
THEOREM AnswersAreReadable == Spec => AnswerIsReadable
<1>1. ASSUME ContextInv, TypeOK', ~ stale, ~ pulled, NEW t \in Thread, NEW r \in Handle,
             SendSucceeds(t), r = call[t].h
      PROVE  Target(r)' = call[t].target <=> Len(call[t].frames) <= 1
  <2>1. TypeOK /\ OneRequest /\ WaitOk(t) /\ call[t].pc # "idle"
    BY <1>1 DEF ContextInv, Base, OwnInv, CtxInv, WaitInv, SendSucceeds
  <2>2. Target(r) = call[t].target /\ Len(call[t].frames) \in Nat
    BY <1>1, <2>1, WaitingType DEF WaitOk, Waiting
  <2>3. ASSUME Len(call[t].frames) <= 1
        PROVE  Target(r)' = call[t].target
    BY <1>1, <2>1, <2>2, <2>3, SuccessKeepsTarget
  <2>4. ASSUME Len(call[t].frames) > 1
        PROVE  Target(r)' # call[t].target
    BY <1>1, <2>1, <2>4, SuccessClosesTarget
  <2>. QED BY <2>2, <2>3, <2>4
<1>2. ContextInv /\ TypeOK' =>
        [\A t \in Thread, r \in Handle :
           ~stale /\ ~pulled /\ SendSucceeds(t) /\ r = call[t].h =>
             (Target(r)' = call[t].target <=> Len(call[t].frames) <= 1)]_vars
  BY <1>1
<1>3. ContextInv /\ ContextInv' => TypeOK'
  BY DEF ContextInv, Base, OwnInv
<1>. QED BY <1>2, <1>3, ContextAlways, PTL DEF Spec, AnswerIsReadable

-----------------------------------------------------------------------------
(* Where the replacements are, and what they were opened for *)

(* A context without replacements. *)
Blank(c) == hNewConnect[c] = NULL /\ hNewRequest[c] = NULL

(* Only a listed context with a request has replacements. *)
OthersBlank == \A c \in Ctx : ~ Listed(c) \/ hRequest[c] = NULL => Blank(c)

(* What is open is the client's or some context's. *)
Accounted ==
  \A h \in Handle : live[h] \in Kind => held[h] # NULL \/ \E c \in Ctx : h \in Replacements(c)

(* What keeps the replacements found, beside their ownership. *)
Found == Distinct /\ OthersBlank /\ Accounted
LeakInv == OwnInv /\ Found

(* A handle is opened for the client, or nothing happens to the handles, and *)
(* no replacement comes or goes.                                             *)
LEMMA PlainFound ==
  ASSUME LeakInv, TypeOK', Distinct',
         \A h \in Handle : (live'[h] = live[h] /\ held'[h] = held[h]) \/ held'[h] # NULL,
         \A d \in Ctx : hNewConnect'[d] = hNewConnect[d] /\ hNewRequest'[d] = hNewRequest[d],
         \A d \in Ctx : hRequest'[d] = hRequest[d] \/ Blank(d),
         \A d \in Ctx : Listed(d) => Listed(d)',
         \A d \in Ctx : hRequest'[d] = NULL => hRequest[d] = NULL \/ Blank(d)
  PROVE  Found'
<1>1. OthersBlank'
  BY DEF LeakInv, Found, OthersBlank, Blank
<1>2. Accounted'
  <2>1. \A d \in Ctx : Replacements(d)' = Replacements(d)
    BY DEF Replacements
  <2>. QED BY <2>1 DEF LeakInv, Found, Accounted
<1>. QED BY <1>1, <1>2 DEF Found

(* An unlisted context joins the list without replacements. *)
LEMMA ConnectsFound ==
  ASSUME LeakInv, TypeOK', NEW t \in Thread, NEW s \in Handle, NEW h \in Handle, NEW c \in Ctx,
         Connects(t, s, h, c)
  PROVE  Found'
<1>1. /\ ~ Listed(c) /\ list' = Append(list, c)
      /\ \A d \in Ctx : d # c => hRequest'[d] = hRequest[d]
      /\ \A d \in Ctx : hNewConnect'[d] = hNewConnect[d] /\ hNewRequest'[d] = hNewRequest[d]
  BY DEF Connects, createInetCtx, LeakInv, OwnInv, TypeOK, Found, OthersBlank, Blank
<1>2. Distinct' /\ \A d \in Ctx : Listed(d)' <=> Listed(d) \/ d = c
  BY <1>1, ListGrows, GrowsDistinct DEF LeakInv, Found, OwnInv, TypeOK
<1>3. \A d \in Ctx : hRequest'[d] = hRequest[d] \/ Blank(d)
  BY <1>1 DEF LeakInv, Found, OthersBlank
<1>4. \A g \in Handle : (live'[g] = live[g] /\ held'[g] = held[g]) \/ held'[g] # NULL
  BY NullAssumption DEF Connects, LeakInv, OwnInv, TypeOK
<1>. QED BY <1>1, <1>2, <1>3, <1>4, PlainFound DEF Connects

(* A connection is opened for a context without replacements, and with it a *)
(* request for the client, which becomes the context's.                      *)
LEMMA RewriteFound ==
  ASSUME LeakInv, TypeOK', Distinct', NEW t \in Thread, NEW c \in Ctx,
         NEW nc \in Handle, NEW r \in Handle,
         Blank(c), Listed(c)', \A d \in Ctx : Listed(d) => Listed(d)',
         live' = [live EXCEPT ![nc] = "connect", ![r] = "request"],
         held' = [held EXCEPT ![r] = t], nc # r,
         hRequest'[c] = r, hNewConnect'[c] = nc, hNewRequest'[c] = NULL,
         \A d \in Ctx : d # c => /\ hRequest'[d] = hRequest[d]
                                 /\ hNewConnect'[d] = hNewConnect[d]
                                 /\ hNewRequest'[d] = hNewRequest[d]
  PROVE  Found'
<1>. USE NullAssumption
<1>1. OthersBlank'
  BY DEF LeakInv, Found, OthersBlank, Blank
<1>2. Accounted'
  <2>1. ASSUME NEW h \in Handle, live'[h] \in Kind
        PROVE  held'[h] # NULL \/ \E d \in Ctx : h \in Replacements(d)'
    <3>1. CASE h = nc
      BY <3>1 DEF Replacements
    <3>2. CASE h = r
      BY <3>2 DEF LeakInv, OwnInv, TypeOK
    <3>3. CASE h # nc /\ h # r
      <4>1. live[h] \in Kind /\ held'[h] = held[h]
        BY <2>1, <3>3 DEF LeakInv, OwnInv, TypeOK
      <4>2. ASSUME NEW d \in Ctx, h \in Replacements(d)
            PROVE  h \in Replacements(d)'
        BY <4>2 DEF Replacements, Blank
      <4>. QED BY <4>1, <4>2 DEF LeakInv, Found, Accounted
    <3>. QED BY <3>1, <3>2, <3>3
  <2>. QED BY <2>1 DEF Accounted
<1>. QED BY <1>1, <1>2 DEF Found

(* Handles are closed that are no replacements of contexts which keep theirs. *)
LEMMA ShutFound ==
  ASSUME LeakInv, TypeOK', Distinct', NEW S \in SUBSET Handle, live' = Shut(live, S),
         \A h \in Handle : h \notin S => held'[h] = held[h],
         NEW C \in SUBSET Ctx, AllReplacements(C) \subseteq S,
         \A d \in C : hNewConnect'[d] = NULL /\ hNewRequest'[d] = NULL,
         \A d \in Ctx \ C : /\ Replacements(d) \cap S = {}
                            /\ hNewConnect'[d] = hNewConnect[d] /\ hNewRequest'[d] = hNewRequest[d]
                            /\ hRequest'[d] = hRequest[d],
         \A d \in Ctx \ C : Listed(d) => Listed(d)'
  PROVE  Found'
<1>1. OthersBlank'
  BY DEF LeakInv, Found, OthersBlank, Blank
<1>2. Accounted'
  <2>1. ASSUME NEW h \in Handle, live'[h] \in Kind
        PROVE  held'[h] # NULL \/ \E d \in Ctx : h \in Replacements(d)'
    <3>1. h \notin S /\ live'[h] = live[h] /\ held'[h] = held[h]
      BY <2>1 DEF Shut, Kind
    <3>2. ASSUME NEW d \in Ctx, h \in Replacements(d)
          PROVE  h \in Replacements(d)'
      <4>1. d \notin C
        BY <3>1, <3>2 DEF AllReplacements
      <4>. QED BY <3>2, <4>1 DEF Replacements
    <3>. QED BY <2>1, <3>1, <3>2 DEF LeakInv, Found, Accounted
  <2>. QED BY <2>1 DEF Accounted
<1>. QED BY <1>1, <1>2 DEF Found

(* A send returns. *)
LEMMA UnwindsFound ==
  ASSUME LeakInv, TypeOK', NEW t \in Thread, NEW C \in SUBSET Ctx, Unwinds(t, C)
  PROVE  Found'
<1>. DEFINE S == AllReplacements(C)
<1>1. S \in SUBSET Handle
  BY ReplacementsType DEF LeakInv, OwnInv
<1>2. \A d \in Ctx \ C : Replacements(d) \cap S = {}
  BY Apart DEF LeakInv, AllReplacements
<1>3. /\ live' = Shut(live, S) /\ held' = held /\ hRequest' = hRequest
      /\ \A d \in C : hNewConnect'[d] = NULL /\ hNewRequest'[d] = NULL
      /\ \A d \in Ctx \ C : /\ hNewConnect'[d] = hNewConnect[d]
                            /\ hNewRequest'[d] = hNewRequest[d]
  BY DEF Unwinds, DropReplacements, Forget
<1>4. Distinct' /\ \A d \in Ctx : Listed(d) => Listed(d)'
  BY DEF Unwinds, Listed, Distinct, LeakInv, Found
<1>. HIDE DEF S
<1>. QED BY <1>1, <1>2, <1>3, <1>4, ShutFound DEF S

(* A redirect is followed. *)
LEMMA RedirectsFound ==
  ASSUME LeakInv, TypeOK', NEW t \in Thread, NEW c \in Ctx,
         NEW nc \in Handle, NEW nr \in Handle, Redirects(t, c, nc, nr)
  PROVE  Found'
<1>. USE NullAssumption
<1>1. /\ Listed(c) /\ hRequest[c] = call[t].h /\ nc # nr
      /\ UNCHANGED <<held, list, hRequest>>
      /\ hNewConnect'[c] = nc /\ hNewRequest'[c] = nr
      /\ \A d \in Ctx \ {c} : hNewConnect'[d] = hNewConnect[d] /\ hNewRequest'[d] = hNewRequest[d]
  BY DEF Redirects, ReplaceAndSend, LeakInv, OwnInv, TypeOK
<1>2. call[t].h \in Handle
  BY WaitingType DEF Redirects, LeakInv, OwnInv, Waiting
<1>3. Distinct' /\ \A d \in Ctx : Listed(d)' <=> Listed(d)
  BY <1>1 DEF Listed, Distinct, LeakInv, Found
<1>4. OthersBlank'
  BY <1>1, <1>2, <1>3 DEF LeakInv, Found, OthersBlank, Blank
<1>5. Accounted'
  <2>1. ASSUME NEW h \in Handle, live'[h] \in Kind
        PROVE  held'[h] # NULL \/ \E d \in Ctx : h \in Replacements(d)'
    <3>1. CASE h \in {nc, nr}
      BY <1>1, <3>1 DEF Replacements
    <3>2. CASE h \notin {nc, nr}
      <4>1. live[h] \in Kind /\ h \notin Replacements(c)
        BY <2>1, <3>2 DEF Redirects, ReplaceAndSend, Shut, Kind
      <4>2. ASSUME NEW d \in Ctx, h \in Replacements(d)
            PROVE  h \in Replacements(d)'
        <5>1. d # c
          BY <4>1, <4>2
        <5>. QED BY <1>1, <4>2, <5>1 DEF Replacements
      <4>. QED BY <1>1, <4>1, <4>2 DEF LeakInv, Found, Accounted
    <3>. QED BY <3>1, <3>2
  <2>. QED BY <2>1 DEF Accounted
<1>. QED BY <1>3, <1>4, <1>5 DEF Found

(* A handle is closed. *)
LEMMA ClosesFound ==
  ASSUME LeakInv, TypeOK', NEW t \in Thread, NEW h \in Handle, NEW c \in Ctx \cup {NULL},
         Closes(t, h, c)
  PROVE  Found'
<1>. TypeOK
  BY DEF LeakInv, OwnInv
<1>. USE NullAssumption
<1>1. \A d \in Ctx : h \notin Replacements(d)
  BY Apart DEF LeakInv, Closes, CloseHandle
<1>0. \A g \in Handle : g # h => held'[g] = held[g]
  BY DEF Closes, CloseHandle, TypeOK
<1>2. CASE c \in Ctx /\ CloseConnect(h, c)
  <2>. DEFINE S == Replacements(c) \cup {h}
  <2>1. S \in SUBSET Handle /\ AllReplacements({c}) \subseteq S
    BY <1>2, Apart DEF LeakInv, AllReplacements
  <2>2. /\ live' = Shut(live, S)
        /\ \A g \in Handle : g \notin S => held'[g] = held[g]
    BY <1>0, <1>2 DEF CloseConnect
  <2>3. \A d \in Ctx \ {c} : Replacements(d) \cap S = {}
    BY <1>1, <1>2, Apart DEF LeakInv
  <2>4. Distinct' /\ \A d \in Ctx : Listed(d)' <=> Listed(d) /\ d # c
    BY <1>2, ListShrinks DEF CloseConnect, TypeOK, LeakInv, Found
  <2>5. /\ hNewConnect'[c] = NULL /\ hNewRequest'[c] = NULL
        /\ \A d \in Ctx \ {c} : /\ hNewConnect'[d] = hNewConnect[d]
                                /\ hNewRequest'[d] = hNewRequest[d]
                                /\ hRequest'[d] = hRequest[d]
    BY <1>2 DEF CloseConnect, removeInetCtx, TypeOK
  <2>. HIDE DEF S
  <2>. QED BY <1>2, <2>1, <2>2, <2>3, <2>4, <2>5, ShutFound
<1>3. CASE CloseOther(h)
  <2>1. /\ live' = Shut(live, {h})
        /\ \A g \in Handle : g \notin {h} => held'[g] = held[g]
    BY <1>0, <1>3 DEF CloseOther
  <2>2. UNCHANGED <<list, hRequest, hNewConnect, hNewRequest>>
    BY <1>3 DEF CloseOther, ctxVars
  <2>3. Distinct' /\ \A d \in Ctx : Listed(d) => Listed(d)'
    BY <2>2 DEF Listed, Distinct, LeakInv, Found
  <2>4. AllReplacements({}) = {}
    BY DEF AllReplacements
  <2>. QED BY <1>1, <2>1, <2>2, <2>3, <2>4, ShutFound
<1>. QED BY <1>2, <1>3 DEF Closes

(* The steps that change no replacement. *)
LEMMA OtherFound ==
  ASSUME LeakInv, TypeOK', UNCHANGED <<list, hRequest, hNewConnect, hNewRequest>>,
         \A h \in Handle : (live'[h] = live[h] /\ held'[h] = held[h]) \/ held'[h] # NULL
  PROVE  Found'
<1>1. Distinct' /\ \A d \in Ctx : Listed(d) => Listed(d)'
  BY DEF Listed, Distinct, LeakInv, Found
<1>. QED BY <1>1, PlainFound

(* Every step of a thread keeps the replacements found, if the client opens *)
(* one request on a connection.                                             *)
LEMMA StepFound ==
  ASSUME ReopenConnect = FALSE, LeakInv, TypeOK', NEW t \in Thread, Step(t)
  PROVE  Found'
<1>. TypeOK
  BY DEF LeakInv, OwnInv
<1>. USE NullAssumption
<1>1. ASSUME NEW h \in Handle, NEW kind \in {"session", "request"}, Opens(t, h, kind)
      PROVE  Found'
  <2>1. \A g \in Handle : (live'[g] = live[g] /\ held'[g] = held[g]) \/ held'[g] # NULL
    BY <1>1 DEF Opens, TypeOK
  <2>. QED BY <1>1, <2>1, OtherFound DEF Opens, ctxVars
<1>2. ASSUME NEW hc \in Handle, NEW c \in Ctx, MayOpenOn(hc), c = findInetCtxByConnect(hc)
      PROVE  Blank(c)
  BY <1>2 DEF MayOpenOn, LeakInv, Found, OthersBlank
<1>3. ASSUME NEW hc \in Handle, NEW c \in Ctx, Misses(t, hc, c)
      PROVE  Found'
  <2>1. hNewConnect' = hNewConnect
    BY <1>2, <1>3 DEF Misses, Blank, TypeOK
  <2>. QED BY <1>3, <2>1, OtherFound DEF Misses
<1>4. ASSUME NEW hc \in Handle, NEW nc \in Handle, NEW r \in Handle, NEW c \in Ctx,
             Rewrites(t, hc, c, nc, r)
      PROVE  Found'
  <2>1. Blank(c) /\ Listed(c) /\ list' = list
    BY <1>2, <1>4 DEF Rewrites
  <2>2. Distinct' /\ \A d \in Ctx : Listed(d)' <=> Listed(d)
    BY <2>1 DEF Listed, Distinct, LeakInv, Found
  <2>3. /\ hRequest'[c] = r /\ hNewConnect'[c] = nc /\ hNewRequest'[c] = NULL
        /\ \A d \in Ctx : d # c => /\ hRequest'[d] = hRequest[d]
                                   /\ hNewConnect'[d] = hNewConnect[d]
                                   /\ hNewRequest'[d] = hNewRequest[d]
    BY <1>4, <2>1 DEF Rewrites, TypeOK, Blank
  <2>. QED BY <1>4, <2>1, <2>2, <2>3, RewriteFound DEF Rewrites
<1>5. ASSUME NEW s \in Handle, NEW nc \in Handle, NEW r \in Handle, NEW c \in Ctx,
             Bypasses(t, s, c, nc, r)
      PROVE  Found'
  <2>1. ~ Listed(c) /\ list' = Append(list, c)
    BY <1>5 DEF Bypasses, createInetCtx
  <2>2. Blank(c)
    BY <2>1 DEF LeakInv, Found, OthersBlank
  <2>3. Distinct' /\ \A d \in Ctx : Listed(d)' <=> Listed(d) \/ d = c
    BY <2>1, ListGrows, GrowsDistinct DEF LeakInv, Found, TypeOK
  <2>4. /\ hRequest'[c] = r /\ hNewConnect'[c] = nc /\ hNewRequest'[c] = NULL
        /\ \A d \in Ctx : d # c => /\ hRequest'[d] = hRequest[d]
                                   /\ hNewConnect'[d] = hNewConnect[d]
                                   /\ hNewRequest'[d] = hNewRequest[d]
    BY <1>5 DEF Bypasses, createInetCtx, TypeOK
  <2>. QED BY <1>5, <2>2, <2>3, <2>4, RewriteFound DEF Bypasses
<1>6. ASSUME NEW op, NEW r, Enter(t, op, r)
      PROVE  Found'
  BY <1>6, OtherFound DEF Enter, ctxVars
<1>7. CASE Pauses(t)
  BY <1>7, OtherFound DEF Pauses, ctxVars
<1>8. ASSUME NEW r, NEW c, Adds(t, r, c)
      PROVE  Found'
  BY <1>8, OtherFound DEF Adds
<1>. QED BY <1>1, <1>3, <1>4, <1>5, <1>6, <1>7, <1>8, ConnectsFound, UnwindsFound, RedirectsFound,
            ClosesFound DEF Step


(* A context's replacement was opened for its request, or that is closed. *)
OriginKept ==
  \A c \in Ctx : hNewRequest[c] # NULL =>
    origin[hNewRequest[c]] = hRequest[c] \/ held[hRequest[c]] = NULL

(* A replacement that stays was opened for the same request as before, if    *)
(* only the handles in S are forgotten and those are nobody's.               *)
LEMMA OriginStays ==
  ASSUME LeakInv, OriginKept, Gentle, NEW S \in SUBSET Handle, \A h \in S : held'[h] = NULL,
         \A h \in Handle : h \notin S => origin'[h] = origin[h] \/ origin[h] \in S,
         \A d \in Ctx :
           \/ hNewRequest'[d] = NULL
           \/ origin'[hNewRequest'[d]] = hRequest'[d]
           \/ /\ hNewRequest'[d] = hNewRequest[d] /\ hRequest'[d] = hRequest[d]
              /\ hNewRequest[d] \notin S
  PROVE  OriginKept'
<1>. SUFFICES ASSUME NEW d \in Ctx, hNewRequest'[d] # NULL,
                     origin'[hNewRequest'[d]] # hRequest'[d]
              PROVE  held'[hRequest'[d]] = NULL
  BY DEF OriginKept
<1>1. /\ hNewRequest'[d] = hNewRequest[d] /\ hRequest'[d] = hRequest[d]
      /\ hNewRequest[d] \notin S
  OBVIOUS
<1>2. PICK n \in Handle : n = hNewRequest[d]
  BY <1>1 DEF LeakInv, OwnInv, TypeOK, HandleOrNull
<1>3. Listed(d) /\ hRequest[d] # NULL
  BY <1>1 DEF LeakInv, Found, OthersBlank, Blank
<1>4. PICK r \in Handle : r = hRequest[d]
  BY <1>3 DEF LeakInv, OwnInv, TypeOK, HandleOrNull
<1>5. r \in Searched
  BY <1>3, <1>4, SearchedIs
<1>6. origin[n] = r \/ held[r] = NULL
  BY <1>1, <1>2, <1>4 DEF OriginKept
<1>7. held[r] = NULL => held'[r] = NULL
  BY <1>5 DEF Gentle
<1>8. ASSUME held[r] # NULL
      PROVE  held'[r] = NULL
  <2>1. origin[n] = r /\ origin'[n] # r /\ n \notin S
    BY <1>1, <1>2, <1>4, <1>6, <1>8
  <2>2. r \in S
    BY <2>1
  <2>. QED BY <2>2
<1>. QED BY <1>1, <1>4, <1>7, <1>8

(* Every step of a thread keeps the origins, before a searched value comes   *)
(* back.                                                                     *)
LEMMA StepOrigin ==
  ASSUME ReopenConnect = FALSE, LeakInv, OriginKept, TypeOK', Gentle, NEW t \in Thread, Step(t)
  PROVE  OriginKept'
<1>. TypeOK
  BY DEF LeakInv, OwnInv
<1>. USE NullAssumption
<1>1. ASSUME origin' = origin,
             \A d \in Ctx : \/ hNewRequest'[d] = NULL
                            \/ hNewRequest'[d] = hNewRequest[d] /\ hRequest'[d] = hRequest[d]
      PROVE  OriginKept'
  <2>. DEFINE none == {}
  <2>1. /\ none \in SUBSET Handle /\ \A h \in none : held'[h] = NULL
        /\ \A d \in Ctx : hNewRequest[d] \notin none
    OBVIOUS
  <2>. HIDE DEF none
  <2>. QED BY <1>1, <2>1, OriginStays
<1>2. ASSUME NEW S \in SUBSET Handle, Forget(S), \A h \in S : held'[h] = NULL,
             \A d \in Ctx : \/ hNewRequest'[d] = NULL
                            \/ /\ hNewRequest'[d] = hNewRequest[d] /\ hRequest'[d] = hRequest[d]
                               /\ hNewRequest[d] \notin S
      PROVE  OriginKept'
  BY <1>2, OriginStays DEF Forget
<1>3. ASSUME NEW h, NEW kind, Opens(t, h, kind)
      PROVE  OriginKept'
  BY <1>1, <1>3 DEF Opens, ctxVars
<1>4. ASSUME NEW c \in Ctx, NEW open, NEW connect, NEW request, NEW newConnect,
             createInetCtx(c, open, connect, request, newConnect), origin' = origin
      PROVE  OriginKept'
  BY <1>1, <1>4 DEF createInetCtx, TypeOK
<1>5. ASSUME NEW s, NEW h, NEW c \in Ctx, Connects(t, s, h, c)
      PROVE  OriginKept'
  BY <1>4, <1>5 DEF Connects, reqVars
<1>6. ASSUME NEW s, NEW nc, NEW r, NEW c \in Ctx, Bypasses(t, s, c, nc, r)
      PROVE  OriginKept'
  BY <1>4, <1>6 DEF Bypasses
<1>7. ASSUME NEW hc, NEW c, Misses(t, hc, c)
      PROVE  OriginKept'
  BY <1>1, <1>7 DEF Misses, reqVars
<1>8. ASSUME NEW hc \in Handle, NEW nc \in Handle, NEW r \in Handle, NEW c \in Ctx,
             Rewrites(t, hc, c, nc, r)
      PROVE  OriginKept'
  <2>1. Blank(c)
    BY <1>8 DEF Rewrites, MayOpenOn, LeakInv, Found, OthersBlank
  <2>. QED BY <1>1, <1>8, <2>1 DEF Rewrites, Blank, TypeOK
<1>9. ASSUME NEW op, NEW r, Enter(t, op, r)
      PROVE  OriginKept'
  BY <1>1, <1>9 DEF Enter, ctxVars, reqVars
<1>10. CASE Pauses(t)
  BY <1>1, <1>10 DEF Pauses, ctxVars, reqVars
<1>11. ASSUME NEW r, NEW c, Adds(t, r, c)
       PROVE  OriginKept'
  BY <1>1, <1>11 DEF Adds
<1>12. \A d \in Ctx : hNewRequest[d] # NULL => hNewRequest[d] \in Replacements(d)
  BY DEF Replacements
<1>13. ASSUME NEW C \in SUBSET Ctx, Unwinds(t, C)
       PROVE  OriginKept'
  <2>. DEFINE S == AllReplacements(C)
  <2>1. S \in SUBSET Handle /\ \A d \in Ctx \ C : Replacements(d) \cap S = {}
    BY ReplacementsType, Apart DEF LeakInv, AllReplacements
  <2>2. \A h \in S : held'[h] = NULL
    BY <1>13, Apart DEF LeakInv, AllReplacements, Unwinds
  <2>3. ASSUME NEW d \in Ctx
        PROVE  \/ hNewRequest'[d] = NULL
               \/ /\ hNewRequest'[d] = hNewRequest[d] /\ hRequest'[d] = hRequest[d]
                  /\ hNewRequest[d] \notin S
    <3>1. CASE d \in C
      BY <1>13, <3>1 DEF Unwinds, DropReplacements
    <3>2. CASE d \notin C
      <4>1. hNewRequest'[d] = hNewRequest[d] /\ hRequest'[d] = hRequest[d]
        BY <1>13, <3>2 DEF Unwinds, DropReplacements
      <4>. QED BY <1>12, <2>1, <3>2, <4>1
    <3>. QED BY <3>1, <3>2
  <2>4. Forget(S)
    BY <1>13 DEF Unwinds, DropReplacements
  <2>. HIDE DEF S
  <2>. QED BY <1>2, <2>1, <2>2, <2>3, <2>4
<1>14. ASSUME NEW c \in Ctx, NEW nc \in Handle, NEW nr \in Handle, Redirects(t, c, nc, nr)
       PROVE  OriginKept'
  <2>. DEFINE S == Replacements(c) \cup {nr}
  <2>1. /\ hRequest[c] = call[t].h /\ UNCHANGED <<held, hRequest>>
        /\ hNewRequest'[c] = nr /\ \A d \in Ctx \ {c} : hNewRequest'[d] = hNewRequest[d]
        /\ \A h \in Handle : origin'[h] = IF h = nr THEN call[t].h
                                         ELSE IF h \in Replacements(c) THEN NULL ELSE origin[h]
    BY <1>14 DEF Redirects, ReplaceAndSend, TypeOK
  <2>2. nr \in Replacements(c) \/ live[nr] = "free"
    BY <1>14 DEF Redirects, Shut
  <2>3. S \in SUBSET Handle /\ \A h \in S : held'[h] = NULL
    BY <2>1, <2>2, Apart DEF LeakInv, OwnInv, FreeUnheld
  <2>4. ASSUME NEW d \in Ctx, d # c, hNewRequest[d] # NULL
        PROVE  hNewRequest[d] \notin S
    <3>1. /\ live[hNewRequest[d]] \in {"connect", "request"}
          /\ hNewRequest[d] \notin Replacements(c)
      BY <1>12, <2>4, Apart DEF LeakInv
    <3>. QED BY <2>2, <3>1
  <2>5. \A h \in Handle : h \notin S => origin'[h] = origin[h]
    BY <2>1
  <2>6. origin'[hNewRequest'[c]] = hRequest'[c]
    BY <2>1
  <2>. HIDE DEF S
  <2>. QED BY <2>1, <2>3, <2>4, <2>5, <2>6, OriginStays
<1>15. ASSUME NEW h \in Handle, NEW c \in Ctx \cup {NULL}, Closes(t, h, c)
       PROVE  OriginKept'
  <2>1. /\ \A g \in Handle : held'[g] = IF g = h THEN NULL ELSE held[g]
        /\ \A d \in Ctx : h \notin Replacements(d)
    BY <1>15, Apart DEF Closes, CloseHandle, TypeOK, LeakInv
  <2>2. CASE c \in Ctx /\ CloseConnect(h, c)
    <3>. DEFINE S == Replacements(c) \cup {h}
    <3>1. S \in SUBSET Handle /\ \A g \in S : held'[g] = NULL
      BY <2>1, <2>2, Apart DEF LeakInv
    <3>2. ASSUME NEW d \in Ctx
          PROVE  \/ hNewRequest'[d] = NULL
                 \/ /\ hNewRequest'[d] = hNewRequest[d] /\ hRequest'[d] = hRequest[d]
                    /\ hNewRequest[d] \notin S
      <4>1. CASE d = c
        BY <2>2, <4>1 DEF CloseConnect, removeInetCtx, TypeOK
      <4>2. CASE d # c
        <5>1. hNewRequest'[d] = hNewRequest[d] /\ hRequest'[d] = hRequest[d]
          BY <2>2, <4>2 DEF CloseConnect, removeInetCtx, TypeOK
        <5>2. Replacements(d) \cap Replacements(c) = {}
          BY <2>2, <4>2, Apart DEF LeakInv
        <5>. QED BY <1>12, <2>1, <5>1, <5>2
      <4>. QED BY <4>1, <4>2
    <3>3. Forget(S)
      BY <2>2 DEF CloseConnect
    <3>. HIDE DEF S
    <3>. QED BY <1>2, <3>1, <3>2, <3>3
  <2>3. CASE CloseOther(h)
    <3>1. /\ Forget({h}) /\ UNCHANGED <<hNewRequest, hRequest>>
          /\ \A d \in Ctx : hNewRequest'[d] = NULL \/ hNewRequest[d] # h
      BY <1>12, <2>1, <2>3 DEF CloseOther, ctxVars
    <3>2. \A g \in {h} : held'[g] = NULL
      BY <2>1
    <3>. QED BY <1>2, <3>1, <3>2
  <2>. QED BY <1>15, <2>2, <2>3 DEF Closes
<1>. QED BY <1>3, <1>5, <1>6, <1>7, <1>8, <1>9, <1>10, <1>11, <1>13, <1>14, <1>15 DEF Step

(* The strengthening of NoLeak and RouteOwn. *)
RouteInv == ContextInv /\ Found /\ (~ stale => OriginKept)

(* At first there is nothing to find. *)
LEMMA InitRoute == Init => RouteInv
<1>. SUFFICES ASSUME Init PROVE RouteInv
  OBVIOUS
<1>1. Len(list) = 0
  BY DEF Init
<1>. QED BY <1>1, InitContext
         DEF Init, RouteInv, Found, Distinct, OthersBlank, Blank, Accounted, Kind, OriginKept

(* A step that changes no handle, no context and no origin. *)
LEMMA QuietRoute ==
  ASSUME RouteInv, ContextInv',
         UNCHANGED <<live, held, list, ctxVars, call, parent, origin>>, UNCHANGED history
  PROVE  RouteInv'
<1>1. UNCHANGED <<live, held, list, hRequest, hNewConnect, hNewRequest, origin>>
  BY DEF ctxVars
<1>2. stale' <=> stale
  BY Zenon DEF history
<1>3. LeakInv /\ TypeOK'
  BY DEF RouteInv, LeakInv, ContextInv, Base, OwnInv
<1>4. Found'
  BY <1>1, <1>3, OtherFound
<1>5. OriginKept => OriginKept'
  BY <1>1 DEF OriginKept
<1>. QED BY <1>2, <1>4, <1>5 DEF RouteInv

(* Every step keeps it. *)
LEMMA NextRoute ==
  ASSUME ReopenConnect = FALSE
  PROVE  RouteInv /\ [Next]_vars => RouteInv'
<1>. SUFFICES ASSUME RouteInv, [Next]_vars PROVE RouteInv'
  OBVIOUS
<1>1. ContextInv' /\ LeakInv /\ TypeOK /\ TypeOK'
  <2>1. ContextInv'
    BY NextContext DEF RouteInv
  <2>. QED BY <2>1 DEF RouteInv, LeakInv, ContextInv, Base, OwnInv
<1>2. CASE UNCHANGED vars
  <2>1. UNCHANGED <<live, held, list, ctxVars, call, parent, origin>> /\ UNCHANGED history
    BY <1>2, ZenonT(30) DEF vars, reqVars
  <2>. QED BY <1>1, <2>1, QuietRoute
<1>3. CASE Reuses
  <2>1. UNCHANGED <<live, held, list, ctxVars, call, parent, origin>> /\ UNCHANGED history
    BY <1>3, Zenon DEF Reuses
  <2>. QED BY <1>1, <2>1, QuietRoute
<1>4. ASSUME NEW t \in Thread, Step(t)
      PROVE  RouteInv'
  <2>1. Found'
    BY <1>1, <1>4, StepFound
  <2>2. ASSUME ~ stale'
        PROVE  OriginKept'
    <3>1. Calm /\ OriginKept
      BY <1>4, <2>2, StepRemembers DEF RouteInv, ContextInv, Calm
    <3>2. Gentle
      BY <1>1, <1>4, <2>2, <3>1, StepKept DEF Kept
    <3>. QED BY <1>1, <1>4, <3>1, <3>2, StepOrigin
  <2>. QED BY <1>1, <2>1, <2>2 DEF RouteInv
<1>. QED BY <1>1, <1>2, <1>3, <1>4, NextSteps

(* It holds throughout. *)
LEMMA RouteAlways == ASSUME ReopenConnect = FALSE PROVE Spec => []RouteInv
<1>1. RouteInv /\ [Next]_vars => RouteInv'
  BY NextRoute
<1>. QED BY <1>1, InitRoute, PTL DEF Spec

(* Until a value a context is searched by is handed out again, what is open  *)
(* is in the client's hands or is the replacement of a listed context, which *)
(* the client can still close unless it is stranded; for a client that opens *)
(* one request on a connection.                                              *)
THEOREM NeverLeaks == ASSUME ReopenConnect = FALSE PROVE Spec => []NoLeak
<1>1. ASSUME RouteInv, ~ stale, NEW h \in Handle, live[h] \in Kind, held[h] = NULL
      PROVE  \E i \in 1 .. Len(list) :
               /\ h \in Replacements(list[i])
               /\ list[i] \in stranded \/ held[hConnect[list[i]]] # NULL
  <2>1. PICK c \in Ctx : h \in Replacements(c)
    BY <1>1 DEF RouteInv, Found, Accounted
  <2>2. Listed(c)
    BY <1>1, <2>1 DEF RouteInv, Found, OthersBlank, Blank, Replacements
  <2>3. c \in stranded \/ held[hConnect[c]] # NULL
    BY <1>1, <2>2 DEF RouteInv, ContextInv, CtxInv, HasConnect
  <2>. QED BY <2>1, <2>2, <2>3 DEF Listed
<1>2. RouteInv => NoLeak
  BY <1>1 DEF NoLeak
<1>. QED BY <1>2, RouteAlways, PTL

(* Until then a call on a client's request reaches that request or a         *)
(* replacement that was opened for it, never another request's.              *)
THEOREM RoutesOwn == ASSUME ReopenConnect = FALSE PROVE Spec => []RouteOwn
<1>1. ASSUME RouteInv, ~ stale, NEW r \in Handle, held[r] # NULL, Target(r) # r
      PROVE  origin[Target(r)] = r
  <2>. DEFINE c == findInetCtxByRequest(r)
  <2>1. c # NULL /\ hNewRequest[c] # NULL /\ Target(r) = hNewRequest[c]
    BY <1>1 DEF Target
  <2>2. c \in Ctx /\ hRequest[c] = r
    BY <1>1, <2>1, ByRequest DEF RouteInv, ContextInv, Base, OwnInv
  <2>. HIDE DEF c
  <2>. QED BY <1>1, <2>1, <2>2 DEF RouteInv, OriginKept
<1>2. RouteInv => RouteOwn
  BY <1>1 DEF RouteOwn
<1>. QED BY <1>2, RouteAlways, PTL

-----------------------------------------------------------------------------
(* The headers a context records *)

(* A handle that is not open has no headers. *)
FreshBare == \A h \in Handle : live[h] = "free" => hdrs[h] = 0

(* A context records its request's headers, up to what it has room for, and *)
(* its replacement has the recorded ones as long as there was room and their *)
(* memory was left alone.                                                    *)
CtxRecorded(c) ==
  IF hRequest[c] = NULL THEN nHeaders[c] = 0
  ELSE live[hRequest[c]] = "request" =>
         /\ nHeaders[c] = IF hdrs[hRequest[c]] <= MAX_HTTP_HEADER THEN hdrs[hRequest[c]]
                          ELSE MAX_HTTP_HEADER
         /\ hNewRequest[c] # NULL /\ hdrs[hRequest[c]] <= MAX_HTTP_HEADER
              /\ hRequest[c] \notin moved
              => hdrs[hNewRequest[c]] = hdrs[hRequest[c]]

Recorded == \A c \in Ctx : Listed(c) => CtxRecorded(c)

(* The strengthening of HeadersReplayed. *)
HeaderInv == RouteInv /\ FreshBare /\ (~ stale => Recorded)

(* The contexts' requests that are open afterwards were, with their headers. *)
Steady ==
  \A h \in Handle : h \in Searched /\ live'[h] = "request" =>
    live[h] = "request" /\ hdrs'[h] = hdrs[h] /\ (h \in moved => h \in moved')

(* A context that keeps its request and its count keeps what it records. *)
LEMMA StaysRecorded ==
  ASSUME TypeOK, Steady, NEW d \in Ctx, Listed(d), CtxRecorded(d),
         hRequest'[d] = hRequest[d], nHeaders'[d] = nHeaders[d],
         \/ hNewRequest'[d] = NULL
         \/ /\ hNewRequest'[d] = hNewRequest[d]
            /\ hdrs'[hNewRequest[d]] = hdrs[hNewRequest[d]]
  PROVE  CtxRecorded(d)'
<1>1. CASE hRequest[d] = NULL
  BY <1>1 DEF CtxRecorded
<1>2. CASE hRequest[d] # NULL
  <2>1. PICK r \in Handle : r = hRequest[d]
    BY <1>2 DEF TypeOK, HandleOrNull
  <2>2. SUFFICES ASSUME live'[r] = "request" PROVE CtxRecorded(d)'
    BY <1>2, <2>1 DEF CtxRecorded
  <2>3. r \in Searched
    BY <2>1, SearchedIs
  <2>4. live[r] = "request" /\ hdrs'[r] = hdrs[r] /\ (r \in moved => r \in moved')
    BY <2>2, <2>3 DEF Steady
  <2>. QED BY <1>2, <2>1, <2>4 DEF CtxRecorded
<1>. QED BY <1>1, <1>2

(* Nothing happens to headers and requests. *)
LEMMA QuietRecorded ==
  ASSUME TypeOK, Gentle, Recorded, hdrs' = hdrs, moved \subseteq moved',
         \A d \in Ctx : Listed(d)' =>
           /\ Listed(d) /\ hRequest'[d] = hRequest[d] /\ nHeaders'[d] = nHeaders[d]
           /\ hNewRequest'[d] = hNewRequest[d]
  PROVE  Recorded'
<1>1. Steady
  BY DEF Gentle, Steady
<1>. QED BY <1>1, StaysRecorded DEF Recorded

(* A context is given a request that was free, or none, and no count. *)
LEMMA TakesRecorded ==
  ASSUME TypeOK, TypeOK', Gentle, Recorded, FreshBare, NEW c \in Ctx,
         hdrs' = hdrs, moved' = moved,
         hRequest'[c] = NULL \/ live[hRequest'[c]] = "free",
         nHeaders'[c] = 0, hNewRequest'[c] = NULL,
         \A d \in Ctx : d # c => /\ Listed(d)' => Listed(d)
                                 /\ hRequest'[d] = hRequest[d] /\ nHeaders'[d] = nHeaders[d]
                                 /\ hNewRequest'[d] = hNewRequest[d]
  PROVE  Recorded'
<1>1. Steady
  BY DEF Gentle, Steady
<1>2. ASSUME NEW d \in Ctx, d # c, Listed(d)'
      PROVE  CtxRecorded(d)'
  BY <1>1, <1>2, StaysRecorded DEF Recorded
<1>3. CtxRecorded(c)'
  <2>1. CASE hRequest'[c] = NULL
    BY <2>1 DEF CtxRecorded
  <2>2. CASE hRequest'[c] # NULL
    <3>1. hdrs'[hRequest'[c]] = 0
      BY <2>2 DEF FreshBare, TypeOK, HandleOrNull
    <3>. QED BY <2>2, <3>1, BoundAssumption DEF CtxRecorded
  <2>. QED BY <2>1, <2>2
<1>. QED BY <1>2, <1>3 DEF Recorded

(* The handles in S are closed, none of them a replacement that stays. *)
LEMMA ShutRecorded ==
  ASSUME TypeOK, FreshBare, NEW S \in SUBSET Handle, live' = Shut(live, S), Forget(S),
         \A d \in Ctx : Listed(d)' =>
           /\ Listed(d) /\ hRequest'[d] = hRequest[d] /\ nHeaders'[d] = nHeaders[d]
           /\ \/ hNewRequest'[d] = NULL
              \/ hNewRequest'[d] = hNewRequest[d] /\ hNewRequest[d] \notin S
  PROVE  FreshBare' /\ (Recorded => Recorded')
<1>1. \A h \in Handle : /\ live'[h] = IF h \in S THEN "free" ELSE live[h]
                        /\ hdrs'[h] = IF h \in S THEN 0 ELSE hdrs[h]
  BY DEF Shut, Forget
<1>2. FreshBare'
  BY <1>1 DEF FreshBare
<1>3. Steady
  <2>1. moved' = moved \ S
    BY DEF Forget
  <2>. QED BY <1>1, <2>1 DEF Steady
<1>4. ASSUME Recorded, NEW d \in Ctx, Listed(d)'
      PROVE  CtxRecorded(d)'
  <2>1. CASE hNewRequest'[d] = NULL
    BY <1>3, <1>4, <2>1, StaysRecorded DEF Recorded
  <2>2. CASE hNewRequest'[d] # NULL
    <3>1. hNewRequest'[d] = hNewRequest[d] /\ hNewRequest[d] \in Handle \ S
      BY <1>4, <2>2 DEF TypeOK, HandleOrNull
    <3>2. hdrs'[hNewRequest[d]] = hdrs[hNewRequest[d]]
      BY <1>1, <3>1
    <3>. QED BY <1>3, <1>4, <3>1, <3>2, StaysRecorded DEF Recorded
  <2>. QED BY <2>1, <2>2
<1>. QED BY <1>2, <1>4 DEF Recorded

(* A redirect replays what the context recorded. *)
LEMMA RedirectsRecorded ==
  ASSUME OwnInv, FreshBare, TypeOK', NEW t \in Thread, NEW c \in Ctx,
         NEW nc \in Handle, NEW nr \in Handle, Redirects(t, c, nc, nr)
  PROVE  FreshBare' /\ (CtxInv /\ Recorded /\ ~ stale' => Recorded')
<1>. TypeOK
  BY DEF OwnInv
<1>. USE NullAssumption
<1>. DEFINE S == Replacements(c)
<1>0. PICK n \in Replayed(c, call[t].h) :
        hdrs' = [h \in Handle |-> IF h = nr THEN n ELSE IF h \in S THEN 0 ELSE hdrs[h]]
  BY DEF Redirects, ReplaceAndSend
<1>1. /\ Listed(c) /\ hRequest[c] = call[t].h
      /\ UNCHANGED <<held, list, hRequest, nHeaders, moved>>
      /\ hNewRequest'[c] = nr /\ \A d \in Ctx : d # c => hNewRequest'[d] = hNewRequest[d]
      /\ \A h \in Handle : hdrs'[h] = IF h = nr THEN n ELSE IF h \in S THEN 0 ELSE hdrs[h]
      /\ nr \in S \/ live[nr] = "free"
  BY <1>0 DEF Redirects, ReplaceAndSend, Shut, TypeOK
<1>2. /\ live'[nr] = "request" /\ live'[nc] = "connect" /\ nc # nr
      /\ \A h \in Handle : h # nc /\ h # nr => live'[h] = IF h \in S THEN "free" ELSE live[h]
  BY DEF Redirects, ReplaceAndSend, Shut, TypeOK
<1>. HIDE DEF S
<1>3. FreshBare'
  BY <1>1, <1>2 DEF FreshBare
<1>4. ASSUME CtxInv, Recorded, ~ stale'
      PROVE  Recorded'
  <2>1. nc \notin Searched /\ nr \notin Searched
    <3>1. HandOut({nc, nr})
      BY DEF Redirects, ReplaceAndSend
    <3>. QED BY <1>4, <3>1, Zenon DEF HandOut
  <2>2. Steady
    BY <1>1, <1>2, <2>1 DEF Steady
  <2>3. ASSUME NEW d \in Ctx, Listed(d), d # c
        PROVE  CtxRecorded(d)'
    <3>1. CASE hNewRequest[d] = NULL
      BY <1>1, <1>4, <2>2, <2>3, <3>1, StaysRecorded DEF Recorded
    <3>2. CASE hNewRequest[d] # NULL
      <4>1. hNewRequest[d] \in Replacements(d)
        BY <3>2 DEF Replacements
      <4>2. /\ hNewRequest[d] \in Handle /\ live[hNewRequest[d]] \in {"connect", "request"}
            /\ hNewRequest[d] \notin S
        BY <2>3, <4>1, Apart DEF S
      <4>3. hdrs'[hNewRequest[d]] = hdrs[hNewRequest[d]]
        BY <1>1, <4>2
      <4>. QED BY <1>1, <1>4, <2>2, <2>3, <4>3, StaysRecorded DEF Recorded
    <3>. QED BY <3>1, <3>2
  <2>4. CtxRecorded(c)'
    <3>1. call[t].h \in Handle
      BY WaitingType DEF Redirects, Waiting
    <3>2. PICK r \in Handle : r = call[t].h
      BY <3>1
    <3>3. SUFFICES ASSUME live'[r] = "request" PROVE CtxRecorded(c)'
      BY <1>1, <3>2 DEF CtxRecorded
    <3>4. r \in Searched
      BY <1>1, <3>2, SearchedIs
    <3>5. live[r] = "request" /\ hdrs'[r] = hdrs[r]
      BY <2>2, <3>3, <3>4 DEF Steady
    <3>6. CtxRecorded(c)
      BY <1>1, <1>4 DEF Recorded
    <3>7. r \notin moved => n = nHeaders[c]
      BY <1>0, <3>2 DEF Replayed
    <3>8. hdrs'[nr] = n
      BY <1>1
    <3>. QED BY <1>1, <3>2, <3>5, <3>6, <3>7, <3>8 DEF CtxRecorded
  <2>5. \A d : Listed(d)' <=> Listed(d)
    BY <1>1 DEF Listed
  <2>. QED BY <2>3, <2>4, <2>5 DEF Recorded
<1>. QED BY <1>3, <1>4

(* A header goes to the request, to its replacement and into the record. *)
LEMMA AddsRecorded ==
  ASSUME OwnInv, FreshBare, NEW t \in Thread, NEW r \in Handle, NEW c \in Ctx, Adds(t, r, c)
  PROVE  FreshBare' /\ (CtxInv /\ Recorded => Recorded')
<1>. TypeOK
  BY DEF OwnInv
<1>. USE NullAssumption
<1>1. /\ Listed(c) /\ hRequest[c] = r /\ held[r] = t /\ live[r] = "request"
      /\ UNCHANGED <<live, held, list, hRequest, hNewRequest, moved>>
  BY DEF Adds, ClientHolds
<1>2. \A d \in Ctx : hNewRequest[d] # NULL =>
        /\ hNewRequest[d] \in Handle /\ hNewRequest[d] # r
        /\ live[hNewRequest[d]] = "request" /\ held[hNewRequest[d]] = NULL
        /\ d # c => hNewRequest[d] # hNewRequest[c]
  BY <1>1 DEF OwnInv, OwnedLive, TypeOK, HandleOrNull
<1>3. \A h \in Handle : hdrs'[h] = IF h \in {r, Target(r)} THEN hdrs[h] + 1 ELSE hdrs[h]
  BY DEF Adds
<1>4. Target(r) = r \/ \E d \in Ctx : hNewRequest[d] # NULL /\ Target(r) = hNewRequest[d]
  <2>. DEFINE f == findInetCtxByRequest(r)
  <2>1. f # NULL => f \in Ctx
    BY ByRequest
  <2>2. Target(r) = IF f # NULL /\ hNewRequest[f] # NULL THEN hNewRequest[f] ELSE r
    BY DEF Target
  <2>. HIDE DEF f
  <2>. QED BY <2>1, <2>2
<1>5. FreshBare'
  <2>1. live[Target(r)] # "free"
    BY <1>1, <1>2, <1>4
  <2>. QED BY <1>1, <1>3, <2>1 DEF FreshBare
<1>6. ASSUME CtxInv, Recorded
      PROVE  Recorded'
  <2>1. Target(r) = IF hNewRequest[c] # NULL THEN hNewRequest[c] ELSE r
    BY <1>1, <1>6, TargetIs DEF CtxInv
  <2>2. /\ nHeaders'[c] = IF nHeaders[c] < MAX_HTTP_HEADER THEN nHeaders[c] + 1 ELSE nHeaders[c]
        /\ \A d \in Ctx : d # c => nHeaders'[d] = nHeaders[d]
    BY DEF Adds, TypeOK
  <2>3. CtxRecorded(c)'
    <3>1. CtxRecorded(c)
      BY <1>1, <1>6 DEF Recorded
    <3>2. hdrs'[r] = hdrs[r] + 1 /\ hdrs[r] \in Nat
      BY <1>3 DEF TypeOK
    <3>3. hNewRequest[c] # NULL => hdrs'[hNewRequest[c]] = hdrs[hNewRequest[c]] + 1
      BY <1>2, <1>3, <2>1
    <3>4. nHeaders[c] = IF hdrs[r] <= MAX_HTTP_HEADER THEN hdrs[r] ELSE MAX_HTTP_HEADER
      BY <1>1, <3>1 DEF CtxRecorded
    <3>5. hNewRequest[c] # NULL /\ hdrs[r] <= MAX_HTTP_HEADER /\ r \notin moved
            => hdrs[hNewRequest[c]] = hdrs[r]
      BY <1>1, <3>1 DEF CtxRecorded
    <3>6. nHeaders'[c] = IF hdrs'[r] <= MAX_HTTP_HEADER THEN hdrs'[r] ELSE MAX_HTTP_HEADER
      BY <2>2, <3>2, <3>4, BoundAssumption
    <3>7. hNewRequest'[c] # NULL /\ hdrs'[r] <= MAX_HTTP_HEADER /\ r \notin moved'
            => hdrs'[hNewRequest'[c]] = hdrs'[r]
      BY <1>1, <3>2, <3>3, <3>5, BoundAssumption
    <3>. QED BY <1>1, <3>6, <3>7 DEF CtxRecorded
  <2>4. ASSUME NEW d \in Ctx, Listed(d), d # c
        PROVE  CtxRecorded(d)'
    <3>1. CtxRecorded(d) /\ Serves(d)
      BY <1>6, <2>4 DEF Recorded, CtxInv
    <3>2. hRequest[d] # r
      BY <1>1, <1>6, <2>4 DEF CtxInv, OneRequest
    <3>3. hRequest[d] # NULL /\ live[hRequest[d]] = "request" =>
            hRequest[d] \in Handle /\ hdrs'[hRequest[d]] = hdrs[hRequest[d]]
      <4>1. SUFFICES ASSUME hRequest[d] # NULL, live[hRequest[d]] = "request"
                     PROVE  hRequest[d] \in Handle /\ hRequest[d] # Target(r)
        BY <1>3, <3>2
      <4>2. hRequest[d] \in Handle /\ held[hRequest[d]] # NULL
        BY <3>1, <4>1 DEF Serves, TypeOK, HandleOrNull
      <4>. QED BY <1>2, <2>1, <3>2, <4>2
    <3>4. hNewRequest[d] # NULL => hdrs'[hNewRequest[d]] = hdrs[hNewRequest[d]]
      BY <1>2, <1>3, <2>1, <2>4
    <3>. QED BY <1>1, <2>2, <2>4, <3>1, <3>3, <3>4 DEF CtxRecorded
  <2>5. \A d \in Ctx : Listed(d)' <=> Listed(d)
    BY <1>1 DEF Listed
  <2>. QED BY <2>3, <2>4, <2>5 DEF Recorded
<1>. QED BY <1>5, <1>6

(* A close takes headers only with what it closes. *)
LEMMA ClosesRecorded ==
  ASSUME OwnInv, Distinct, FreshBare, NEW t \in Thread,
         NEW h \in Handle, NEW c \in Ctx \cup {NULL}, Closes(t, h, c)
  PROVE  FreshBare' /\ (Recorded => Recorded')
<1>. TypeOK
  BY DEF OwnInv
<1>. USE NullAssumption
<1>1. \A d \in Ctx : hNewRequest[d] # NULL =>
        hNewRequest[d] \in Replacements(d) /\ hNewRequest[d] # h
  BY DEF OwnInv, OwnedLive, Closes, CloseHandle, Replacements
<1>2. CASE c \in Ctx /\ CloseConnect(h, c)
  <2>. DEFINE S == Replacements(c) \cup {h}
  <2>1. S \in SUBSET Handle
    BY <1>2, Apart
  <2>2. \A d \in Ctx : Listed(d)' <=> Listed(d) /\ d # c
    BY <1>2, ListShrinks DEF CloseConnect, TypeOK
  <2>3. \A d \in Ctx : d # c => /\ hRequest'[d] = hRequest[d] /\ nHeaders'[d] = nHeaders[d]
                                /\ hNewRequest'[d] = hNewRequest[d]
    BY <1>2 DEF CloseConnect, removeInetCtx, TypeOK
  <2>4. \A d \in Ctx : d # c /\ hNewRequest[d] # NULL => hNewRequest[d] \notin S
    <3>1. \A d \in Ctx : d # c => Replacements(d) \cap Replacements(c) = {}
      BY <1>2, Apart
    <3>. QED BY <1>1, <3>1
  <2>5. live' = Shut(live, S) /\ Forget(S)
    BY <1>2 DEF CloseConnect
  <2>. HIDE DEF S
  <2>. QED BY <2>1, <2>2, <2>3, <2>4, <2>5, ShutRecorded
<1>3. CASE CloseOther(h)
  <2>1. live' = Shut(live, {h}) /\ Forget({h}) /\ UNCHANGED <<list, hRequest, nHeaders, hNewRequest>>
    BY <1>3 DEF CloseOther, ctxVars
  <2>2. \A d \in Ctx : Listed(d)' => Listed(d)
    BY <2>1 DEF Listed
  <2>3. \A d \in Ctx : hNewRequest'[d] = NULL \/ hNewRequest[d] \notin {h}
    BY <1>1, <2>1
  <2>. QED BY <2>1, <2>2, <2>3, ShutRecorded
<1>. QED BY <1>2, <1>3 DEF Closes

(* A send that returns takes headers only with what it closes. *)
LEMMA UnwindsRecorded ==
  ASSUME OwnInv, FreshBare, NEW t \in Thread, NEW C \in SUBSET Ctx, Unwinds(t, C)
  PROVE  FreshBare' /\ (Recorded => Recorded')
<1>. TypeOK
  BY DEF OwnInv
<1>. DEFINE S == AllReplacements(C)
<1>1. S \in SUBSET Handle /\ \A d \in Ctx \ C : Replacements(d) \cap S = {}
  BY ReplacementsType, Apart DEF AllReplacements
<1>2. live' = Shut(live, S) /\ Forget(S) /\ UNCHANGED <<list, hRequest, nHeaders>>
  BY DEF Unwinds, DropReplacements
<1>3. ASSUME NEW d \in Ctx
      PROVE  \/ hNewRequest'[d] = NULL
             \/ hNewRequest'[d] = hNewRequest[d] /\ hNewRequest[d] \notin S
  <2>1. CASE d \in C
    BY <2>1 DEF Unwinds, DropReplacements
  <2>2. CASE d \notin C
    <3>1. hNewRequest'[d] = hNewRequest[d]
      BY <2>2 DEF Unwinds, DropReplacements
    <3>2. hNewRequest[d] # NULL => hNewRequest[d] \in Replacements(d)
      BY DEF Replacements
    <3>. QED BY <1>1, <2>2, <3>1, <3>2
  <2>. QED BY <2>1, <2>2
<1>4. \A d \in Ctx : Listed(d)' => Listed(d)
  BY <1>2 DEF Listed
<1>. HIDE DEF S
<1>. QED BY <1>1, <1>2, <1>3, <1>4, ShutRecorded

(* What changes no context's request and no headers leaves the records. *)
LEMMA OpensRecorded ==
  ASSUME TypeOK, FreshBare, hdrs' = hdrs, \A h \in Handle : live'[h] = "free" => live[h] = "free"
  PROVE  FreshBare'
BY DEF FreshBare

(* Every step of a thread keeps the records. *)
LEMMA StepRecorded ==
  ASSUME ReopenConnect = FALSE, HeaderInv, TypeOK', NEW t \in Thread, Step(t)
  PROVE  FreshBare' /\ (~ stale' => Recorded')
<1>. TypeOK /\ OwnInv /\ Distinct /\ FreshBare
  BY DEF HeaderInv, RouteInv, Found, ContextInv, Base, OwnInv
<1>. USE NullAssumption
<1>0. ASSUME ~ stale'
      PROVE  Gentle /\ CtxInv /\ Recorded /\ ~ stale
  <2>1. Calm /\ Recorded /\ ~ stale
    BY <1>0, StepRemembers DEF HeaderInv, RouteInv, ContextInv, Calm
  <2>2. Gentle
    BY <1>0, <2>1, StepKept DEF Kept
  <2>. QED BY <2>1, <2>2 DEF Calm
<1>1. ASSUME UNCHANGED <<list, hRequest, hNewRequest, nHeaders, hdrs, moved>>,
             \A h \in Handle : live'[h] = "free" => live[h] = "free"
      PROVE  FreshBare' /\ (~ stale' => Recorded')
  <2>1. \A d \in Ctx : Listed(d)' => Listed(d)
    BY <1>1 DEF Listed
  <2>2. FreshBare'
    BY <1>1, OpensRecorded
  <2>3. ASSUME ~ stale'
        PROVE  Recorded'
    BY <1>0, <1>1, <2>1, <2>3, QuietRecorded
  <2>. QED BY <2>2, <2>3
<1>2. ASSUME NEW h, NEW kind, Opens(t, h, kind)
      PROVE  FreshBare' /\ (~ stale' => Recorded')
  <2>1. \A g \in Handle : live'[g] = "free" => live[g] = "free"
    BY <1>2 DEF Opens, TypeOK
  <2>. QED BY <1>1, <1>2, <2>1 DEF Opens, ctxVars
<1>3. ASSUME NEW c \in Ctx, NEW open, NEW connect, NEW request, NEW newConnect,
             createInetCtx(c, open, connect, request, newConnect), hdrs' = hdrs, moved' = moved,
             \A h \in Handle : live'[h] = "free" => live[h] = "free",
             request = NULL \/ live[request] = "free"
      PROVE  FreshBare' /\ (~ stale' => Recorded')
  <2>1. \A d \in Ctx : Listed(d)' <=> Listed(d) \/ d = c
    BY <1>3, ListGrows DEF createInetCtx, TypeOK
  <2>2. hRequest'[c] = request /\ nHeaders'[c] = 0 /\ hNewRequest'[c] = NULL
    BY <1>3 DEF createInetCtx, TypeOK
  <2>3. \A d \in Ctx : d # c => /\ hRequest'[d] = hRequest[d] /\ nHeaders'[d] = nHeaders[d]
                                /\ hNewRequest'[d] = hNewRequest[d]
    BY <1>3 DEF createInetCtx, TypeOK
  <2>4. FreshBare'
    BY <1>3, OpensRecorded
  <2>5. ASSUME ~ stale'
        PROVE  Recorded'
    BY <1>0, <1>3, <2>1, <2>2, <2>3, <2>5, TakesRecorded
  <2>. QED BY <2>4, <2>5
<1>4. ASSUME NEW s, NEW h, NEW c \in Ctx, Connects(t, s, h, c)
      PROVE  FreshBare' /\ (~ stale' => Recorded')
  <2>1. \A g \in Handle : live'[g] = "free" => live[g] = "free"
    BY <1>4 DEF Connects, TypeOK
  <2>. QED BY <1>3, <1>4, <2>1 DEF Connects, reqVars
<1>5. ASSUME NEW s, NEW nc, NEW r, NEW c \in Ctx, Bypasses(t, s, c, nc, r)
      PROVE  FreshBare' /\ (~ stale' => Recorded')
  <2>1. \A g \in Handle : live'[g] = "free" => live[g] = "free"
    BY <1>5 DEF Bypasses, TypeOK
  <2>. QED BY <1>3, <1>5, <2>1 DEF Bypasses
<1>6. ASSUME NEW hc, NEW c, Misses(t, hc, c)
      PROVE  FreshBare' /\ (~ stale' => Recorded')
  BY <1>1, <1>6 DEF Misses, reqVars
<1>7. ASSUME NEW hc \in Handle, NEW nc \in Handle, NEW r \in Handle, NEW c \in Ctx,
             Rewrites(t, hc, c, nc, r)
      PROVE  FreshBare' /\ (~ stale' => Recorded')
  <2>1. hRequest[c] = NULL /\ Listed(c)
    BY <1>7 DEF Rewrites, MayOpenOn
  <2>2. hNewRequest[c] = NULL /\ (~ stale' => nHeaders[c] = 0)
    BY <1>0, <2>1 DEF HeaderInv, Recorded, CtxRecorded, RouteInv, Found, OthersBlank, Blank
  <2>3. /\ UNCHANGED <<list, nHeaders, hNewRequest, hdrs, moved>> /\ live[r] = "free"
        /\ hRequest'[c] = r /\ \A d \in Ctx : d # c => hRequest'[d] = hRequest[d]
        /\ \A g \in Handle : live'[g] = "free" => live[g] = "free"
    BY <1>7 DEF Rewrites, TypeOK
  <2>4. \A d \in Ctx : Listed(d)' => Listed(d)
    BY <2>3 DEF Listed
  <2>5. FreshBare'
    BY <2>3, OpensRecorded
  <2>6. ASSUME ~ stale'
        PROVE  Recorded'
    BY <1>0, <2>2, <2>3, <2>4, <2>6, TakesRecorded
  <2>. QED BY <2>5, <2>6
<1>8. ASSUME NEW op, NEW r, Enter(t, op, r)
      PROVE  FreshBare' /\ (~ stale' => Recorded')
  BY <1>1, <1>8 DEF Enter, ctxVars, reqVars
<1>9. CASE Pauses(t)
  BY <1>1, <1>9 DEF Pauses, ctxVars, reqVars
<1>10. ASSUME NEW C \in SUBSET Ctx, Unwinds(t, C)
       PROVE  FreshBare' /\ (~ stale' => Recorded')
  BY <1>0, <1>10, UnwindsRecorded
<1>11. ASSUME NEW c \in Ctx, NEW nc \in Handle, NEW nr \in Handle, Redirects(t, c, nc, nr)
       PROVE  FreshBare' /\ (~ stale' => Recorded')
  BY <1>0, <1>11, RedirectsRecorded
<1>12. ASSUME NEW r \in Handle, NEW c \in Ctx, Adds(t, r, c)
       PROVE  FreshBare' /\ (~ stale' => Recorded')
  BY <1>0, <1>12, AddsRecorded
<1>13. ASSUME NEW h \in Handle, NEW c \in Ctx \cup {NULL}, Closes(t, h, c)
       PROVE  FreshBare' /\ (~ stale' => Recorded')
  BY <1>0, <1>13, ClosesRecorded
<1>. QED BY <1>2, <1>4, <1>5, <1>6, <1>7, <1>8, <1>9, <1>10, <1>11, <1>12, <1>13 DEF Step

(* At first there are no headers. *)
LEMMA InitHeader == Init => HeaderInv
<1>. SUFFICES ASSUME Init PROVE HeaderInv
  OBVIOUS
<1>1. Len(list) = 0 /\ FreshBare
  BY DEF Init, FreshBare
<1>2. \A c \in Ctx : ~ Listed(c)
  BY <1>1 DEF Listed
<1>. QED BY <1>1, <1>2, InitRoute DEF HeaderInv, Recorded

(* Every step keeps the records. *)
LEMMA NextHeader ==
  ASSUME ReopenConnect = FALSE
  PROVE  HeaderInv /\ [Next]_vars => HeaderInv'
<1>. SUFFICES ASSUME HeaderInv, [Next]_vars PROVE HeaderInv'
  OBVIOUS
<1>1. RouteInv' /\ TypeOK /\ TypeOK'
  <2>1. RouteInv'
    BY NextRoute DEF HeaderInv
  <2>. QED BY <2>1 DEF HeaderInv, RouteInv, ContextInv, Base, OwnInv
<1>2. ASSUME UNCHANGED <<live, held, list, ctxVars, parent, hdrs>>, UNCHANGED history,
             moved \subseteq moved'
      PROVE  HeaderInv'
  <2>1. stale' <=> stale
    BY <1>2, Zenon DEF history
  <2>2. FreshBare'
    BY <1>2 DEF HeaderInv, FreshBare
  <2>3. Gentle /\ UNCHANGED <<list, hRequest, nHeaders, hNewRequest>>
    BY <1>2, QuietGentle DEF ctxVars
  <2>4. Recorded => Recorded'
    <3>1. \A d \in Ctx : Listed(d)' => Listed(d)
      BY <2>3 DEF Listed
    <3>. QED BY <1>1, <1>2, <2>3, <3>1, QuietRecorded
  <2>. QED BY <1>1, <2>1, <2>2, <2>4 DEF HeaderInv
<1>3. CASE UNCHANGED vars
  <2>1. /\ UNCHANGED <<live, held, list, ctxVars, parent, hdrs>> /\ UNCHANGED history
        /\ moved' = moved
    BY <1>3, ZenonT(30) DEF vars, reqVars
  <2>. QED BY <1>2, <2>1
<1>4. CASE Reuses
  <2>1. /\ UNCHANGED <<live, held, list, ctxVars, parent, hdrs>> /\ UNCHANGED history
        /\ moved \subseteq moved'
    BY <1>4, Zenon DEF Reuses
  <2>. QED BY <1>2, <2>1
<1>5. ASSUME NEW t \in Thread, Step(t)
      PROVE  HeaderInv'
  BY <1>1, <1>5, StepRecorded DEF HeaderInv
<1>. QED BY <1>1, <1>3, <1>4, <1>5, NextSteps

(* The records are right throughout. *)
LEMMA HeaderAlways == ASSUME ReopenConnect = FALSE PROVE Spec => []HeaderInv
<1>1. HeaderInv /\ [Next]_vars => HeaderInv'
  BY NextHeader
<1>. QED BY <1>1, InitHeader, PTL DEF Spec

(* However many headers the client adds, before or after a redirect, and     *)
(* however many redirects there are: as long as the context has room, the    *)
(* client leaves the memory of its headers alone and no value a context is   *)
(* searched by is handed out again, the replacement has the same headers as  *)
(* the request it replaces; for a client that opens one request on a         *)
(* connection.                                                               *)
THEOREM HeadersAlwaysReplayed == ASSUME ReopenConnect = FALSE PROVE Spec => []HeadersReplayed
<1>1. ASSUME HeaderInv, ~ stale, NEW i \in 1 .. Len(list)
      PROVE  CtxRecorded(list[i])
  <2>1. list[i] \in Ctx /\ Listed(list[i])
    BY <1>1 DEF HeaderInv, RouteInv, ContextInv, Base, OwnInv, TypeOK, Listed
  <2>. QED BY <1>1, <2>1 DEF HeaderInv, Recorded
<1>2. HeaderInv => HeadersReplayed
  BY <1>1 DEF HeadersReplayed, CtxRecorded
<1>. QED BY <1>2, HeaderAlways, PTL
=============================================================================
