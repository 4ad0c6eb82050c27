------------------------------ MODULE NetRedir ------------------------------
(***************************************************************************)
(* The WinINet redirection of src/src/hooks/wininet/netredir.c.            *)
(*                                                                         *)
(* The hooks keep one internet_ctx per connection the client opened (and   *)
(* one per InternetOpenUrlA answered through the certificate bypass) in a  *)
(* global list.  A context remembers the client's handles and the          *)
(* replacement connection and request the hooks opened behind its back;    *)
(* every later call on the client's request is routed to the replacement.  *)
(*                                                                         *)
(* A client thread is inside at most one hook.  Only HttpSendRequestA,     *)
(* HttpSendRequestExA and HttpEndRequestA wait for the network, so other   *)
(* threads run between those calls and their answers and nowhere else      *)
(* (InternetConnectA and InternetOpenUrlA may wait too, but touch the list *)
(* only after the wait); the pointer-level races of the unlocked list are  *)
(* not in this module.  All threads may use a session; a thread uses the   *)
(* connections and requests returned to it; any thread may close any       *)
(* handle of the client, also one another thread waits on.  Closing a      *)
(* handle closes that handle only, and WinINet may hand out its value      *)
(* again.  A hook that comes back to a freed context may do anything: the  *)
(* model ends there.  The strings a context copies (server, user, method,  *)
(* Accept types) and the request body it remembers are left out: no        *)
(* property tells them apart.                                              *)
(***************************************************************************)
EXTENDS Naturals, SequencesExt

CONSTANTS
  Thread,         \* threads of the client that call WinINet
  Handle,         \* values an HINTERNET may take
  Ctx,            \* addresses AllocMem may return for an internet_ctx
  NULL,           \* the null handle, null pointer and "no thread"
  MAX_HTTP_HEADER,\* entries of internet_ctx.vHeaders
  HeaderBound,    \* bound: headers the client adds to one request
  MaxHops,        \* bound: redirects a server answers one call with
  ReopenConnect,  \* does the client open a second request on a connection?
  Alloc(_)        \* the values WinINet may choose, of the free ones nothing remembers

ASSUME NullAssumption == NULL \notin Handle /\ NULL \notin Ctx /\ NULL \notin Thread
ASSUME BoundAssumption ==
  /\ MAX_HTTP_HEADER \in Nat /\ HeaderBound \in Nat /\ MaxHops \in Nat
  /\ ReopenConnect \in BOOLEAN
ASSUME AllocAssumption == \A S \in SUBSET Handle : Alloc(S) \subseteq S

VARIABLES
  live,        \* WinINet's handle table: what each value is at present
  held,        \* the client thread a handle was returned to, NULL for the hooks' own
  list,        \* g_inet_ctx: the linked contexts, first to last
  hOpen, hConnect, hRequest, hNewConnect, hNewRequest, nHeaders,  \* internet_ctx
  call,        \* the hook each thread is inside
  origin,      \* replacement request -> the client's request it was opened for
  hdrs,        \* headers accepted for a client's request, carried by a replacement
  moved,       \* client's requests the memory of whose headers was used again
  parent,      \* client's request -> the connection or session it was opened on
  stale,       \* history: a value was handed out that a listed context was searched by
  pulled,      \* history: a request a thread waited on, or its parent, was closed
  stranded     \* history: listed contexts of a session whose close took another one

ctxVars == <<hOpen, hConnect, hRequest, hNewConnect, hNewRequest, nHeaders>>
reqVars == <<origin, hdrs, moved, parent>>
history == <<stale, pulled, stranded>>
vars == <<live, held, list, ctxVars, call, reqVars, history>>

HandleOrNull == Handle \cup {NULL}
Kind == {"session", "connect", "request"}

Idle == [op |-> "none", pc |-> "idle", h |-> NULL, ctx |-> NULL, target |-> NULL,
         frames |-> <<>>]

Waiting == [op : {"Send", "SendEx", "End"}, pc : {"sending", "redirect", "sendex"},
            h : Handle, ctx : Ctx \cup {NULL}, target : Handle, frames : Seq(Ctx)]

Call == Waiting \cup {Idle}

(* Type correctness of the whole hook state. *)
TypeOK ==
  /\ live \in [Handle -> Kind \cup {"free"}]
  /\ held \in [Handle -> Thread \cup {NULL}]
  /\ list \in Seq(Ctx)
  /\ hOpen \in [Ctx -> HandleOrNull]
  /\ hConnect \in [Ctx -> HandleOrNull]
  /\ hRequest \in [Ctx -> HandleOrNull]
  /\ hNewConnect \in [Ctx -> HandleOrNull]
  /\ hNewRequest \in [Ctx -> HandleOrNull]
  /\ nHeaders \in [Ctx -> 0 .. MAX_HTTP_HEADER]
  /\ call \in [Thread -> Call]
  /\ origin \in [Handle -> HandleOrNull]
  /\ hdrs \in [Handle -> Nat]
  /\ moved \subseteq Handle
  /\ parent \in [Handle -> HandleOrNull]
  /\ stale \in BOOLEAN /\ pulled \in BOOLEAN /\ stranded \subseteq Ctx

Init ==
  /\ live = [h \in Handle |-> "free"]
  /\ held = [h \in Handle |-> NULL]
  /\ list = <<>>
  /\ hOpen = [c \in Ctx |-> NULL]
  /\ hConnect = [c \in Ctx |-> NULL]
  /\ hRequest = [c \in Ctx |-> NULL]
  /\ hNewConnect = [c \in Ctx |-> NULL]
  /\ hNewRequest = [c \in Ctx |-> NULL]
  /\ nHeaders = [c \in Ctx |-> 0]
  /\ call = [t \in Thread |-> Idle]
  /\ origin = [h \in Handle |-> NULL]
  /\ hdrs = [h \in Handle |-> 0]
  /\ moved = {}
  /\ parent = [h \in Handle |-> NULL]
  /\ stale = FALSE /\ pulled = FALSE /\ stranded = {}

-----------------------------------------------------------------------------
(* The list and the handle table *)

Listed(c) == \E i \in 1 .. Len(list) : list[i] = c

FirstAt(field, h, i) ==
  field[list[i]] = h /\ \A j \in 1 .. i - 1 : field[list[j]] # h

(* The first context whose field is h, as both searches return it. *)
Find(field, h) ==
  IF \E i \in 1 .. Len(list) : FirstAt(field, h, i)
  THEN list[CHOOSE i \in 1 .. Len(list) : FirstAt(field, h, i)]
  ELSE NULL

(* Mutant: the comparison in the search is lost. *)
Bug_FirstContext(h) == IF list = <<>> THEN NULL ELSE list[1]

findInetCtxByConnect(h) == Find(hConnect, h)
findInetCtxByRequest(h) == Find(hRequest, h)

(* The handle a call on the client's request is passed to. *)
Target(r) ==
  LET c == findInetCtxByRequest(r)
  IN IF c # NULL /\ hNewRequest[c] # NULL THEN hNewRequest[c] ELSE r

Replacements(c) == {hNewRequest[c], hNewConnect[c]} \ {NULL}
AllReplacements(C) == UNION {Replacements(c) : c \in C}

(* pInternetCloseHandle on every handle of S, in the handle table tbl. *)
Shut(tbl, S) == [h \in Handle |-> IF h \in S THEN "free" ELSE tbl[h]]

Free(tbl) == {h \in Handle : tbl[h] = "free"}

(* The values the contexts are searched by, and all that something names.   *)
Searched == UNION {{hConnect[c], hRequest[c]} : c \in {d \in Ctx : Listed(d)}}
Remembered ==
  Searched \cup {hOpen[c] : c \in {d \in Ctx : Listed(d)}}
    \cup UNION {{call[t].h, call[t].target} : t \in Thread}

(* WinINet chooses among the free values: any that something remembers, or  *)
(* one of the others.                                                       *)
Values(S) == (S \cap Remembered) \cup Alloc(S \ Remembered)

(* H is handed out. *)
HandOut(H) == stale' = (stale \/ H \cap Searched # {})

(* What the model remembers of handles that no longer exist is dropped. *)
Forget(S) ==
  /\ origin' = [h \in Handle |-> IF h \in S \/ origin[h] \in S THEN NULL ELSE origin[h]]
  /\ hdrs' = [h \in Handle |-> IF h \in S THEN 0 ELSE hdrs[h]]
  /\ moved' = moved \ S
  /\ parent' = [h \in Handle |-> IF h \in S \/ parent[h] \in S THEN NULL ELSE parent[h]]

ClientHolds(t, h, kind) == held[h] = t /\ live[h] = kind
ClientSession(h) == held[h] # NULL /\ live[h] = "session"

createInetCtx(c, open, connect, request, newConnect) ==
  /\ ~ Listed(c)
  /\ list' = Append(list, c)
  /\ hOpen' = [hOpen EXCEPT ![c] = open]
  /\ hConnect' = [hConnect EXCEPT ![c] = connect]
  /\ hRequest' = [hRequest EXCEPT ![c] = request]
  /\ hNewConnect' = [hNewConnect EXCEPT ![c] = newConnect]
  /\ hNewRequest' = [hNewRequest EXCEPT ![c] = NULL]
  /\ nHeaders' = [nHeaders EXCEPT ![c] = 0]

(* removeInetCtx unlinks the context, destructInetCtx zeroes it, FreeMem. *)
removeInetCtx(c) ==
  /\ \E i \in 1 .. Len(list) : list[i] = c /\ list' = RemoveAt(list, i)
  /\ hOpen' = [hOpen EXCEPT ![c] = NULL]
  /\ hConnect' = [hConnect EXCEPT ![c] = NULL]
  /\ hRequest' = [hRequest EXCEPT ![c] = NULL]
  /\ hNewConnect' = [hNewConnect EXCEPT ![c] = NULL]
  /\ hNewRequest' = [hNewRequest EXCEPT ![c] = NULL]
  /\ nHeaders' = [nHeaders EXCEPT ![c] = 0]

(* Mutant: the fields keep the closed handles. *)
Bug_DropKeepsFields(C) ==
  /\ live' = Shut(live, AllReplacements(C))
  /\ Forget(AllReplacements(C))
  /\ UNCHANGED <<hNewRequest, hNewConnect>>

(* Mutant: the replacement connection is nulled but not closed. *)
Bug_DropForgetsConnect(C) ==
  LET S == {hNewRequest[c] : c \in C} \ {NULL} IN
  /\ live' = Shut(live, S)
  /\ hNewRequest' = [c \in Ctx |-> IF c \in C THEN NULL ELSE hNewRequest[c]]
  /\ hNewConnect' = [c \in Ctx |-> IF c \in C THEN NULL ELSE hNewConnect[c]]
  /\ Forget(S)

(* Close both replacements of every context in C and null the fields. *)
DropReplacements(C) ==
  /\ live' = Shut(live, AllReplacements(C))
  /\ hNewRequest' = [c \in Ctx |-> IF c \in C THEN NULL ELSE hNewRequest[c]]
  /\ hNewConnect' = [c \in Ctx |-> IF c \in C THEN NULL ELSE hNewConnect[c]]
  /\ Forget(AllReplacements(C))

-----------------------------------------------------------------------------
(* Opening *)

(* InternetOpenA is not hooked: the client obtains a session handle, one    *)
(* per thread at a time (a bound).                                          *)
InternetOpenA(t) ==
  \E h \in Values(Free(live)) :
    /\ call[t] = Idle
    /\ \A s \in Handle : ~ ClientHolds(t, s, "session")
    /\ live' = [live EXCEPT ![h] = "session"]
    /\ held' = [held EXCEPT ![h] = t]
    /\ HandOut({h})
    /\ UNCHANGED <<list, ctxVars, call, reqVars, pulled, stranded>>

(* A failed pInternetConnectA returns NULL and changes nothing. *)
InternetConnectAHook(t) ==
  \E s \in Handle, h \in Values(Free(live)), c \in Ctx :
    /\ call[t] = Idle
    /\ ClientSession(s)
    /\ live' = [live EXCEPT ![h] = "connect"]
    /\ held' = [held EXCEPT ![h] = t]
    /\ createInetCtx(c, s, h, NULL, NULL)
    /\ HandOut({h})
    /\ UNCHANGED <<call, reqVars, pulled, stranded>>

(* The client's discipline: a connection that already has a redirected     *)
(* request gets no second one, unless ReopenConnect.                       *)
MayOpenOn(hc) ==
  LET c == findInetCtxByConnect(hc)
  IN ReopenConnect \/ (c # NULL => hRequest[c] = NULL)

(* No context, a failed URL query, no rule that matches, a URL that does   *)
(* not parse: the client gets the request it asked for.                    *)
OpenRequestPlain(t) ==
  \E hc \in Handle, r \in Values(Free(live)) :
    /\ call[t] = Idle
    /\ ClientHolds(t, hc, "connect") /\ MayOpenOn(hc)
    /\ live' = [live EXCEPT ![r] = "request"]
    /\ held' = [held EXCEPT ![r] = t]
    /\ parent' = [parent EXCEPT ![r] = hc]
    /\ HandOut({r})
    /\ UNCHANGED <<list, ctxVars, call, origin, hdrs, moved, pulled, stranded>>

(* A rule matches, the plain request is closed, and a later step fails:    *)
(* whatever was opened is closed and hNewConnect is left NULL.             *)
OpenRequestFails(t) ==
  \E hc \in Handle :
    LET c == findInetCtxByConnect(hc) IN
    /\ call[t] = Idle
    /\ ClientHolds(t, hc, "connect") /\ MayOpenOn(hc) /\ c # NULL
    /\ hNewConnect' = [hNewConnect EXCEPT ![c] = NULL]
    /\ UNCHANGED <<live, held, list, hOpen, hConnect, hRequest, hNewRequest, nHeaders,
                   call, reqVars, history>>

(* A rule matches and the replacement connection and its request open.  The *)
(* client receives the request; the connection stays with the context.      *)
OpenRequestRewritten(t) ==
  \E hc \in Handle, nc \in Values(Free(live)) : \E r \in Values(Free(live) \ {nc}) :
    LET c == findInetCtxByConnect(hc) IN
    /\ call[t] = Idle
    /\ ClientHolds(t, hc, "connect") /\ MayOpenOn(hc) /\ c # NULL
    /\ hOpen[c] # NULL /\ live[hOpen[c]] = "session"
    /\ live' = [live EXCEPT ![nc] = "connect", ![r] = "request"]
    /\ held' = [held EXCEPT ![r] = t]
    /\ parent' = [parent EXCEPT ![r] = hc]
    /\ HandOut({nc, r})
    /\ hNewConnect' = [hNewConnect EXCEPT ![c] = nc]
    /\ hRequest' = [hRequest EXCEPT ![c] = r]
    /\ UNCHANGED <<list, hOpen, hConnect, hNewRequest, nHeaders, call, origin, hdrs, moved,
                   pulled, stranded>>

HttpOpenRequestAHook(t) ==
  OpenRequestPlain(t) \/ OpenRequestFails(t) \/ OpenRequestRewritten(t)

(* InternetOpenUrlA answered by WinINet itself: no context.  The failures,  *)
(* at any depth of the redirect recursion, close all they opened.           *)
OpenUrlNative(t) ==
  \E s \in Handle, r \in Values(Free(live)) :
    /\ call[t] = Idle
    /\ ClientSession(s)
    /\ live' = [live EXCEPT ![r] = "request"]
    /\ held' = [held EXCEPT ![r] = t]
    /\ parent' = [parent EXCEPT ![r] = s]
    /\ HandOut({r})
    /\ UNCHANGED <<list, ctxVars, call, origin, hdrs, moved, pulled, stranded>>

(* InternetOpenUrlABypasSelfSignedCertificate: the context's hConnect is    *)
(* the session handle, and its hOpen is NULL.                               *)
OpenUrlBypass(t) ==
  \E s \in Handle, c \in Ctx, nc \in Values(Free(live)) :
  \E r \in Values(Free(live) \ {nc}) :
    /\ call[t] = Idle
    /\ ClientSession(s)
    /\ live' = [live EXCEPT ![nc] = "connect", ![r] = "request"]
    /\ held' = [held EXCEPT ![r] = t]
    /\ parent' = [parent EXCEPT ![r] = s]
    /\ createInetCtx(c, NULL, s, r, nc)
    /\ HandOut({nc, r})
    /\ UNCHANGED <<call, origin, hdrs, moved, pulled, stranded>>

InternetOpenUrlAHook(t) == OpenUrlNative(t) \/ OpenUrlBypass(t)

-----------------------------------------------------------------------------
(* Sending: a call passes the request to WinINet and waits for the answer *)

Enter(t, op, r) ==
  /\ call[t] = Idle
  /\ ClientHolds(t, r, "request")
  /\ call' = [call EXCEPT ![t] =
       [op |-> op, pc |-> "sending", h |-> r, ctx |-> findInetCtxByRequest(r),
        target |-> Target(r), frames |-> <<>>]]
  /\ UNCHANGED <<live, held, list, ctxVars, reqVars, history>>

HttpSendRequestAHook(t) == \E r \in Handle : Enter(t, "Send", r)
HttpSendRequestExAHook(t) == \E r \in Handle : Enter(t, "SendEx", r)
HttpEndRequestAHook(t) == \E r \in Handle : Enter(t, "End", r)

Return(t) == call' = [call EXCEPT ![t] = Idle]

(* The contexts of the activations of ...CertificateInvalidRedirect that are *)
(* waiting for the activation they called.  Each closes and nulls its        *)
(* context's replacements when that one returns, whatever it returned.       *)
Outer(t) == ToSet(Front(call[t].frames))

(* Mutant: the activation that succeeded cleans up too. *)
Bug_SuccessCleansUp(t) ==
  /\ call[t].pc = "sending"
  /\ DropReplacements(ToSet(call[t].frames))
  /\ Return(t)
  /\ UNCHANGED <<held, list, hOpen, hConnect, hRequest, nHeaders, history>>

(* TRUE: the innermost activation returns at once, the outer ones clean up. *)
SendSucceeds(t) ==
  /\ call[t].pc = "sending"
  /\ DropReplacements(IF call[t].frames = <<>> THEN {} ELSE Outer(t))
  /\ Return(t)
  /\ UNCHANGED <<held, list, hOpen, hConnect, hRequest, nHeaders, history>>

(* An error that is neither a redirect nor a certificate to bypass: every   *)
(* activation cleans up and FALSE is returned.                              *)
SendFails(t) ==
  /\ call[t].pc = "sending"
  /\ DropReplacements(ToSet(call[t].frames))
  /\ Return(t)
  /\ UNCHANGED <<held, list, hOpen, hConnect, hRequest, nHeaders, history>>

(* ERROR_HTTP_REDIRECT_NEEDS_CONFIRMATION, or a certificate error that the  *)
(* configuration bypasses, on a request that has a context.                 *)
SendWantsRedirect(t) ==
  /\ call[t].pc = "sending"
  /\ call[t].op \in {"Send", "End"}
  /\ call[t].ctx # NULL
  /\ Len(call[t].frames) < MaxHops
  /\ call' = [call EXCEPT ![t].pc = "redirect"]
  /\ UNCHANGED <<live, held, list, ctxVars, reqVars, history>>

(* The context is gone, the status or the URL cannot be read or is not a    *)
(* redirect: FALSE before anything is closed.                               *)
RedirectAbandoned(t) ==
  /\ call[t].pc = "redirect"
  /\ DropReplacements(ToSet(call[t].frames))
  /\ Return(t)
  /\ UNCHANGED <<held, list, hOpen, hConnect, hRequest, nHeaders, history>>

(* The old replacements are closed, and connecting, opening, setting the    *)
(* security flags or replaying a header fails: nothing is left open.        *)
RedirectFails(t) ==
  LET c == findInetCtxByRequest(call[t].h) IN
  /\ call[t].pc = "redirect"
  /\ c # NULL
  /\ DropReplacements(ToSet(call[t].frames) \cup {c})
  /\ Return(t)
  /\ UNCHANGED <<held, list, hOpen, hConnect, hRequest, nHeaders, history>>

(* What is replayed of the recorded headers: the context has only pointers, *)
(* and what the client has put there since need not be headers.             *)
Replayed(c, r) == IF r \in moved THEN 0 .. nHeaders[c] ELSE {nHeaders[c]}

(* The old replacements are gone, the context takes nc and nr, nr is given  *)
(* the recorded headers and sent.                                           *)
ReplaceAndSend(t, c, nc, nr) ==
  LET old == Replacements(c) IN
  /\ live' = [Shut(live, old) EXCEPT ![nc] = "connect", ![nr] = "request"]
  /\ hNewConnect' = [hNewConnect EXCEPT ![c] = nc]
  /\ hNewRequest' = [hNewRequest EXCEPT ![c] = nr]
  /\ HandOut({nc, nr})
  /\ origin' = [h \in Handle |-> IF h = nr THEN call[t].h
                                 ELSE IF h \in old THEN NULL ELSE origin[h]]
  /\ \E n \in Replayed(c, call[t].h) :
       hdrs' = [h \in Handle |-> IF h = nr THEN n ELSE IF h \in old THEN 0 ELSE hdrs[h]]
  /\ call' = [call EXCEPT ![t].pc = IF call[t].op = "End" THEN "sendex" ELSE "sending",
                          ![t].ctx = c, ![t].target = nr,
                          ![t].frames = Append(@, c)]
  /\ UNCHANGED <<held, list, hOpen, hConnect, hRequest, nHeaders, moved, parent,
                 pulled, stranded>>

RedirectSends(t) ==
  LET c == findInetCtxByRequest(call[t].h)
      tbl == Shut(live, Replacements(c)) IN
  /\ call[t].pc = "redirect"
  /\ c # NULL
  /\ hOpen[c] # NULL /\ tbl[hOpen[c]] = "session"
  /\ \E nc \in Values(Free(tbl)) : \E nr \in Values(Free(tbl) \ {nc}) :
       ReplaceAndSend(t, c, nc, nr)

(* HttpEndRequestA's redirect sends the request and the remembered body     *)
(* first; only the final HttpEndRequestA may be redirected again.           *)
SendExReplayed(t) ==
  /\ call[t].pc = "sendex"
  /\ call' = [call EXCEPT ![t].pc = "sending"]
  /\ UNCHANGED <<live, held, list, ctxVars, reqVars, history>>

SendExReplayFails(t) ==
  /\ call[t].pc = "sendex"
  /\ DropReplacements(ToSet(call[t].frames))
  /\ Return(t)
  /\ UNCHANGED <<held, list, hOpen, hConnect, hRequest, nHeaders, history>>

Answer(t) ==
  \/ SendSucceeds(t) \/ SendFails(t) \/ SendWantsRedirect(t)
  \/ RedirectAbandoned(t) \/ RedirectFails(t) \/ RedirectSends(t)
  \/ SendExReplayed(t) \/ SendExReplayFails(t)

-----------------------------------------------------------------------------
(* Headers and closing *)

(* Mutant: the check against MAX_HTTP_HEADER is missing. *)
Bug_HeaderNoLimit(t) ==
  \E r \in Handle :
    LET c == findInetCtxByRequest(r) IN
    /\ call[t] = Idle
    /\ ClientHolds(t, r, "request") /\ c # NULL
    /\ hdrs[r] < HeaderBound /\ hdrs[Target(r)] < HeaderBound
    /\ hdrs' = [h \in Handle |-> IF h \in {r, Target(r)} THEN hdrs[h] + 1 ELSE hdrs[h]]
    /\ nHeaders' = [nHeaders EXCEPT ![c] = @ + 1]
    /\ UNCHANGED <<live, held, list, hOpen, hConnect, hRequest, hNewConnect, hNewRequest,
                   call, origin, moved, parent, history>>

(* Mutant: a header is not recorded once a replacement has taken over. *)
Bug_HeaderNotRecorded(t) ==
  \E r \in Handle :
    LET c == findInetCtxByRequest(r) IN
    /\ call[t] = Idle
    /\ ClientHolds(t, r, "request") /\ c # NULL
    /\ hdrs[r] < HeaderBound /\ hdrs[Target(r)] < HeaderBound
    /\ hdrs' = [h \in Handle |-> IF h \in {r, Target(r)} THEN hdrs[h] + 1 ELSE hdrs[h]]
    /\ nHeaders' = IF nHeaders[c] < MAX_HTTP_HEADER /\ hNewRequest[c] = NULL
                   THEN [nHeaders EXCEPT ![c] = @ + 1] ELSE nHeaders
    /\ UNCHANGED <<live, held, list, hOpen, hConnect, hRequest, hNewConnect, hNewRequest,
                   call, origin, moved, parent, history>>

(* The header goes to the target; a context with room records it.  A failed *)
(* call, or one on a request without a context, changes nothing modelled.   *)
HttpAddRequestHeadersAHook(t) ==
  \E r \in Handle :
    LET c == findInetCtxByRequest(r) IN
    /\ call[t] = Idle
    /\ ClientHolds(t, r, "request") /\ c # NULL
    /\ hdrs[r] < HeaderBound /\ hdrs[Target(r)] < HeaderBound
    /\ hdrs' = [h \in Handle |-> IF h \in {r, Target(r)} THEN hdrs[h] + 1 ELSE hdrs[h]]
    /\ nHeaders' = IF nHeaders[c] < MAX_HTTP_HEADER
                   THEN [nHeaders EXCEPT ![c] = @ + 1] ELSE nHeaders
    /\ UNCHANGED <<live, held, list, hOpen, hConnect, hRequest, hNewConnect, hNewRequest,
                   call, origin, moved, parent, history>>

(* The client uses the memory of headers it has added for something else:   *)
(* HttpAddRequestHeadersA has returned long ago.                            *)
HeaderMemoryReused(r) ==
  LET c == findInetCtxByRequest(r) IN
  /\ held[r] # NULL /\ c # NULL /\ nHeaders[c] > 0
  /\ moved' = moved \cup {r}
  /\ UNCHANGED <<live, held, list, ctxVars, call, origin, hdrs, parent, history>>

(* A handle some context has as its hConnect takes the replacements and the  *)
(* context with it; a session may be another context's hConnect as well.     *)
CloseConnect(h, c) ==
  LET S == Replacements(c) \cup {h} IN
  /\ removeInetCtx(c)
  /\ live' = Shut(live, S)
  /\ Forget(S)
  /\ stranded' = (stranded \cup {d \in Ctx : Listed(d) /\ hConnect[d] = h /\ hOpen[d] = NULL})
                   \ {c}

CloseOther(h) ==
  /\ live' = Shut(live, {h})
  /\ Forget({h})
  /\ UNCHANGED <<list, ctxVars, stranded>>

CloseHandle(h) ==
  /\ held[h] # NULL
  /\ held' = [held EXCEPT ![h] = NULL]
  /\ pulled' = (pulled \/ \E o \in Thread : call[o] # Idle /\ h \in {call[o].h, parent[call[o].h]})
  /\ UNCHANGED <<call, stale>>

(* Mutant: the context is looked up by request, so closing a connection     *)
(* leaves its context in the list.                                          *)
Bug_CloseByRequest(t) ==
  \E h \in Handle :
    LET c == findInetCtxByRequest(h) IN
    /\ call[t] = Idle
    /\ CloseHandle(h)
    /\ IF c # NULL THEN CloseConnect(h, c) ELSE CloseOther(h)

InternetCloseHandleHook(t) ==
  \E h \in Handle :
    LET c == findInetCtxByConnect(h) IN
    /\ call[t] = Idle
    /\ CloseHandle(h)
    /\ IF c # NULL THEN CloseConnect(h, c) ELSE CloseOther(h)

-----------------------------------------------------------------------------
(* No hook waits with a pointer to a context that is freed. *)
Intact ==
  \A t \in Thread :
    /\ call[t].ctx # NULL => Listed(call[t].ctx)
    /\ \A i \in 1 .. Len(call[t].frames) : Listed(call[t].frames[i])

Next ==
  /\ Intact
  /\ \/ \E t \in Thread :
          \/ InternetOpenA(t)
          \/ InternetConnectAHook(t)
          \/ HttpOpenRequestAHook(t)
          \/ InternetOpenUrlAHook(t)
          \/ HttpSendRequestAHook(t)
          \/ HttpSendRequestExAHook(t)
          \/ HttpEndRequestAHook(t)
          \/ Answer(t)
          \/ HttpAddRequestHeadersAHook(t)
          \/ InternetCloseHandleHook(t)
     \/ \E r \in Handle : HeaderMemoryReused(r)

Spec == Init /\ [][Next]_vars

-----------------------------------------------------------------------------
(* Properties *)

(* Every replacement handle a context holds is open, is of the right kind,  *)
(* was never given to the client, and belongs to that context alone.  This  *)
(* is what makes each pInternetCloseHandle on hNewRequest and hNewConnect,  *)
(* on all the error paths and unwinding activations, close the hooks' own   *)
(* handle once and nobody else's, even when values are recycled.            *)
OwnedLive ==
  /\ \A c \in Ctx : hNewConnect[c] # NULL =>
       live[hNewConnect[c]] = "connect" /\ held[hNewConnect[c]] = NULL
  /\ \A c \in Ctx : hNewRequest[c] # NULL =>
       live[hNewRequest[c]] = "request" /\ held[hNewRequest[c]] = NULL
  /\ \A c, d \in Ctx : c # d /\ hNewConnect[c] # NULL => hNewConnect[c] # hNewConnect[d]
  /\ \A c, d \in Ctx : c # d /\ hNewRequest[c] # NULL => hNewRequest[c] # hNewRequest[d]

(* A hook that waits for the network keeps its inet_ctx pointers over the   *)
(* wait.  Another thread's close frees one of them only if it closes the    *)
(* very request waited on, or the connection or session that was opened on: *)
(* a context found for a request belongs to that request's own parent.      *)
NoUseAfterFree == stale \/ pulled \/ Intact

(* A client's request is served by itself or by a replacement that was      *)
(* opened for it, never by one opened for another request, until a value a  *)
(* context is searched by is handed out again.                              *)
RouteOwn ==
  stale \/ \A r \in Handle :
    held[r] # NULL /\ live[r] = "request" => Target(r) = r \/ origin[Target(r)] = r

(* Each open connection of the client has exactly one context.  A context   *)
(* does not outlive the connection or session it was made for, except one   *)
(* that shared its session with another: the close of that takes only one.  *)
(* It holds until a value a context is searched by is handed out again.     *)
ContextPerConnect ==
  stale \/
    /\ \A h \in Handle : held[h] # NULL /\ live[h] = "connect" =>
         \E i \in 1 .. Len(list) :
           /\ hConnect[list[i]] = h
           /\ \A j \in 1 .. Len(list) : hConnect[list[j]] = h => j = i
    /\ \A i \in 1 .. Len(list) :
         LET c == list[i]
         IN \/ c \in stranded
            \/ /\ held[hConnect[c]] # NULL
               /\ live[hConnect[c]] = IF hOpen[c] = NULL THEN "session" ELSE "connect"

(* What is open is in the client's hands or is the replacement of a listed  *)
(* context, and the client still has the handle whose close will take that  *)
(* context, unless it is stranded: its session was closed and took another  *)
(* one.  It holds until a value a context is searched by is handed out      *)
(* again.                                                                   *)
NoLeak ==
  stale \/ \A h \in Handle :
    live[h] \in Kind =>
      held[h] # NULL \/ \E i \in 1 .. Len(list) :
                          /\ h \in Replacements(list[i])
                          /\ list[i] \in stranded \/ held[hConnect[list[i]]] # NULL

(* A replacement carries every header the client has added to the request   *)
(* it replaces, as long as the context had room to record them and the      *)
(* client has left the memory of all of them alone.                         *)
HeadersReplayed ==
  stale \/ \A i \in 1 .. Len(list) :
    LET c == list[i]
        r == hRequest[c]
        recorded == r # NULL /\ live[r] = "request" /\ hdrs[r] <= MAX_HTTP_HEADER
    IN hNewRequest[c] # NULL /\ recorded /\ r \notin moved => hdrs[hNewRequest[c]] = hdrs[r]

(* The calls that read an answer go to the handle that was answered if the  *)
(* send took at most one hop, and only then: after two, the outer           *)
(* activation has closed the replacement that was answered, and they go to  *)
(* the client's own request.                                                *)
AnswerIsReadable ==
  [][\A t \in Thread, r \in Handle :
       ~stale /\ ~pulled /\ SendSucceeds(t) /\ r = call[t].h =>
         (Target(r)' = call[t].target <=> Len(call[t].frames) <= 1)]_vars
=============================================================================
