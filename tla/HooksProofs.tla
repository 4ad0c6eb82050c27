----------------------------- MODULE HooksProofs -----------------------------
(***************************************************************************)
(* Proofs about Hooks for every set of threads and of implementations: the *)
(* state keeps its type, a hook installed late goes wrong only if two      *)
(* threads were at it at once, COM failed, or there are two                *)
(* implementations, a game past its start is patched unless someone called *)
(* InitCommonControlsEx before it was unpacked, and no hook can be called  *)
(* before what it uses is there.                                           *)
(***************************************************************************)
EXTENDS Hooks, FiniteSetTheorems, TLAPS

-----------------------------------------------------------------------------
(* The steps of DllMain *)

Probes == {"msvcr71 _stricmp", "msvcr100 _stricmp"}

Libraries ==
  {"webview2_overlay", "kernel32", "msvcr71", "msvcr100", "user32", "wininet", "ws2_32",
   "comctl32", "ole32", "oleaut32"}

(* What a step sets or hooks is among the names of TypeOK. *)
GoodStep ==
  {Load(n) : n \in Libraries} \cup {LoadOptional(n) : n \in Libraries}
    \cup {Get(n) : n \in Statics} \cup {Set(n) : n \in Statics}
    \cup {Hook(n) : n \in Statics} \cup {Probe(n) : n \in Probes}

LEMMA GoodSteps ==
  /\ \A n \in Libraries : Load(n) \in GoodStep /\ LoadOptional(n) \in GoodStep
  /\ \A n \in Statics : Get(n) \in GoodStep /\ Set(n) \in GoodStep /\ Hook(n) \in GoodStep
  /\ \A n \in Probes : Probe(n) \in GoodStep
BY DEF GoodStep

LEMMA GoodStepFields ==
  ASSUME NEW s \in GoodStep
  PROVE  /\ s.do \in {"get", "set", "hook"} => s.name \in Statics
         /\ s.do = "probe" => s.name \in Probes
BY DEF GoodStep, Load, LoadOptional, Get, Set, Hook, Probe

(* The names the steps of DllMain give beside the tables'. *)
Singles ==
  {"Config", "GameguardFakeHandle", "g_inet_ctx", "CreateMutexA", "_stricmp", "setlocale",
   "CreateProcessA", "GetExitCodeProcess", "CreateWindowExA", "connect", "AntiCheat",
   "InitCommonControlsEx", "GetStartupInfoA", "GetStartupInfoW", "CoGetClassObject",
   "CoCreateInstance"}

LEMMA SinglesAreStatic == Singles \subseteq Statics
BY Zenon DEF Singles, Statics

LEMMA SingleSteps ==
  \A n \in Singles : Get(n) \in GoodStep /\ Set(n) \in GoodStep /\ Hook(n) \in GoodStep
BY SinglesAreStatic, GoodSteps, Zenon

LEMMA TableSteps ==
  ASSUME NEW S, NEW s \in Seq(S), ToSet(s) \subseteq Statics
  PROVE  /\ [i \in DOMAIN s |-> Get(s[i])] \in Seq(GoodStep)
         /\ [i \in DOMAIN s |-> Hook(s[i])] \in Seq(GoodStep)
<1>1. Len(s) \in Nat /\ DOMAIN s = 1 .. Len(s)
  OBVIOUS
<1>2. \A i \in DOMAIN s : s[i] \in Statics
  BY DEF ToSet
<1>3. \A i \in DOMAIN s : Get(s[i]) \in GoodStep /\ Hook(s[i]) \in GoodStep
  BY <1>2, GoodSteps
<1>. QED BY <1>1, <1>3

LEMMA InOwnRange ==
  ASSUME NEW S, NEW s \in Seq(S)
  PROVE  s \in Seq(ToSet(s))
<1>. DEFINE T == ToSet(s)
<1>1. Len(s) \in Nat /\ DOMAIN s = 1 .. Len(s)
  OBVIOUS
<1>2. \A i \in 1 .. Len(s) : s[i] \in T
  BY <1>1 DEF ToSet
<1>. HIDE DEF T
<1>3. s \in Seq(T)
  BY <1>1, <1>2
<1>. QED BY <1>3 DEF T

LEMMA ProcType ==
  /\ WinINetHooks \in Seq(ToSet(WinINetHooks))
  /\ WinINetProcs \in Seq(ToSet(WinINetProcs))
  /\ StrProcs \in Seq(ToSet(StrProcs))
  /\ ToSet(WinINetHooks) \subseteq Statics
  /\ ToSet(WinINetProcs) \subseteq Statics
  /\ ToSet(StrProcs) \subseteq Statics
<1>1. WinINetHooks \in Seq(ToSet(WinINetHooks))
  <2>. DEFINE S == {"InternetOpenUrlA", "InternetConnectA", "HttpOpenRequestA",
           "HttpSendRequestA", "HttpEndRequestA", "HttpAddRequestHeadersA", "HttpQueryInfoA",
           "HttpSendRequestExA", "InternetCloseHandle", "InternetQueryDataAvailable",
           "InternetWriteFile", "InternetReadFile"}
  <2>1. WinINetHooks \in Seq(S)
    BY DEF WinINetHooks
  <2>. HIDE DEF S
  <2>. QED BY <2>1, InOwnRange
<1>2. WinINetProcs \in Seq(ToSet(WinINetProcs))
  BY DEF WinINetProcs, ToSet
<1>3. StrProcs \in Seq(ToSet(StrProcs))
  BY DEF StrProcs, ToSet
<1>4. /\ ToSet(WinINetHooks) \subseteq Statics
      /\ ToSet(WinINetProcs) \subseteq Statics
      /\ ToSet(StrProcs) \subseteq Statics
  BY Zenon DEF Statics
<1>. QED BY <1>1, <1>2, <1>3, <1>4

LEMMA EightInSeq ==
  ASSUME NEW S, NEW a \in S, NEW b \in S, NEW c \in S, NEW d \in S,
         NEW e \in S, NEW f \in S, NEW g \in S, NEW h \in S
  PROVE  <<a, b, c, d, e, f, g, h>> \in Seq(S)
OBVIOUS

(* The steps of the Init functions, and so every step of DllMain, are good. *)
LEMMA InitTypes ==
  /\ InitEnvironment \in Seq(GoodStep)
  /\ <<LoadOptional("webview2_overlay")>> \in Seq(GoodStep)
  /\ InitInjectHook \in Seq(GoodStep) /\ InitMsvcrHook \in Seq(GoodStep)
  /\ InitWindowHook \in Seq(GoodStep) /\ InitNetRedirHook \in Seq(GoodStep)
  /\ InitRedirHook \in Seq(GoodStep) /\ InitComCtl32Hook \in Seq(GoodStep)
  /\ InitWebBrowserHook \in Seq(GoodStep)
  /\ <<Set("AntiCheat")>> \in Seq(GoodStep)
<1>1. InitEnvironment \in Seq(GoodStep)
  BY SingleSteps DEF InitEnvironment, Singles
<1>2. InitInjectHook \in Seq(GoodStep)
  BY SingleSteps, GoodSteps DEF InitInjectHook, Singles, Libraries
<1>3. InitMsvcrHook \in Seq(GoodStep)
  <2>1. /\ Load("msvcr71") \in GoodStep /\ Load("msvcr100") \in GoodStep
        /\ Get("_stricmp") \in GoodStep /\ Get("setlocale") \in GoodStep
        /\ Probe("msvcr71 _stricmp") \in GoodStep
        /\ Probe("msvcr100 _stricmp") \in GoodStep
    BY SingleSteps, GoodSteps DEF Probes, Singles, Libraries
  <2>. QED BY <2>1, EightInSeq, Zenon DEF InitMsvcrHook
<1>4. InitWindowHook \in Seq(GoodStep)
  BY SingleSteps, GoodSteps DEF InitWindowHook, Singles, Libraries
<1>5. InitNetRedirHook \in Seq(GoodStep)
  <2>1. <<Set("g_inet_ctx"), Load("wininet")>> \in Seq(GoodStep)
    BY SingleSteps, GoodSteps DEF Singles, Libraries
  <2>2. /\ [i \in DOMAIN WinINetProcs |-> Get(WinINetProcs[i])] \in Seq(GoodStep)
        /\ [i \in DOMAIN WinINetHooks |-> Hook(WinINetHooks[i])] \in Seq(GoodStep)
    BY TableSteps, ProcType
  <2>. QED BY <2>1, <2>2 DEF InitNetRedirHook
<1>6. InitRedirHook \in Seq(GoodStep)
  BY SingleSteps, GoodSteps DEF InitRedirHook, Singles, Libraries
<1>7. InitComCtl32Hook \in Seq(GoodStep)
  BY SingleSteps, GoodSteps DEF InitComCtl32Hook, Singles, Libraries
<1>8. InitWebBrowserHook \in Seq(GoodStep)
  <2>1. /\ <<Load("ole32"), Load("oleaut32")>> \in Seq(GoodStep)
        /\ <<Hook("CoGetClassObject"), Hook("CoCreateInstance")>> \in Seq(GoodStep)
    BY SingleSteps, GoodSteps DEF Singles, Libraries
  <2>2. [i \in DOMAIN StrProcs |-> Get(StrProcs[i])] \in Seq(GoodStep)
    BY TableSteps, ProcType
  <2>. QED BY <2>1, <2>2 DEF InitWebBrowserHook
<1>9. <<LoadOptional("webview2_overlay")>> \in Seq(GoodStep)
  BY GoodSteps DEF Libraries
<1>10. <<Set("AntiCheat")>> \in Seq(GoodStep)
  BY SingleSteps DEF Singles
<1>. QED BY <1>1, <1>2, <1>3, <1>4, <1>5, <1>6, <1>7, <1>8, <1>9, <1>10

LEMMA DllMainType == DllMain \in Seq(GoodStep)
<1>1. InitHooks \in Seq(GoodStep)
  BY InitTypes DEF InitHooks
<1>. QED BY <1>1, InitTypes DEF DllMain

-----------------------------------------------------------------------------
(* Type correctness *)

(* The implementations of the function a site stands for. *)
ImplOf(s) == IF s = "game" THEN {Exe} ELSE Impl

LEMMA TargetOf ==
  \A s \in Sites : \A i : <<s, i>> \in Targets <=> i \in ImplOf(s)
BY DEF Targets, Sites, ImplOf

LEMMA TargetIs ==
  ASSUME NEW x \in Targets
  PROVE  /\ x[1] \in Sites /\ x[2] \in ImplOf(x[1])
         /\ x = <<x[1], x[2]>>
BY DEF Targets, Sites, ImplOf

LEMMA ImplKnown == \A s \in Sites : \A i \in ImplOf(s) : i \in Impl \cup {Exe} /\ i # NULL
BY HooksAssumption DEF Sites, ImplOf

StartupType ==
  /\ step \in 1 .. Len(DllMain) + 1
  /\ loading \in BOOLEAN /\ dead \in BOOLEAN
  /\ ready \subseteq Statics
  /\ hooked \subseteq Statics \cup Probes

Pcs == {"outside", "set", "compare", "build", "write", "store"}
Installation == [pc : Pcs, site : Sites, impl : Impl \cup {Exe}, whole : BOOLEAN]
Original == [impl : Impl \cup {Exe}, whole : BOOLEAN]

SiteType ==
  /\ code \in [Targets -> {"packed", "orig", "jmp"}]
  /\ flag \in [Sites -> Impl \cup {Exe, NULL}]
  /\ slot \in [Sites -> Original \cup {NULL}]
  /\ \A s \in Sites :
       /\ flag[s] # NULL => flag[s] \in ImplOf(s)
       /\ slot[s] # NULL => slot[s].impl \in ImplOf(s)

CallType ==
  /\ call \in [Thread -> Installation]
  /\ \A t \in Thread : call[t].impl \in ImplOf(call[t].site)

GameType ==
  /\ made \in [Thread -> SUBSET Targets] /\ started \subseteq Thread /\ used \subseteq Sites

HistoryType ==
  /\ overlap \in [Sites -> BOOLEAN] /\ passed \in [Sites -> BOOLEAN]
  /\ harm \in [Sites -> BOOLEAN] /\ early \in BOOLEAN

(* The game's code is packed until it has unpacked itself.  It is installed  *)
(* on only after that, and only a call of InitCommonControlsEx made before   *)
(* gets as far as to look at it; no other code is ever packed.               *)
PackedInv ==
  /\ unpacked \in BOOLEAN
  /\ unpacked <=> code[<<"game", Exe>>] # "packed"
  /\ \A s \in Sites : s # "game" => \A i \in ImplOf(s) : code[<<s, i>>] # "packed"
  /\ \A t \in Thread : Installing(t, "game") /\ ~(early /\ call[t].pc \in {"set", "compare"})
                         => unpacked
  /\ \A t \in Thread : call[t].pc = "compare" => call[t].site = "game"

(* The strengthening of TypeOK. *)
LateInv == SiteType /\ CallType /\ GameType /\ HistoryType /\ PackedInv
HookInv == StartupType /\ LateInv

LEMMA HookInvType == HookInv => TypeOK
<1>. SUFFICES ASSUME HookInv PROVE TypeOK
  OBVIOUS
<1>1. {loading, dead, unpacked, early} \subseteq BOOLEAN
  BY Zenon DEF HookInv, LateInv, StartupType, HistoryType, PackedInv
<1>2. \A s \in Sites :
        /\ flag[s] = NULL \/ <<s, flag[s]>> \in Targets
        /\ slot[s] = NULL \/ <<s, slot[s].impl>> \in Targets
  BY TargetOf, Zenon DEF HookInv, LateInv, SiteType
<1>3. \A t \in Thread : call[t].pc \in {"outside", "set", "compare", "build", "write", "store"}
  BY DEF HookInv, LateInv, CallType, Installation, Pcs
<1>. QED
  BY <1>1, <1>2, <1>3, Zenon
  DEF TypeOK, HookInv, LateInv, StartupType, SiteType, GameType, HistoryType, Probes

LEMMA OutsideType == Outside \in Installation /\ Outside.impl \in ImplOf(Outside.site)
                     /\ Outside.pc = "outside"
BY DEF Outside, Installation, Pcs, Sites, ImplOf

LEMMA HookInit == Init => HookInv
<1>. SUFFICES ASSUME Init PROVE HookInv
  OBVIOUS
<1>1. StartupType
  <2>1. Len(DllMain) \in Nat
    BY DllMainType
  <2>2. step = 1 /\ loading = FALSE /\ dead = FALSE /\ ready = {} /\ hooked = {}
    BY DEF Init
  <2>3. step \in 1 .. Len(DllMain) + 1
    BY <2>1, <2>2
  <2>. QED BY <2>2, <2>3, Zenon DEF StartupType
<1>2. SiteType
  <2>1. code \in [Targets -> {"packed", "orig", "jmp"}]
    BY DEF Init
  <2>. QED BY <2>1 DEF Init, SiteType
<1>3. CallType
  BY OutsideType DEF Init, CallType
<1>4. GameType /\ HistoryType
  BY DEF Init, GameType, HistoryType
<1>5. PackedInv
  <2>0. unpacked = FALSE /\ \A x \in Targets : code[x] = IF x[1] = "game" THEN "packed" ELSE "orig"
    BY DEF Init
  <2>1. ASSUME NEW s \in Sites, NEW i \in ImplOf(s)
        PROVE  code[<<s, i>>] = IF s = "game" THEN "packed" ELSE "orig"
    <3>1. <<s, i>> \in Targets
      BY TargetOf
    <3>. QED BY <2>0, <3>1
  <2>2. "game" \in Sites /\ Exe \in ImplOf("game")
    BY DEF Sites, ImplOf
  <2>3. \A t \in Thread : call[t].pc = "outside"
    BY OutsideType DEF Init
  <2>. QED BY <2>0, <2>1, <2>2, <2>3 DEF PackedInv, Installing
<1>. QED BY <1>1, <1>2, <1>3, <1>4, <1>5 DEF HookInv, LateInv

(* Start-up leaves the rest alone, and what runs later leaves start-up alone. *)
Startup == StartupStep \/ InitialiserReturns \/ StartupFails

LEMMA StartupKept ==
  ASSUME HookInv, Startup
  PROVE  StartupType' /\ UNCHANGED lateVars
<1>1. CASE StartupStep
  <2>1. Len(DllMain) \in Nat /\ step \in 1 .. Len(DllMain)
    BY <1>1, DllMainType DEF StartupStep, Running, HookInv, StartupType
  <2>2. DllMain[step] \in GoodStep
    BY <2>1, DllMainType
  <2>3. step' \in 1 .. Len(DllMain) + 1
    BY <1>1, <2>1 DEF StartupStep
  <2>4. ready' \subseteq Statics
    BY <1>1, <2>2, GoodStepFields DEF StartupStep, HookInv, StartupType
  <2>5. hooked' \subseteq Statics \cup Probes
    BY <1>1, <2>2, GoodStepFields DEF StartupStep, HookInv, StartupType
  <2>6. loading' \in BOOLEAN
    BY <1>1, Zenon DEF StartupStep
  <2>. QED BY <1>1, <2>3, <2>4, <2>5, <2>6 DEF StartupStep, HookInv, StartupType
<1>2. CASE InitialiserReturns
  BY <1>2 DEF InitialiserReturns, HookInv, StartupType
<1>3. CASE StartupFails
  BY <1>3, Zenon DEF StartupFails, HookInv, StartupType, startVars
<1>. QED BY <1>1, <1>2, <1>3 DEF Startup

(* A thread comes to a late hook: to the game's functions, unless it is      *)
(* early, only once the game has unpacked itself.                            *)
Arrive(t, s, i) ==
  /\ TestFlag(t, s, i)
  /\ early' \in BOOLEAN /\ (early => early') /\ (s # "game" => early' = early)
  /\ s = "game" /\ ~early' => unpacked

(* A browser is handed out without the hook. *)
PassBy(t, s, i) == NotHooked(t, s, i) /\ s # "game" /\ early' = early

Later ==
  \/ Unpack
  \/ \E t \in Thread :
       \/ \E s \in Sites : \E i \in ImplOf(s) :
            Arrive(t, s, i) \/ PassBy(t, s, i) \/ Call(t, s, i)
       \/ SetFlag(t) \/ Compare(t) \/ BuildTrampoline(t) \/ InstallHook(t) \/ StoreOriginal(t)

LEMMA NextIs ==
  ASSUME HookInv, Next
  PROVE  Startup \/ Later
<1>1. CASE StartupStep \/ InitialiserReturns \/ StartupFails
  BY <1>1 DEF Startup
<1>2. CASE Unpack
  BY <1>2 DEF Later
<1>3. ASSUME NEW t \in Thread,
             \/ \E impl \in Impl : CoCreateInstanceHook(t, impl)
             \/ \E impl \in Impl : CoGetClassObjectHook(t, impl)
             \/ \E caller \in {Exe, NULL} : GetStartupInfoHook(t, caller)
             \/ InitCommonControlsExHook(t)
      PROVE  Later
  <2>0. early \in BOOLEAN /\ unpacked \in BOOLEAN
    BY DEF HookInv, LateInv, HistoryType, PackedInv
  <2>1. ASSUME NEW s \in {"Navigate", "Invoke"}, NEW i \in Impl, BrowserMade(t, s, i)
        PROVE  Later
    <3>1. s \in Sites /\ i \in ImplOf(s) /\ s # "game"
      BY DEF Sites, ImplOf
    <3>2. Arrive(t, s, i) \/ PassBy(t, s, i)
      BY <2>0, <2>1, <3>1 DEF BrowserMade, Arrive, PassBy
    <3>. QED BY <3>1, <3>2 DEF Later
  <2>2. "game" \in Sites /\ Exe \in ImplOf("game")
    BY DEF Sites, ImplOf
  <2>3. ASSUME NEW caller \in {Exe, NULL}, GetStartupInfoHook(t, caller)
        PROVE  Later
    <3>1. Arrive(t, "game", Exe)
      BY <2>0, <2>3 DEF GetStartupInfoHook, isModuleAllocationBase, Arrive
    <3>. QED BY <2>2, <3>1 DEF Later
  <2>4. ASSUME InitCommonControlsExHook(t)
        PROVE  Later
    <3>1. Arrive(t, "game", Exe)
      BY <2>0, <2>4, Zenon DEF InitCommonControlsExHook, Arrive
    <3>. QED BY <2>2, <3>1 DEF Later
  <2>. QED BY <1>3, <2>1, <2>3, <2>4 DEF CoCreateInstanceHook, CoGetClassObjectHook
<1>4. ASSUME NEW t \in Thread, NEW x \in Targets, Call(t, x[1], x[2])
      PROVE  Later
  BY <1>4, TargetIs DEF Later
<1>5. ASSUME NEW t \in Thread,
             SetFlag(t) \/ Compare(t) \/ BuildTrampoline(t) \/ InstallHook(t) \/ StoreOriginal(t)
      PROVE  Later
  BY <1>5 DEF Later
<1>. QED BY <1>1, <1>2, <1>3, <1>4, <1>5 DEF Next

(* Where a thread's own step leaves it. *)
LEMMA CallTypeKept ==
  ASSUME CallType, NEW t \in Thread, NEW c \in Installation, c.impl \in ImplOf(c.site),
         call' = [call EXCEPT ![t] = c]
  PROVE  CallType'
BY DEF CallType

LEMMA LeaveType ==
  ASSUME CallType, GameType, NEW t \in Thread, NEW s \in Sites, NEW i \in ImplOf(s),
         Leave(t, s, i), used' = used
  PROVE  CallType' /\ GameType'
<1>1. CallType'
  BY CallTypeKept, OutsideType DEF Leave
<1>2. <<s, i>> \in Targets
  BY TargetOf
<1>3. GameType'
  BY <1>2 DEF Leave, GameType
<1>. QED BY <1>1, <1>3

LEMMA AtSite ==
  ASSUME CallType, NEW t \in Thread
  PROVE  /\ call[t] \in Installation /\ call[t].site \in Sites
         /\ call[t].impl \in ImplOf(call[t].site)
         /\ call[t].impl \in Impl \cup {Exe} /\ call[t].impl # NULL
         /\ call[t].pc \in Pcs /\ call[t].whole \in BOOLEAN
         /\ <<call[t].site, call[t].impl>> \in Targets
<1>1. /\ call[t] \in Installation /\ call[t].site \in Sites
      /\ call[t].impl \in ImplOf(call[t].site)
      /\ call[t].pc \in Pcs /\ call[t].whole \in BOOLEAN
  BY DEF CallType, Installation
<1>. QED BY <1>1, ImplKnown, TargetOf, Zenon

(* A step of the installation a thread is in that leaves it there. *)
LEMMA StayType ==
  ASSUME CallType, NEW t \in Thread, NEW p \in Pcs, NEW w \in BOOLEAN,
         call' = [call EXCEPT ![t] = [@ EXCEPT !.pc = p, !.whole = w]]
  PROVE  CallType'
<1>. DEFINE c == [call[t] EXCEPT !.pc = p, !.whole = w]
<1>1. c \in Installation /\ c.impl = call[t].impl /\ c.site = call[t].site
  BY AtSite DEF Installation
<1>2. call' = [call EXCEPT ![t] = c]
  OBVIOUS
<1>. HIDE DEF c
<1>. QED BY <1>1, <1>2, AtSite, CallTypeKept

LEMMA StayPc ==
  ASSUME CallType, NEW t \in Thread, NEW p \in Pcs,
         call' = [call EXCEPT ![t].pc = p]
  PROVE  CallType'
<1>. DEFINE c == [call[t] EXCEPT !.pc = p]
<1>1. c \in Installation /\ c.impl = call[t].impl /\ c.site = call[t].site
  BY AtSite DEF Installation
<1>2. call' = [call EXCEPT ![t] = c]
  OBVIOUS
<1>. HIDE DEF c
<1>. QED BY <1>1, <1>2, AtSite, CallTypeKept

(* The types the steps that come later keep. *)
LEMMA LaterTyped ==
  ASSUME LateInv, Later
  PROVE  SiteType' /\ CallType' /\ GameType' /\ HistoryType'
<1>. USE DEF LateInv
<1>1. CASE Unpack
  <2>1. <<"game", Exe>> \in Targets
    BY DEF Targets
  <2>2. SiteType'
    BY <1>1, <2>1 DEF Unpack, SiteType
  <2>3. CallType' /\ GameType' /\ HistoryType'
    BY <1>1 DEF Unpack, CallType, GameType, HistoryType
  <2>. QED BY <2>2, <2>3
<1>2. ASSUME NEW t \in Thread, NEW s \in Sites, NEW i \in ImplOf(s), Arrive(t, s, i)
      PROVE  SiteType' /\ CallType' /\ GameType' /\ HistoryType'
  <2>1. SiteType' /\ used' = used
    BY <1>2 DEF Arrive, TestFlag, siteVars, SiteType
  <2>2. HistoryType'
    <3>1. overlap' \in [Sites -> BOOLEAN]
      BY <1>2, Zenon DEF Arrive, TestFlag, Overlaps, HistoryType
    <3>. QED BY <1>2, <3>1, Zenon DEF Arrive, TestFlag, HistoryType
  <2>3. CASE flag[s] = i
    <3>1. Leave(t, s, i)
      BY <1>2, <2>3 DEF Arrive, TestFlag
    <3>. QED BY <2>1, <2>2, <3>1, LeaveType
  <2>4. CASE flag[s] # i
    <3>. DEFINE c == [Outside EXCEPT !.pc = "set", !.site = s, !.impl = i]
    <3>1. c \in Installation /\ c.impl \in ImplOf(c.site)
      BY ImplKnown DEF Outside, Installation, Pcs
    <3>2. call' = [call EXCEPT ![t] = c] /\ UNCHANGED <<made, started>>
      BY <1>2, <2>4 DEF Arrive, TestFlag
    <3>. HIDE DEF c
    <3>3. CallType' /\ GameType'
      BY <2>1, <3>1, <3>2, CallTypeKept DEF GameType
    <3>. QED BY <2>1, <2>2, <3>3
  <2>. QED BY <2>3, <2>4
<1>3. ASSUME NEW t \in Thread, NEW s \in Sites, NEW i \in ImplOf(s), Call(t, s, i)
      PROVE  SiteType' /\ CallType' /\ GameType' /\ HistoryType'
  <2>1. SiteType' /\ CallType' /\ GameType'
    BY <1>3 DEF Call, siteVars, SiteType, CallType, GameType
  <2>2. overlap' \in [Sites -> BOOLEAN] /\ harm' \in [Sites -> BOOLEAN]
    BY <1>3, Zenon DEF Call, Overlaps, HistoryType
  <2>3. passed' = passed /\ early' = early
    BY <1>3 DEF Call
  <2>. QED BY <2>1, <2>2, <2>3 DEF HistoryType
<1>9. ASSUME NEW t \in Thread, NEW s \in Sites, NEW i \in ImplOf(s), PassBy(t, s, i)
      PROVE  SiteType' /\ CallType' /\ GameType' /\ HistoryType'
  <2>1. SiteType' /\ HistoryType'
    BY <1>9 DEF PassBy, NotHooked, siteVars, SiteType, HistoryType
  <2>2. CallType' /\ GameType'
    BY <1>9, LeaveType DEF PassBy, NotHooked
  <2>. QED BY <2>1, <2>2
<1>4. ASSUME NEW t \in Thread, SetFlag(t)
      PROVE  SiteType' /\ CallType' /\ GameType' /\ HistoryType'
  <2>1. SiteType'
    BY <1>4, AtSite DEF SetFlag, SiteType
  <2>2. CallType'
    BY <1>4, StayPc DEF SetFlag, Pcs
  <2>3. GameType' /\ HistoryType'
    BY <1>4 DEF SetFlag, InstallSteps, GameType, HistoryType
  <2>. QED BY <2>1, <2>2, <2>3
<1>5. ASSUME NEW t \in Thread, Compare(t)
      PROVE  SiteType' /\ CallType' /\ GameType' /\ HistoryType'
  <2>1. SiteType' /\ HistoryType' /\ used' = used
    BY <1>5 DEF Compare, InstallSteps, siteVars, SiteType, HistoryType
  <2>2. CASE code[<<"game", Exe>>] = "orig"
    <3>1. CallType'
      BY <1>5, <2>2, StayPc DEF Compare, Pcs
    <3>. QED BY <1>5, <2>1, <2>2, <3>1 DEF Compare, GameType
  <2>3. CASE code[<<"game", Exe>>] # "orig"
    <3>1. Leave(t, "game", Exe) /\ "game" \in Sites /\ Exe \in ImplOf("game")
      BY <1>5, <2>3 DEF Compare, Sites, ImplOf
    <3>. QED BY <2>1, <3>1, LeaveType
  <2>. QED BY <2>2, <2>3
<1>6. ASSUME NEW t \in Thread, BuildTrampoline(t)
      PROVE  SiteType' /\ CallType' /\ GameType' /\ HistoryType'
  <2>1. CallType'
    BY <1>6, StayType, ZenonT(30) DEF BuildTrampoline, Pcs
  <2>. QED BY <1>6, <2>1
       DEF BuildTrampoline, InstallSteps, siteVars, SiteType, GameType, HistoryType
<1>7. ASSUME NEW t \in Thread, InstallHook(t)
      PROVE  SiteType' /\ CallType' /\ GameType' /\ HistoryType'
  <2>1. CallType'
    BY <1>7, StayPc DEF InstallHook, Pcs
  <2>2. SiteType'
    BY <1>7, AtSite DEF InstallHook, SiteType
  <2>. QED BY <1>7, <2>1, <2>2 DEF InstallHook, InstallSteps, GameType, HistoryType
<1>8. ASSUME NEW t \in Thread, StoreOriginal(t)
      PROVE  SiteType' /\ CallType' /\ GameType' /\ HistoryType'
  <2>1. CallType' /\ GameType'
    BY <1>8, LeaveType, AtSite DEF StoreOriginal, InstallSteps
  <2>2. SiteType'
    BY <1>8, AtSite DEF StoreOriginal, SiteType, Original
  <2>. QED BY <1>8, <2>1, <2>2 DEF StoreOriginal, InstallSteps, HistoryType
<1>. QED BY <1>1, <1>2, <1>3, <1>4, <1>5, <1>6, <1>7, <1>8, <1>9 DEF Later

(* The thread that takes a step of an installation, and the others. *)
LEMMA OthersStay ==
  ASSUME CallType, NEW t \in Thread,
         SetFlag(t) \/ Compare(t) \/ BuildTrampoline(t) \/ InstallHook(t) \/ StoreOriginal(t)
  PROVE  /\ \A u \in Thread : u # t => call'[u] = call[u]
         /\ call'[t].pc # "outside" =>
              call'[t].site = call[t].site /\ call'[t].impl = call[t].impl
         /\ call[t].pc \in Pcs \ {"outside"}
         /\ unpacked' = unpacked /\ overlap' = overlap /\ harm' = harm
         /\ passed' = passed /\ early' = early
BY OutsideType DEF CallType, Installation, Pcs, SetFlag, Compare, BuildTrampoline, InstallHook,
   StoreOriginal, InstallSteps, Leave

LEMMA PackedKept ==
  ASSUME LateInv, Later
  PROVE  PackedInv'
<1>. USE DEF LateInv
<1>0. "game" \in Sites /\ Exe \in ImplOf("game")
  BY DEF Sites, ImplOf
<1>1. CASE Unpack
  <2>1. \A r \in Sites : \A j \in ImplOf(r) :
           code'[<<r, j>>] = IF r = "game" /\ j = Exe THEN "orig" ELSE code[<<r, j>>]
    BY <1>0, <1>1, TargetOf DEF Unpack, SiteType
  <2>2. call' = call /\ unpacked' = TRUE
    BY <1>1 DEF Unpack
  <2>. QED BY <1>0, <2>1, <2>2 DEF PackedInv, Installing
<1>2. ASSUME NEW t \in Thread, NEW s \in Sites, NEW i \in ImplOf(s), Arrive(t, s, i)
      PROVE  PackedInv'
  <2>1. code' = code /\ unpacked' = unpacked
    BY <1>2 DEF Arrive, TestFlag, siteVars
  <2>2. \A u \in Thread : u # t => call'[u] = call[u]
    BY <1>2 DEF Arrive, TestFlag, Leave, CallType
  <2>3. call'[t].pc = "outside" \/ (call'[t].pc = "set" /\ call'[t].site = s)
    BY <1>2, OutsideType DEF Arrive, TestFlag, Leave, CallType, Outside
  <2>4. (s = "game" /\ ~early' => unpacked) /\ (early => early')
    BY <1>2 DEF Arrive
  <2>. QED BY <2>1, <2>2, <2>3, <2>4 DEF PackedInv, Installing
<1>6. ASSUME NEW t \in Thread, NEW s \in Sites, NEW i \in ImplOf(s), PassBy(t, s, i)
      PROVE  PackedInv'
  <2>1. code' = code /\ unpacked' = unpacked /\ early' = early
    BY <1>6 DEF PassBy, NotHooked, siteVars
  <2>2. \A u \in Thread : u # t => call'[u] = call[u]
    BY <1>6 DEF PassBy, NotHooked, Leave, CallType
  <2>3. call'[t].pc = "outside"
    BY <1>6, OutsideType DEF PassBy, NotHooked, Leave, CallType
  <2>. QED BY <2>1, <2>2, <2>3 DEF PackedInv, Installing
<1>3. ASSUME NEW t \in Thread, NEW s \in Sites, NEW i \in ImplOf(s), Call(t, s, i)
      PROVE  PackedInv'
  BY <1>3 DEF Call, siteVars, PackedInv, Installing
<1>4. ASSUME NEW t \in Thread,
             SetFlag(t) \/ Compare(t) \/ BuildTrampoline(t) \/ StoreOriginal(t)
      PROVE  PackedInv'
  <2>1. code' = code
    BY <1>4 DEF SetFlag, Compare, BuildTrampoline, StoreOriginal, siteVars
  <2>2. call'[t].pc = "compare" => call[t].site = "game"
    <3>1. CASE SetFlag(t)
      BY <3>1 DEF SetFlag, CallType, Installation
    <3>2. CASE Compare(t)
      BY <3>2, OutsideType DEF Compare, Leave, CallType, Installation
    <3>3. CASE BuildTrampoline(t)
      BY <3>3 DEF BuildTrampoline, CallType, Installation
    <3>4. CASE StoreOriginal(t)
      BY <3>4, OutsideType DEF StoreOriginal, Leave, CallType, Installation
    <3>. QED BY <1>4, <3>1, <3>2, <3>3, <3>4
  <2>3. ASSUME Installing(t, "game")', ~(early /\ call'[t].pc \in {"set", "compare"})
        PROVE  unpacked
    <3>1. call[t].site = "game" /\ call[t].pc # "outside"
      BY <1>4, <2>3, OthersStay DEF Installing, Pcs
    <3>2. SUFFICES ASSUME ~unpacked PROVE FALSE
      OBVIOUS
    <3>3. early /\ call[t].pc \in {"set", "compare"}
      BY <3>1, <3>2 DEF PackedInv, Installing
    <3>4. CASE SetFlag(t)
      BY <2>3, <3>1, <3>3, <3>4 DEF SetFlag, CallType, Installation
    <3>5. CASE Compare(t)
      <4>1. code[<<"game", Exe>>] # "orig"
        BY <3>2 DEF PackedInv
      <4>. QED BY <2>3, <3>5, <4>1, OutsideType DEF Compare, Leave, CallType, Installing
    <3>. QED BY <1>4, <3>3, <3>4, <3>5 DEF BuildTrampoline, StoreOriginal, InstallSteps
  <2>. QED BY <1>4, <2>1, <2>2, <2>3, OthersStay DEF PackedInv, Installing
<1>5. ASSUME NEW t \in Thread, InstallHook(t)
      PROVE  PackedInv'
  <2>. DEFINE s == call[t].site
              i == call[t].impl
  <2>1. s \in Sites /\ i \in ImplOf(s)
    BY AtSite
  <2>2. code' = [code EXCEPT ![<<s, i>>] = "jmp"] /\ Installing(t, s)
    BY <1>5 DEF InstallHook, InstallSteps, Installing
  <2>3. call'[t].pc = "store"
    BY <1>5, AtSite DEF InstallHook, CallType, Installation
  <2>. HIDE DEF s, i
  <2>4. \A r \in Sites : \A j \in ImplOf(r) :
           code'[<<r, j>>] = IF r = s /\ j = i THEN "jmp" ELSE code[<<r, j>>]
    BY <2>1, <2>2, TargetOf DEF SiteType
  <2>5. s = "game" => unpacked
    BY <1>5, <2>2 DEF InstallHook, InstallSteps, PackedInv
  <2>. QED BY <1>0, <1>5, <2>1, <2>2, <2>3, <2>4, <2>5, OthersStay DEF PackedInv, Installing
<1>. QED BY <1>1, <1>2, <1>3, <1>4, <1>5, <1>6 DEF Later

LEMMA StartupLeft == Later => UNCHANGED <<startVars, dead>>
BY ZenonT(30) DEF Later, Unpack, Arrive, TestFlag, PassBy, NotHooked, Call, SetFlag, Compare,
       BuildTrampoline, InstallHook,
       StoreOriginal, InstallSteps

LEMMA LaterKept ==
  ASSUME HookInv, Later
  PROVE  HookInv'
<1>1. UNCHANGED <<startVars, dead>>
  BY StartupLeft
<1>2. StartupType'
  BY <1>1 DEF HookInv, StartupType, startVars
<1>. QED BY <1>2, LaterTyped, PackedKept DEF HookInv, LateInv

LEMMA LateUnchanged ==
  ASSUME LateInv, UNCHANGED lateVars
  PROVE  LateInv'
BY DEF LateInv, lateVars, siteVars, SiteType, CallType, GameType, HistoryType, PackedInv,
       Installing

LEMMA HookNext == HookInv /\ [Next]_vars => HookInv'
<1>1. ASSUME HookInv, UNCHANGED vars PROVE HookInv'
  <2>1. StartupType' /\ UNCHANGED lateVars
    <3>1. /\ step' = step /\ loading' = loading /\ hooked' = hooked /\ ready' = ready
          /\ dead' = dead
      BY <1>1 DEF vars, startVars
    <3>2. UNCHANGED lateVars
      BY <1>1 DEF vars, lateVars, siteVars
    <3>. QED BY <1>1, <3>1, <3>2 DEF HookInv, StartupType
  <2>. QED BY <1>1, <2>1, LateUnchanged DEF HookInv
<1>2. ASSUME HookInv, Startup PROVE HookInv'
  BY <1>2, StartupKept, LateUnchanged DEF HookInv
<1>. QED BY <1>1, <1>2, LaterKept, NextIs

LEMMA HookInductive == Spec => []HookInv
BY HookInit, HookNext, PTL DEF Spec

(* Start-up's steps set and hook only what is named in Statics, flags and    *)
(* slots hold implementations of their own site, and an installation is at   *)
(* one of the steps of HookFunc (DllMain, patch.c, web_browser.c,            *)
(* dynamic_patch.c).                                                         *)
THEOREM HooksTyped == Spec => []TypeOK
BY HookInductive, HookInvType, PTL

-----------------------------------------------------------------------------
(* One hook installed late *)

Hooked(s, i) == code[<<s, i>>] = "jmp"
Single(s) == \A i, j \in ImplOf(s) : Hooked(s, i) /\ Hooked(s, j) => i = j

(* One thread at a time installs. *)
Alone(s) == \A t, u \in Thread : Installing(t, s) /\ Installing(u, s) => t = u

(* The site's one attempt was not spent on the game's packed code. *)
InTime(s) == s = "game" => ~early

(* While nothing is half done, what the flag names is hooked, and the only   *)
(* function that is hooked has its original in the slot.                     *)
Settled(s) ==
  (\A t \in Thread : Installing(t, s) => call[t].pc = "set") =>
    /\ flag[s] # NULL /\ InTime(s) => Hooked(s, flag[s])
    /\ \A i \in ImplOf(s) : Hooked(s, i) /\ Single(s) =>
         flag[s] = i /\ slot[s] = [impl |-> i, whole |-> TRUE]

(* A thread installs what the flag did not name, and copies the function's   *)
(* own instructions, unless another implementation was hooked in between.    *)
InHand(t, s) ==
  LET c == call[t] IN
  /\ c.pc = "set" <=> flag[s] # c.impl
  /\ c.pc # "store" => ~(Hooked(s, c.impl) /\ Single(s))
  /\ c.pc = "write" => c.whole \/ Hooked(s, c.impl)
  /\ c.pc = "store" => Hooked(s, c.impl) /\ (Single(s) => c.whole)
Underway(s) == \A t \in Thread : Installing(t, s) => InHand(t, s)

(* Who has a browser of an implementation, or is past its start, finds it    *)
(* hooked, if no browser was handed out without the hook and nobody was      *)
(* early.                                                                    *)
Reached(s) ==
  /\ s # "game" /\ ~passed[s] =>
       \A t \in Thread, i \in ImplOf(s) : <<s, i>> \in made[t] => Hooked(s, i)
  /\ s = "game" /\ InTime(s) /\ started # {} => Hooked(s, Exe)

(* As long as no two threads have met at the site. *)
SiteOK(s) == ~overlap[s] => Alone(s) /\ Settled(s) /\ Underway(s) /\ Reached(s)
HarmOK(s) == harm[s] => overlap[s] \/ passed[s] \/ ~Single(s)

(* The strengthening of LateHooksNeedOverlap and StartedGameIsPatched; that  *)
(* a set of hooked functions is finite is for Cardinality's sake.            *)
SiteInv ==
  /\ \A s \in Sites : SiteOK(s) /\ HarmOK(s)
  /\ IsFiniteSet({x \in Targets : code[x] = "jmp"})

(* A step that changes nothing of a site. *)
SameSite(s) ==
  /\ overlap'[s] = overlap[s] /\ harm'[s] = harm[s] /\ passed'[s] = passed[s]
  /\ InTime(s)' <=> InTime(s)
  /\ flag'[s] = flag[s] /\ slot'[s] = slot[s]
  /\ \A i \in ImplOf(s) : Hooked(s, i)' <=> Hooked(s, i)
  /\ \A t \in Thread : Installing(t, s)' <=> Installing(t, s)
  /\ \A t \in Thread : Installing(t, s) => call'[t] = call[t]
  /\ \A t \in Thread, i \in ImplOf(s) : <<s, i>> \in made'[t] => <<s, i>> \in made[t]
  /\ s = "game" => started' = started

LEMMA SiteKept ==
  ASSUME LateInv, NEW s \in Sites, SiteOK(s), HarmOK(s), SameSite(s)
  PROVE  SiteOK(s)' /\ HarmOK(s)'
<1>1. Single(s)' <=> Single(s)
  BY DEF Single, SameSite, InTime
<1>2. HarmOK(s)'
  BY <1>1 DEF HarmOK, SameSite, InTime
<1>3. ASSUME ~overlap[s], Alone(s) PROVE Alone(s)'
  BY <1>3 DEF Alone, SameSite, InTime
<1>4. ASSUME Settled(s) PROVE Settled(s)'
  <2>1. flag[s] = NULL \/ flag[s] \in ImplOf(s)
    BY DEF LateInv, SiteType
  <2>2. (\A t \in Thread : Installing(t, s) => call[t].pc = "set")'
           => \A t \in Thread : Installing(t, s) => call[t].pc = "set"
    BY DEF SameSite, InTime
  <2>. QED BY <1>1, <1>4, <2>1, <2>2 DEF Settled, InTime, SameSite, InTime
<1>5. ASSUME Underway(s) PROVE Underway(s)'
  <2>1. ASSUME NEW t \in Thread, Installing(t, s), call'[t] = call[t], InHand(t, s)
        PROVE  InHand(t, s)'
    <3>1. call[t].impl \in ImplOf(s)
      BY <2>1, AtSite DEF LateInv, Installing
    <3>. QED BY <1>1, <2>1, <3>1 DEF InHand, SameSite, InTime
  <2>. QED BY <1>5, <2>1 DEF Underway, SameSite, InTime
<1>6. ASSUME Reached(s) PROVE Reached(s)'
  <2>1. s = "game" => Exe \in ImplOf(s)
    BY DEF ImplOf
  <2>. QED BY <1>6, <2>1 DEF Reached, InTime, SameSite, InTime
<1>7. overlap'[s] = overlap[s]
  BY DEF SameSite, InTime
<1>. QED BY <1>2, <1>3, <1>4, <1>5, <1>6, <1>7 DEF SiteOK

LEMMA SiteInit == Init => SiteInv
<1>. SUFFICES ASSUME Init PROVE SiteInv
  OBVIOUS
<1>1. \A x \in Targets : code[x] # "jmp"
  BY DEF Init
<1>2. IsFiniteSet({x \in Targets : code[x] = "jmp"})
  <2>1. {x \in Targets : code[x] = "jmp"} = {}
    BY <1>1
  <2>. QED BY <2>1, FS_EmptySet
<1>3. \A s \in Sites : \A i \in ImplOf(s) : ~Hooked(s, i)
  BY <1>1, TargetOf, Zenon DEF Hooked
<1>4. \A s \in Sites : \A t \in Thread : ~Installing(t, s)
  BY OutsideType DEF Init, Installing
<1>5. /\ flag = [s \in Sites |-> NULL] /\ made = [t \in Thread |-> {}] /\ started = {}
      /\ harm = [s \in Sites |-> FALSE]
  BY DEF Init
<1>6. ASSUME NEW s \in Sites PROVE SiteOK(s) /\ HarmOK(s)
  <2>1. Alone(s) /\ Underway(s)
    BY <1>4 DEF Alone, Underway
  <2>2. Settled(s)
    BY <1>3, <1>5 DEF Settled, InTime
  <2>3. Reached(s)
    BY <1>5 DEF Reached, InTime
  <2>4. HarmOK(s)
    BY <1>5 DEF HarmOK
  <2>. QED BY <2>1, <2>2, <2>3, <2>4 DEF SiteOK
<1>. QED BY <1>2, <1>6 DEF SiteInv

(* A step of an installation touches its own site only. *)
LEMMA OtherSites ==
  ASSUME LateInv, NEW t \in Thread,
         SetFlag(t) \/ Compare(t) \/ BuildTrampoline(t) \/ InstallHook(t) \/ StoreOriginal(t),
         NEW s \in Sites, s # call[t].site
  PROVE  SameSite(s)
<1>. USE DEF LateInv
<1>1. /\ \A u \in Thread : u # t => call'[u] = call[u]
      /\ call'[t].pc # "outside" => call'[t].site = call[t].site
      /\ overlap' = overlap /\ harm' = harm /\ passed' = passed /\ early' = early
  BY OthersStay
<1>2. /\ \A u \in Thread : Installing(u, s)' <=> Installing(u, s)
      /\ \A u \in Thread : Installing(u, s) => call'[u] = call[u]
  BY <1>1 DEF Installing
<1>3. flag'[s] = flag[s] /\ slot'[s] = slot[s]
  BY DEF SiteType, SetFlag, Compare, BuildTrampoline, InstallHook, StoreOriginal, InstallSteps,
         siteVars
<1>4. \A i \in ImplOf(s) : code'[<<s, i>>] = code[<<s, i>>]
  <2>1. code' = code \/ code' = [code EXCEPT ![<<call[t].site, call[t].impl>>] = "jmp"]
    BY DEF SetFlag, Compare, BuildTrampoline, InstallHook, StoreOriginal, siteVars
  <2>2. \A i \in ImplOf(s) : <<s, i>> # <<call[t].site, call[t].impl>>
    OBVIOUS
  <2>. QED BY <2>1, <2>2, AtSite, TargetOf DEF SiteType
<1>5. /\ \A u \in Thread, i \in ImplOf(s) : <<s, i>> \in made'[u] => <<s, i>> \in made[u]
      /\ s = "game" => started' = started
  <2>1. \/ UNCHANGED <<made, started>>
        \/ Leave(t, call[t].site, call[t].impl)
        \/ Compare(t) /\ Leave(t, "game", Exe)
    BY DEF SetFlag, Compare, BuildTrampoline, InstallHook, StoreOriginal
  <2>2. CASE UNCHANGED <<made, started>>
    BY <2>2
  <2>3. CASE Leave(t, call[t].site, call[t].impl)
    BY <2>3 DEF Leave, GameType
  <2>4. CASE Compare(t) /\ Leave(t, "game", Exe)
    <3>1. call[t].site = "game"
      BY <2>4 DEF Compare, InstallSteps, PackedInv
    <3>. QED BY <2>4, <3>1 DEF Leave, GameType
  <2>. QED BY <2>1, <2>2, <2>3, <2>4
<1>. QED BY <1>1, <1>2, <1>3, <1>4, <1>5, Zenon DEF SameSite, InTime, Hooked

(* What is known of the site a thread installs at, alone. *)
LEMMA AtHand ==
  ASSUME LateInv, SiteInv, NEW t \in Thread, NEW s \in Sites, Installing(t, s), ~overlap[s]
  PROVE  /\ \A u \in Thread : Installing(u, s) => u = t
         /\ InHand(t, s) /\ Reached(s) /\ Settled(s)
         /\ call[t].site = s /\ call[t].impl \in ImplOf(s) /\ call[t].impl # NULL
BY AtSite DEF LateInv, SiteInv, SiteOK, Alone, Underway, Installing

(* HarmOK at a site where what was hooked stays so. *)
LEMMA HarmKept ==
  ASSUME NEW s \in Sites, HarmOK(s), overlap'[s] = overlap[s], harm'[s] = harm[s],
         passed'[s] = passed[s],
         \A i \in ImplOf(s) : Hooked(s, i) => Hooked(s, i)'
  PROVE  HarmOK(s)'
BY DEF HarmOK, Single

LEMMA SetFlagSite ==
  ASSUME LateInv, SiteInv, NEW t \in Thread, SetFlag(t), NEW s \in Sites, s = call[t].site
  PROVE  SiteOK(s)' /\ HarmOK(s)'
<1>. DEFINE i == call[t].impl
<1>. USE DEF LateInv
<1>1. /\ call[t].pc = "set" /\ flag'[s] = i
      /\ code' = code /\ slot' = slot /\ made' = made /\ started' = started
  BY DEF SetFlag, InstallSteps, SiteType
<1>2. call'[t].pc \in {"compare", "build"} /\ call'[t].site = s /\ call'[t].impl = i
  BY DEF SetFlag, CallType, Installation
<1>3. /\ \A u \in Thread : u # t => call'[u] = call[u]
      /\ overlap' = overlap /\ harm' = harm /\ passed' = passed /\ early' = early
  BY OthersStay
<1>4. HarmOK(s)'
  BY <1>1, <1>3, HarmKept DEF SiteInv, Hooked
<1>5. ASSUME ~overlap'[s] PROVE (Alone(s) /\ Settled(s) /\ Underway(s) /\ Reached(s))'
  <2>1. Installing(t, s) /\ ~overlap[s]
    BY <1>1, <1>3, <1>5 DEF Installing
  <2>2. /\ \A u \in Thread : Installing(u, s) => u = t
        /\ InHand(t, s) /\ Reached(s) /\ Settled(s)
        /\ i \in ImplOf(s) /\ i # NULL
    BY <2>1, AtHand
  <2>3. \A u \in Thread : Installing(u, s)' => u = t
    BY <1>3, <2>2 DEF Installing
  <2>4. ~(Hooked(s, i) /\ Single(s))
    BY <1>1, <2>1, <2>2 DEF Settled, InTime, InHand
  <2>5. InHand(t, s)'
    BY <1>1, <1>2, <2>4 DEF InHand, Hooked, Single
  <2>6. Settled(s)'
    BY <1>2, <2>3 DEF Settled, InTime, Installing
  <2>7. Reached(s)'
    BY <1>1, <1>3, <2>2 DEF Reached, InTime, Hooked
  <2>. QED BY <2>3, <2>5, <2>6, <2>7 DEF Alone, Underway
<1>. QED BY <1>4, <1>5 DEF SiteOK

LEMMA BuildSite ==
  ASSUME LateInv, SiteInv, NEW t \in Thread, BuildTrampoline(t), NEW s \in Sites,
         s = call[t].site
  PROVE  SiteOK(s)' /\ HarmOK(s)'
<1>. DEFINE i == call[t].impl
<1>. USE DEF LateInv
<1>1. /\ call[t].pc = "build" /\ flag' = flag
      /\ code' = code /\ slot' = slot /\ made' = made /\ started' = started
  BY DEF BuildTrampoline, InstallSteps, siteVars
<1>2. call'[t].pc = "write" /\ call'[t].site = s /\ call'[t].impl = i
        /\ call'[t].whole = (code[<<s, i>>] = "orig")
  BY DEF BuildTrampoline, CallType, Installation
<1>3. /\ \A u \in Thread : u # t => call'[u] = call[u]
      /\ overlap' = overlap /\ harm' = harm /\ passed' = passed /\ early' = early
  BY OthersStay
<1>4. HarmOK(s)'
  BY <1>1, <1>3, HarmKept DEF SiteInv, Hooked
<1>5. ASSUME ~overlap'[s] PROVE (Alone(s) /\ Settled(s) /\ Underway(s) /\ Reached(s))'
  <2>1. Installing(t, s) /\ ~overlap[s]
    BY <1>1, <1>3, <1>5 DEF Installing
  <2>2. /\ \A u \in Thread : Installing(u, s) => u = t
        /\ InHand(t, s) /\ Reached(s)
        /\ i \in ImplOf(s) /\ i # NULL
    BY <2>1, AtHand
  <2>3. \A u \in Thread : Installing(u, s)' => u = t
    BY <1>3, <2>2 DEF Installing
  <2>4. code[<<s, i>>] \in {"orig", "jmp"}
    <3>1. code[<<s, i>>] \in {"packed", "orig", "jmp"}
      BY <2>2, TargetOf DEF SiteType
    <3>2. code[<<s, i>>] # "packed"
      BY <1>1, <2>1, <2>2 DEF PackedInv, ImplOf
    <3>. QED BY <3>1, <3>2
  <2>5. InHand(t, s)'
    BY <1>1, <1>2, <2>2, <2>4 DEF InHand, Hooked, Single
  <2>6. Settled(s)'
    BY <1>2, <2>3 DEF Settled, InTime, Installing
  <2>7. Reached(s)'
    BY <1>1, <1>3, <2>2 DEF Reached, InTime, Hooked
  <2>. QED BY <2>3, <2>5, <2>6, <2>7 DEF Alone, Underway
<1>. QED BY <1>4, <1>5 DEF SiteOK

LEMMA CompareSite ==
  ASSUME LateInv, SiteInv, NEW t \in Thread, Compare(t), NEW s \in Sites, s = call[t].site
  PROVE  SiteOK(s)' /\ HarmOK(s)'
<1>. DEFINE i == call[t].impl
<1>. USE DEF LateInv
<1>1. /\ call[t].pc = "compare" /\ flag' = flag /\ code' = code /\ slot' = slot
      /\ s = "game" /\ i = Exe
  BY AtSite DEF Compare, InstallSteps, siteVars, PackedInv, ImplOf
<1>2. /\ \A u \in Thread : u # t => call'[u] = call[u]
      /\ overlap' = overlap /\ harm' = harm /\ passed' = passed /\ early' = early
  BY OthersStay
<1>3. HarmOK(s)'
  BY <1>1, <1>2, HarmKept DEF SiteInv, Hooked
<1>4. ASSUME ~overlap'[s] PROVE (Alone(s) /\ Settled(s) /\ Underway(s) /\ Reached(s))'
  <2>1. Installing(t, s) /\ ~overlap[s]
    BY <1>1, <1>2, <1>4 DEF Installing
  <2>2. /\ \A u \in Thread : Installing(u, s) => u = t
        /\ InHand(t, s) /\ Reached(s)
        /\ i \in ImplOf(s) /\ i # NULL
    BY <2>1, AtHand
  <2>3. \A u \in Thread : Installing(u, s)' => u = t
    BY <1>2, <2>2 DEF Installing
  <2>4. /\ code[<<"game", Exe>>] # "orig" => early /\ code[<<"game", Exe>>] = "packed"
        /\ ~Hooked(s, Exe)
    <3>1. code[<<s, i>>] \in {"packed", "orig", "jmp"}
      BY <2>2, TargetOf DEF SiteType
    <3>2. ~early => code[<<s, i>>] # "packed"
      BY <1>1, <2>1 DEF PackedInv
    <3>3. code[<<s, i>>] # "jmp"
      BY <1>1, <2>2 DEF InHand, Hooked, Single, ImplOf
    <3>. QED BY <1>1, <3>1, <3>2, <3>3 DEF Hooked
  <2>5. CASE code[<<"game", Exe>>] = "orig"
    <3>1. /\ call'[t].pc = "build" /\ call'[t].site = s /\ call'[t].impl = i
          /\ made' = made /\ started' = started
      BY <1>1, <2>5 DEF Compare, CallType, Installation
    <3>2. InHand(t, s)'
      BY <1>1, <2>2, <3>1 DEF InHand, Hooked, Single
    <3>3. Settled(s)'
      BY <2>3, <3>1 DEF Settled, InTime, Installing
    <3>4. Reached(s)'
      BY <1>1, <1>2, <2>2, <3>1 DEF Reached, InTime, Hooked
    <3>. QED BY <2>3, <3>2, <3>3, <3>4 DEF Alone, Underway
  <2>6. CASE code[<<"game", Exe>>] # "orig"
    <3>1. call'[t].pc = "outside"
      BY <1>1, <2>6, OutsideType DEF Compare, Leave, CallType
    <3>2. \A u \in Thread : ~Installing(u, s)'
      BY <2>3, <3>1 DEF Installing
    <3>3. Settled(s)' /\ Reached(s)'
      BY <1>1, <1>2, <2>4, <2>6 DEF Settled, Reached, InTime, Hooked, ImplOf
    <3>. QED BY <3>2, <3>3 DEF Alone, Underway
  <2>. QED BY <2>5, <2>6
<1>. QED BY <1>3, <1>4 DEF SiteOK

LEMMA InstallSite ==
  ASSUME LateInv, SiteInv, NEW t \in Thread, InstallHook(t), NEW s \in Sites, s = call[t].site
  PROVE  SiteOK(s)' /\ HarmOK(s)'
<1>. DEFINE i == call[t].impl
<1>. USE DEF LateInv
<1>1. /\ call[t].pc = "write" /\ flag' = flag /\ slot' = slot
      /\ made' = made /\ started' = started
  BY DEF InstallHook, InstallSteps
<1>2. call'[t].pc = "store" /\ call'[t].site = s /\ call'[t].impl = i
        /\ call'[t].whole = call[t].whole
  BY DEF InstallHook, CallType, Installation
<1>3. /\ \A u \in Thread : u # t => call'[u] = call[u]
      /\ overlap' = overlap /\ harm' = harm /\ passed' = passed /\ early' = early
  BY OthersStay
<1>4. i \in ImplOf(s) /\ i # NULL
  BY AtSite
<1>5. \A j \in ImplOf(s) : Hooked(s, j)' <=> (j = i \/ Hooked(s, j))
  <2>1. code' = [code EXCEPT ![<<s, i>>] = "jmp"]
    BY DEF InstallHook
  <2>. QED BY <1>4, <2>1, TargetOf DEF Hooked, SiteType
<1>6. HarmOK(s)'
  BY <1>3, <1>5, HarmKept DEF SiteInv
<1>7. ASSUME ~overlap'[s] PROVE (Alone(s) /\ Settled(s) /\ Underway(s) /\ Reached(s))'
  <2>1. Installing(t, s) /\ ~overlap[s]
    BY <1>1, <1>3, <1>7 DEF Installing
  <2>2. /\ \A u \in Thread : Installing(u, s) => u = t
        /\ InHand(t, s) /\ Reached(s)
    BY <2>1, AtHand
  <2>3. \A u \in Thread : Installing(u, s)' => u = t
    BY <1>3, <2>2 DEF Installing
  <2>4. Single(s)' => call[t].whole
    <3>1. ASSUME Single(s)', ~call[t].whole PROVE FALSE
      <4>1. Hooked(s, i) /\ ~Single(s)
        BY <1>1, <2>2, <3>1 DEF InHand
      <4>. QED BY <1>4, <1>5, <3>1, <4>1 DEF Single
    <3>. QED BY <3>1
  <2>5. InHand(t, s)'
    BY <1>1, <1>2, <1>4, <1>5, <2>2, <2>4 DEF InHand
  <2>6. Settled(s)'
    BY <1>2, <2>3 DEF Settled, InTime, Installing
  <2>7. Reached(s)'
    <3>1. s = "game" => Exe \in ImplOf(s)
      BY DEF ImplOf
    <3>. QED BY <1>1, <1>3, <1>5, <2>2, <3>1 DEF Reached, InTime
  <2>. QED BY <2>3, <2>5, <2>6, <2>7 DEF Alone, Underway
<1>. QED BY <1>6, <1>7 DEF SiteOK

LEMMA StoreSite ==
  ASSUME LateInv, SiteInv, NEW t \in Thread, StoreOriginal(t), NEW s \in Sites,
         s = call[t].site
  PROVE  SiteOK(s)' /\ HarmOK(s)'
<1>. DEFINE i == call[t].impl
<1>. USE DEF LateInv
<1>1. /\ call[t].pc = "store" /\ flag' = flag /\ code' = code
      /\ slot'[s] = [impl |-> i, whole |-> call[t].whole]
      /\ Leave(t, s, i)
  BY DEF StoreOriginal, InstallSteps, SiteType
<1>2. call'[t].pc = "outside"
  BY <1>1, OutsideType DEF Leave, CallType
<1>3. /\ \A u \in Thread : u # t => call'[u] = call[u]
      /\ overlap' = overlap /\ harm' = harm /\ passed' = passed /\ early' = early
  BY OthersStay
<1>4. HarmOK(s)'
  BY <1>1, <1>3, HarmKept DEF SiteInv, Hooked
<1>5. ASSUME ~overlap'[s] PROVE (Alone(s) /\ Settled(s) /\ Underway(s) /\ Reached(s))'
  <2>1. Installing(t, s) /\ ~overlap[s]
    BY <1>1, <1>3, <1>5 DEF Installing
  <2>2. /\ \A u \in Thread : Installing(u, s) => u = t
        /\ InHand(t, s) /\ Reached(s)
        /\ i \in ImplOf(s) /\ i # NULL
    BY <2>1, AtHand
  <2>3. \A u \in Thread : ~Installing(u, s)'
    BY <1>2, <1>3, <2>2 DEF Installing
  <2>4. Hooked(s, i) /\ (Single(s) => call[t].whole) /\ flag[s] = i
    BY <1>1, <2>2 DEF InHand
  <2>5. Settled(s)'
    <3>1. \A j \in ImplOf(s) : Hooked(s, j)' /\ Single(s)' => j = i
      BY <1>1, <2>2, <2>4 DEF Single, Hooked
    <3>2. Single(s)' => slot'[s] = [impl |-> i, whole |-> TRUE]
      <4>1. Single(s)' => call[t].whole = TRUE
        BY <1>1, <2>4, AtSite DEF Single, Hooked
      <4>. QED BY <1>1, <4>1
    <3>. QED BY <1>1, <2>4, <3>1, <3>2 DEF Settled, InTime, Hooked
  <2>6. Reached(s)'
    <3>1. CASE s = "game"
      <4>1. i = Exe
        BY <2>2, <3>1 DEF ImplOf
      <4>. QED BY <1>1, <2>4, <3>1, <4>1 DEF Reached, InTime, Hooked
    <3>2. CASE s # "game"
      <4>1. ASSUME NEW u \in Thread, NEW j \in ImplOf(s), <<s, j>> \in made'[u]
            PROVE  j = i \/ <<s, j>> \in made[u]
        BY <1>1, <3>2, <4>1 DEF Leave, GameType
      <4>. QED BY <1>1, <1>3, <2>2, <2>4, <3>2, <4>1 DEF Reached, InTime, Hooked
    <3>. QED BY <3>1, <3>2
  <2>. QED BY <2>3, <2>5, <2>6 DEF Alone, Underway
<1>. QED BY <1>4, <1>5 DEF SiteOK

(* A thread that is elsewhere comes to a site, or calls what is hooked there. *)
LEMMA Meeting ==
  ASSUME LateInv, NEW t \in Thread, NEW s \in Sites, call[t].pc = "outside", Overlaps(t, s)
  PROVE  /\ \A r \in Sites : r # s => overlap'[r] = overlap[r]
         /\ overlap[s] => overlap'[s]
         /\ ~overlap'[s] => \A u \in Thread : ~Installing(u, s)
<1>1. /\ \A r \in Sites : r # s => overlap'[r] = overlap[r]
      /\ overlap'[s] = (overlap[s] \/ \E o \in Thread \ {t} : Installing(o, s))
  BY DEF Overlaps, LateInv, HistoryType
<1>2. ~Installing(t, s)
  BY DEF Installing
<1>. QED BY <1>1, <1>2, Zenon

LEMMA ArriveSite ==
  ASSUME LateInv, SiteInv, NEW t \in Thread, NEW s \in Sites, NEW i \in ImplOf(s),
         Arrive(t, s, i)
  PROVE  \A r \in Sites : SiteOK(r)' /\ HarmOK(r)'
<1>. USE DEF LateInv
<1>1. /\ call[t].pc = "outside" /\ Overlaps(t, s) /\ harm' = harm
      /\ flag' = flag /\ code' = code /\ slot' = slot /\ passed' = passed
      /\ InTime(s)' => InTime(s)
      /\ \A r \in Sites : r # s => (InTime(r)' <=> InTime(r))
  BY DEF Arrive, TestFlag, siteVars, InTime
<1>2. /\ \A r \in Sites : r # s => overlap'[r] = overlap[r]
      /\ overlap[s] => overlap'[s]
      /\ ~overlap'[s] => \A u \in Thread : ~Installing(u, s)
  BY <1>1, Meeting
<1>3. \A u \in Thread : u # t => call'[u] = call[u]
  BY DEF Arrive, TestFlag, Leave, CallType
<1>4. \/ flag[s] = i /\ Leave(t, s, i)
      \/ /\ flag[s] # i /\ UNCHANGED <<made, started>>
         /\ call' = [call EXCEPT ![t] = [Outside EXCEPT !.pc = "set", !.site = s, !.impl = i]]
  BY DEF Arrive, TestFlag
<1>5. ASSUME NEW r \in Sites, r # s PROVE SiteOK(r)' /\ HarmOK(r)'
  <2>1. ~Installing(t, r) /\ ~Installing(t, r)'
    BY <1>1, <1>4, <1>5, OutsideType DEF Installing, Leave, CallType, Outside
  <2>2. /\ \A u \in Thread : Installing(u, r)' <=> Installing(u, r)
        /\ \A u \in Thread : Installing(u, r) => call'[u] = call[u]
    BY <1>3, <2>1 DEF Installing
  <2>3. /\ \A u \in Thread, j \in ImplOf(r) : <<r, j>> \in made'[u] => <<r, j>> \in made[u]
        /\ r = "game" => started' = started
    BY <1>4, <1>5 DEF Leave, GameType
  <2>4. SameSite(r)
    BY <1>1, <1>2, <1>5, <2>2, <2>3 DEF SameSite, Hooked
  <2>. QED BY <2>4, SiteKept DEF SiteInv
<1>6. HarmOK(s)'
  BY <1>1, <1>2 DEF SiteInv, HarmOK, Single, Hooked
<1>7. ASSUME ~overlap'[s] PROVE (Alone(s) /\ Settled(s) /\ Underway(s) /\ Reached(s))'
  <2>1. /\ \A u \in Thread : ~Installing(u, s)
        /\ Settled(s) /\ Reached(s)
    BY <1>2, <1>7 DEF SiteInv, SiteOK
  <2>2. /\ flag[s] # NULL /\ InTime(s) => Hooked(s, flag[s])
        /\ \A j \in ImplOf(s) : Hooked(s, j) /\ Single(s) =>
             flag[s] = j /\ slot[s] = [impl |-> j, whole |-> TRUE]
    BY <2>1 DEF Settled
  <2>3. Settled(s)'
    BY <1>1, <2>2 DEF Settled, Hooked, Single
  <2>4. Alone(s)'
    BY <1>3, <2>1 DEF Alone, Installing
  <2>5. CASE flag[s] = i
    <3>1. call'[t].pc = "outside"
      BY <1>4, <2>5, OutsideType DEF Leave, CallType
    <3>2. Underway(s)'
      BY <1>3, <2>1, <3>1 DEF Underway, Installing
    <3>3. InTime(s) => Hooked(s, i)
      BY <2>2, <2>5, ImplKnown
    <3>4. Reached(s)'
      <4>0. s # "game" => InTime(s)
        BY DEF InTime
      <4>1. CASE s = "game"
        <5>1. i = Exe
          BY <4>1 DEF ImplOf
        <5>. QED BY <1>1, <3>3, <4>1, <5>1 DEF Reached, Hooked
      <4>2. CASE s # "game"
        <5>1. ASSUME NEW u \in Thread, NEW j \in ImplOf(s), <<s, j>> \in made'[u]
              PROVE  j = i \/ <<s, j>> \in made[u]
          BY <1>4, <2>5, <4>2, <5>1 DEF Leave, GameType
        <5>. QED BY <1>1, <2>1, <3>3, <4>0, <4>2, <5>1 DEF Reached, Hooked
      <4>. QED BY <4>1, <4>2
    <3>. QED BY <2>3, <2>4, <3>2, <3>4
  <2>6. CASE flag[s] # i
    <3>1. call'[t].pc = "set" /\ call'[t].impl = i
      BY <1>4, <2>6 DEF CallType, Outside
    <3>2. InHand(t, s)'
      BY <1>1, <2>2, <2>6, <3>1 DEF InHand, Hooked, Single
    <3>3. Underway(s)'
      BY <1>3, <2>1, <3>2 DEF Underway, Installing
    <3>4. Reached(s)'
      BY <1>1, <1>4, <2>1, <2>6 DEF Reached, Hooked
    <3>. QED BY <2>3, <2>4, <3>3, <3>4
  <2>. QED BY <2>5, <2>6
<1>. QED BY <1>5, <1>6, <1>7 DEF SiteOK

LEMMA CallSite ==
  ASSUME LateInv, SiteInv, NEW t \in Thread, NEW s \in Sites, NEW i \in ImplOf(s),
         Call(t, s, i)
  PROVE  \A r \in Sites : SiteOK(r)' /\ HarmOK(r)'
<1>. USE DEF LateInv
<1>1. /\ call[t].pc = "outside" /\ Overlaps(t, s)
      /\ flag' = flag /\ code' = code /\ slot' = slot
      /\ call' = call /\ made' = made /\ started' = started
  BY DEF Call, siteVars
<1>0. passed' = passed /\ early' = early
  BY DEF Call
<1>2. /\ \A r \in Sites : r # s => overlap'[r] = overlap[r]
      /\ overlap[s] => overlap'[s]
      /\ ~overlap'[s] => \A u \in Thread : ~Installing(u, s)
  BY <1>1, Meeting
<1>3. /\ \A r \in Sites : r # s => harm'[r] = harm[r]
      /\ harm'[s] => harm[s] \/ IF Hooked(s, i) THEN slot[s] # [impl |-> i, whole |-> TRUE]
                                                ELSE s # "game" /\ <<s, i>> \in made[t]
  BY DEF Call, HistoryType, Hooked
<1>4. ASSUME NEW r \in Sites, r # s PROVE SiteOK(r)' /\ HarmOK(r)'
  <2>1. SameSite(r)
    BY <1>0, <1>1, <1>2, <1>3, <1>4 DEF SameSite, InTime, Hooked, Installing
  <2>. QED BY <2>1, SiteKept DEF SiteInv
<1>5. (Alone(s) /\ Settled(s) /\ Underway(s) /\ Reached(s))'
        <=> Alone(s) /\ Settled(s) /\ Underway(s) /\ Reached(s)
  BY <1>0, <1>1 DEF Alone, Settled, Underway, InHand, Reached, InTime, Installing, Hooked, Single
<1>6. SiteOK(s)'
  BY <1>2, <1>5 DEF SiteOK, SiteInv
<1>7. HarmOK(s)'
  <2>1. SUFFICES ASSUME harm'[s], ~overlap'[s], ~passed[s], Single(s) PROVE FALSE
    BY <1>0, <1>1 DEF HarmOK, Single, Hooked
  <2>2. ~harm[s] /\ (\A u \in Thread : ~Installing(u, s)) /\ Settled(s) /\ Reached(s)
    BY <1>2, <2>1 DEF SiteInv, HarmOK, SiteOK
  <2>3. ~Hooked(s, i) /\ s # "game" /\ <<s, i>> \in made[t]
    BY <1>3, <2>1, <2>2 DEF Settled, InTime
  <2>. QED BY <2>1, <2>2, <2>3 DEF Reached, InTime
<1>. QED BY <1>4, <1>6, <1>7

LEMMA PassBySite ==
  ASSUME LateInv, SiteInv, NEW t \in Thread, NEW s \in Sites, NEW i \in ImplOf(s),
         PassBy(t, s, i)
  PROVE  \A r \in Sites : SiteOK(r)' /\ HarmOK(r)'
<1>. USE DEF LateInv
<1>1. /\ call[t].pc = "outside" /\ overlap' = overlap /\ harm' = harm /\ early' = early
      /\ flag' = flag /\ code' = code /\ slot' = slot /\ s # "game"
      /\ Leave(t, s, i) /\ passed' = [passed EXCEPT ![s] = TRUE]
  BY DEF PassBy, NotHooked, siteVars
<1>2. /\ \A u \in Thread : u # t => call'[u] = call[u]
      /\ call'[t].pc = "outside"
  BY <1>1, OutsideType DEF Leave, CallType
<1>3. /\ \A u \in Thread, r \in Sites : Installing(u, r)' <=> Installing(u, r)
      /\ \A u \in Thread, r \in Sites : Installing(u, r) => call'[u] = call[u]
  BY <1>1, <1>2 DEF Installing
<1>4. passed'[s] /\ \A r \in Sites : r # s => passed'[r] = passed[r]
  BY <1>1 DEF HistoryType
<1>5. ASSUME NEW r \in Sites, r # s PROVE SiteOK(r)' /\ HarmOK(r)'
  <2>1. /\ \A u \in Thread, j \in ImplOf(r) : <<r, j>> \in made'[u] => <<r, j>> \in made[u]
        /\ started' = started
    BY <1>1, <1>5 DEF Leave, GameType
  <2>2. SameSite(r)
    BY <1>1, <1>3, <1>4, <1>5, <2>1 DEF SameSite, InTime, Hooked
  <2>. QED BY <2>2, SiteKept DEF SiteInv
<1>6. HarmOK(s)'
  BY <1>4 DEF HarmOK
<1>7. ASSUME ~overlap'[s] PROVE (Alone(s) /\ Settled(s) /\ Underway(s) /\ Reached(s))'
  <2>1. Alone(s) /\ Settled(s) /\ Underway(s)
    BY <1>1, <1>7 DEF SiteInv, SiteOK
  <2>2. Alone(s)'
    BY <1>3, <2>1 DEF Alone
  <2>3. Settled(s)'
    BY <1>1, <1>3, <2>1 DEF Settled, InTime, Hooked, Single
  <2>4. Underway(s)'
    BY <1>1, <1>3, <2>1 DEF Underway, InHand, Hooked, Single
  <2>5. Reached(s)'
    BY <1>1, <1>4 DEF Reached
  <2>. QED BY <2>2, <2>3, <2>4, <2>5
<1>. QED BY <1>5, <1>6, <1>7 DEF SiteOK

LEMMA UnpackSite ==
  ASSUME LateInv, SiteInv, Unpack, NEW s \in Sites
  PROVE  SiteOK(s)' /\ HarmOK(s)'
<1>. USE DEF LateInv
<1>1. \A i \in ImplOf(s) : Hooked(s, i)' <=> Hooked(s, i)
  <2>1. code[<<"game", Exe>>] = "packed"
    BY DEF PackedInv, Unpack
  <2>. QED BY <2>1, TargetOf DEF Unpack, Hooked, SiteType
<1>2. SameSite(s)
  BY <1>1 DEF SameSite, InTime, Unpack, Installing
<1>. QED BY <1>2, SiteKept DEF SiteInv

LEMMA HookedFinite ==
  ASSUME LateInv, Later, IsFiniteSet({x \in Targets : code[x] = "jmp"})
  PROVE  IsFiniteSet({x \in Targets : code'[x] = "jmp"})
<1>. DEFINE S == {x \in Targets : code[x] = "jmp"}
            T == {x \in Targets : code'[x] = "jmp"}
<1>1. \E y \in Targets : \A x \in Targets : x # y => (code'[x] = "jmp" => code[x] = "jmp")
  <2>1. <<"game", Exe>> \in Targets
    BY DEF Targets
  <2>2. CASE code' = code
    BY <2>1, <2>2
  <2>3. CASE Unpack
    BY <2>1, <2>3 DEF Unpack, LateInv, SiteType
  <2>4. ASSUME NEW t \in Thread, InstallHook(t)
        PROVE  \E y \in Targets :
                 \A x \in Targets : x # y => (code'[x] = "jmp" => code[x] = "jmp")
    <3>1. <<call[t].site, call[t].impl>> \in Targets
      BY AtSite DEF LateInv
    <3>2. code' = [code EXCEPT ![<<call[t].site, call[t].impl>>] = "jmp"]
      BY <2>4 DEF InstallHook
    <3>3. \A x \in Targets :
            x # <<call[t].site, call[t].impl>> => (code'[x] = "jmp" => code[x] = "jmp")
      BY <3>2 DEF LateInv, SiteType
    <3>. QED BY <3>1, <3>3
  <2>5. ASSUME NEW t \in Thread, NEW r \in Sites, NEW k \in ImplOf(r),
               Arrive(t, r, k) \/ PassBy(t, r, k) \/ Call(t, r, k)
        PROVE  code' = code
    BY <2>5 DEF Arrive, TestFlag, PassBy, NotHooked, Call, siteVars
  <2>6. ASSUME NEW t \in Thread,
               SetFlag(t) \/ Compare(t) \/ BuildTrampoline(t) \/ StoreOriginal(t)
        PROVE  code' = code
    BY <2>6 DEF SetFlag, Compare, BuildTrampoline, StoreOriginal, siteVars
  <2>. QED BY <2>2, <2>3, <2>4, <2>5, <2>6, Zenon DEF Later
<1>2. PICK y \in Targets : \A x \in Targets : x # y => (code'[x] = "jmp" => code[x] = "jmp")
  BY <1>1
<1>3. T \subseteq S \cup {y}
  BY <1>2
<1>4. IsFiniteSet(S \cup {y})
  <2>. HIDE DEF S
  <2>1. IsFiniteSet(S)
    BY DEF S
  <2>. QED BY <2>1, FS_AddElement
<1>. HIDE DEF S
<1>5. IsFiniteSet(T)
  <2>. HIDE DEF T
  <2>. QED BY <1>3, <1>4, FS_Subset
<1>. QED BY <1>5

LEMMA SiteNext == HookInv /\ SiteInv /\ [Next]_vars => SiteInv'
<1>1. ASSUME HookInv, SiteInv, UNCHANGED lateVars PROVE SiteInv'
  <2>1. ASSUME NEW s \in Sites PROVE SameSite(s)
    BY <1>1 DEF SameSite, InTime, lateVars, siteVars, Hooked, Installing
  <2>2. \A s \in Sites : (SiteOK(s) /\ HarmOK(s))'
    BY <1>1, <2>1, SiteKept DEF SiteInv, HookInv
  <2>3. code' = code
    BY <1>1 DEF lateVars, siteVars
  <2>. QED BY <1>1, <2>2, <2>3 DEF SiteInv
<1>2. ASSUME HookInv, SiteInv, Later PROVE SiteInv'
  <2>1. LateInv
    BY <1>2 DEF HookInv
  <2>2. ASSUME NEW t \in Thread,
               SetFlag(t) \/ Compare(t) \/ BuildTrampoline(t) \/ InstallHook(t)
                 \/ StoreOriginal(t),
               NEW s \in Sites
        PROVE  (SiteOK(s) /\ HarmOK(s))'
    <3>1. CASE s # call[t].site
      BY <1>2, <2>1, <2>2, <3>1, OtherSites, SiteKept DEF SiteInv
    <3>2. CASE s = call[t].site
      BY <1>2, <2>1, <2>2, <3>2, SetFlagSite, CompareSite, BuildSite, InstallSite, StoreSite
    <3>. QED BY <3>1, <3>2
  <2>3. \A s \in Sites : (SiteOK(s) /\ HarmOK(s))'
    BY <1>2, <2>1, <2>2, UnpackSite, ArriveSite, PassBySite, CallSite DEF Later
  <2>4. IsFiniteSet({x \in Targets : code'[x] = "jmp"})
    BY <1>2, <2>1, HookedFinite DEF SiteInv
  <2>. QED BY <2>3, <2>4 DEF SiteInv
<1>3. ASSUME UNCHANGED vars PROVE UNCHANGED lateVars
  BY <1>3 DEF vars, lateVars
<1>. QED BY <1>1, <1>2, <1>3, NextIs, StartupKept

LEMMA SiteInductive == Spec => [](HookInv /\ SiteInv)
<1>1. Init => HookInv /\ SiteInv
  BY HookInit, SiteInit
<1>2. HookInv /\ SiteInv /\ [Next]_vars => (HookInv /\ SiteInv)'
  BY HookNext, SiteNext
<1>. QED BY <1>1, <1>2, PTL DEF Spec

(* A browser's method that is called, or a function of the game, has been    *)
(* hooked with an original of its own behind it, unless two threads were at  *)
(* its installation at once, a browser was handed out unhooked because COM   *)
(* failed, or two implementations share the one slot (patch.c HookFunc,      *)
(* web_browser.c).                                                           *)
THEOREM LateHooksSafeAlone == Spec => []LateHooksNeedOverlap
<1>1. ASSUME HookInv, SiteInv PROVE LateHooksNeedOverlap
  <2>1. SUFFICES ASSUME NEW s \in Sites, harm[s], ~overlap[s], ~passed[s]
                 PROVE  Cardinality({x \in Targets : x[1] = s /\ code[x] = "jmp"}) > 1
    BY DEF LateHooksNeedOverlap
  <2>. DEFINE S == {x \in Targets : x[1] = s /\ code[x] = "jmp"}
  <2>2. PICK i \in ImplOf(s), j \in ImplOf(s) : Hooked(s, i) /\ Hooked(s, j) /\ i # j
    BY <1>1, <2>1 DEF SiteInv, HarmOK, Single
  <2>3. <<s, i>> \in S /\ <<s, j>> \in S /\ <<s, i>> # <<s, j>>
    BY <2>2, TargetOf DEF Hooked
  <2>4. IsFiniteSet(S)
    <3>. DEFINE T == {x \in Targets : code[x] = "jmp"}
    <3>1. S \subseteq T
      OBVIOUS
    <3>2. IsFiniteSet(T)
      BY <1>1 DEF SiteInv
    <3>. HIDE DEF S, T
    <3>. QED BY <3>1, <3>2, FS_Subset
  <2>. HIDE DEF S
  <2>5. Cardinality(S) \in Nat
    BY <2>4, FS_CardinalityType
  <2>6. Cardinality(S) # 0
    BY <2>3, <2>4, FS_EmptySet
  <2>7. Cardinality(S) # 1
    BY <2>3, <2>4, FS_Singleton
  <2>8. Cardinality(S) > 1
    BY <2>5, <2>6, <2>7
  <2>. QED BY <2>8 DEF S
<1>. QED BY <1>1, SiteInductive, PTL

(* A thread past a hook that patches the game finds it patched, unless two   *)
(* threads were there at once or InitCommonControlsEx was called before the  *)
(* game had unpacked itself (oneExec_PatchDynamicAndGG,                      *)
(* isModuleAllocationBase).                                                  *)
THEOREM GamePatchedAtStart == Spec => []StartedGameIsPatched
<1>1. ASSUME HookInv, SiteInv PROVE StartedGameIsPatched
  <2>1. "game" \in Sites
    BY DEF Sites
  <2>. QED BY <1>1, <2>1 DEF StartedGameIsPatched, SiteInv, SiteOK, Reached, InTime, Hooked
<1>. QED BY <1>1, SiteInductive, PTL

-----------------------------------------------------------------------------
(* Start-up: no function is hooked before what its hook uses is there. *)

(* The statics that steps 1 .. k give, and what they may have hooked.       *)
Gives(x) == x.do \in {"get", "set", "hook"}
Installs(x) == x.do \in {"hook", "probe"}
Loads(x) == x.do \in {"load", "try"}
Given(s, k) == {s[i].name : i \in {j \in 1 .. k : Gives(s[j])}}
Installed(s, k) == {s[i].name : i \in {j \in 1 .. k : Installs(s[j])}}

SoundAt(pre, s, k) == \A fn \in Installed(s, k) : Needs(fn) \subseteq pre \cup Given(s, k)
Sound(pre, s) ==
  \A k \in 1 .. Len(s) : Loads(s[k]) \/ k = Len(s) => SoundAt(pre, s, k)

LEMMA InConcat ==
  ASSUME NEW S, NEW a \in Seq(S), NEW b \in Seq(S)
  PROVE  /\ Len(a) \in Nat /\ Len(b) \in Nat /\ Len(a \o b) = Len(a) + Len(b)
         /\ \A i \in 1 .. Len(a) : (a \o b)[i] = a[i]
         /\ \A i \in 1 .. Len(b) : (a \o b)[Len(a) + i] = b[i]
OBVIOUS

LEMMA IsGiven ==
  ASSUME NEW s, NEW k, NEW x
  PROVE  /\ x \in Given(s, k) <=> \E i \in 1 .. k : Gives(s[i]) /\ x = s[i].name
         /\ x \in Installed(s, k) <=> \E i \in 1 .. k : Installs(s[i]) /\ x = s[i].name
BY DEF Given, Installed

LEMMA GivenWithin ==
  ASSUME NEW s, NEW k, NEW T, \A i \in 1 .. k : Gives(s[i]) => s[i].name \in T
  PROVE  Given(s, k) \subseteq T
BY DEF Given

LEMMA InstalledWithin ==
  ASSUME NEW s, NEW k, NEW T, \A i \in 1 .. k : Installs(s[i]) => s[i].name \in T
  PROVE  Installed(s, k) \subseteq T
BY DEF Installed

LEMMA GivenConcat ==
  ASSUME NEW S, NEW a \in Seq(S), NEW b \in Seq(S)
  PROVE  /\ \A k \in 0 .. Len(a) : /\ Given(a \o b, k) = Given(a, k)
                                   /\ Installed(a \o b, k) = Installed(a, k)
         /\ \A k \in 0 .. Len(b) :
              /\ Given(a \o b, Len(a) + k) = Given(a, Len(a)) \cup Given(b, k)
              /\ Installed(a \o b, Len(a) + k) = Installed(a, Len(a)) \cup Installed(b, k)
<1>. DEFINE s == a \o b
<1>1. /\ Len(a) \in Nat /\ Len(b) \in Nat
      /\ \A i \in 1 .. Len(a) : s[i] = a[i]
      /\ \A i \in 1 .. Len(b) : s[Len(a) + i] = b[i]
  BY InConcat
<1>. HIDE DEF s
<1>2. ASSUME NEW k \in 0 .. Len(a)
      PROVE  Given(s, k) = Given(a, k) /\ Installed(s, k) = Installed(a, k)
  <2>1. \A i \in 1 .. k : s[i] = a[i]
    BY <1>1
  <2>. QED BY <2>1 DEF Given, Installed
<1>3. ASSUME NEW k \in 0 .. Len(b)
      PROVE  /\ Given(s, Len(a) + k) = Given(a, Len(a)) \cup Given(b, k)
             /\ Installed(s, Len(a) + k) = Installed(a, Len(a)) \cup Installed(b, k)
  <2>1. \A i \in 1 .. Len(a) : i \in 1 .. Len(a) + k /\ s[i] = a[i]
    BY <1>1
  <2>2. \A i \in 1 .. k : Len(a) + i \in 1 .. Len(a) + k /\ s[Len(a) + i] = b[i]
    BY <1>1
  <2>3. \A i \in 1 .. Len(a) + k :
          i \in 1 .. Len(a) \/ \E j \in 1 .. k : i = Len(a) + j
    <3>. SUFFICES ASSUME NEW i \in 1 .. Len(a) + k, i \notin 1 .. Len(a)
                  PROVE  \E j \in 1 .. k : i = Len(a) + j
      OBVIOUS
    <3>1. i - Len(a) \in 1 .. k /\ i = Len(a) + (i - Len(a))
      BY <1>1
    <3>. QED BY <3>1
  <2>4. PICK n : n = Len(a) + k
    OBVIOUS
  <2>5. PICK m : m = Len(a)
    OBVIOUS
  <2>6. /\ \A i \in 1 .. m : i \in 1 .. n /\ s[i] = a[i]
        /\ \A i \in 1 .. k : m + i \in 1 .. n /\ s[m + i] = b[i]
        /\ \A i \in 1 .. n : i \in 1 .. m \/ \E j \in 1 .. k : i = m + j
    BY <2>1, <2>2, <2>3, <2>4, <2>5
  <2>7. Given(s, n) = Given(a, m) \cup Given(b, k)
    <3>1. ASSUME NEW i \in 1 .. n, Gives(s[i])
          PROVE  s[i].name \in Given(a, m) \cup Given(b, k)
      <4>1. CASE i \in 1 .. m
        <5>1. Gives(a[i]) /\ s[i].name = a[i].name
          BY <2>6, <3>1, <4>1
        <5>. QED BY <4>1, <5>1, IsGiven
      <4>2. ASSUME NEW j \in 1 .. k, i = m + j
            PROVE  s[i].name \in Given(b, k)
        <5>1. Gives(b[j]) /\ s[i].name = b[j].name
          BY <2>6, <3>1, <4>2
        <5>. QED BY <5>1, IsGiven
      <4>. QED BY <2>6, <4>1, <4>2
    <3>2. ASSUME NEW i \in 1 .. m, Gives(a[i])
          PROVE  a[i].name \in Given(s, n)
      <4>1. i \in 1 .. n /\ Gives(s[i]) /\ a[i].name = s[i].name
        BY <2>6, <3>2
      <4>. QED BY <4>1, IsGiven
    <3>3. ASSUME NEW i \in 1 .. k, Gives(b[i])
          PROVE  b[i].name \in Given(s, n)
      <4>1. m + i \in 1 .. n /\ Gives(s[m + i]) /\ b[i].name = s[m + i].name
        BY <2>6, <3>3
      <4>. QED BY <4>1, IsGiven
    <3>4. Given(s, n) \subseteq Given(a, m) \cup Given(b, k)
      BY <3>1, GivenWithin
    <3>5. Given(a, m) \subseteq Given(s, n) /\ Given(b, k) \subseteq Given(s, n)
      BY <3>2, <3>3, GivenWithin
    <3>. QED BY <3>4, <3>5
  <2>8. Installed(s, n) = Installed(a, m) \cup Installed(b, k)
    <3>1. ASSUME NEW i \in 1 .. n, Installs(s[i])
          PROVE  s[i].name \in Installed(a, m) \cup Installed(b, k)
      <4>1. CASE i \in 1 .. m
        <5>1. Installs(a[i]) /\ s[i].name = a[i].name
          BY <2>6, <3>1, <4>1
        <5>. QED BY <4>1, <5>1, IsGiven
      <4>2. ASSUME NEW j \in 1 .. k, i = m + j
            PROVE  s[i].name \in Installed(b, k)
        <5>1. Installs(b[j]) /\ s[i].name = b[j].name
          BY <2>6, <3>1, <4>2
        <5>. QED BY <5>1, IsGiven
      <4>. QED BY <2>6, <4>1, <4>2
    <3>2. ASSUME NEW i \in 1 .. m, Installs(a[i])
          PROVE  a[i].name \in Installed(s, n)
      <4>1. i \in 1 .. n /\ Installs(s[i]) /\ a[i].name = s[i].name
        BY <2>6, <3>2
      <4>. QED BY <4>1, IsGiven
    <3>3. ASSUME NEW i \in 1 .. k, Installs(b[i])
          PROVE  b[i].name \in Installed(s, n)
      <4>1. m + i \in 1 .. n /\ Installs(s[m + i]) /\ b[i].name = s[m + i].name
        BY <2>6, <3>3
      <4>. QED BY <4>1, IsGiven
    <3>4. Installed(s, n) \subseteq Installed(a, m) \cup Installed(b, k)
      BY <3>1, InstalledWithin
    <3>5. Installed(a, m) \subseteq Installed(s, n) /\ Installed(b, k) \subseteq Installed(s, n)
      BY <3>2, <3>3, InstalledWithin
    <3>. QED BY <3>4, <3>5
  <2>. QED BY <2>4, <2>5, <2>7, <2>8
<1>. QED BY <1>2, <1>3 DEF s

LEMMA SoundConcat ==
  ASSUME NEW S, NEW a \in Seq(S), NEW b \in Seq(S), NEW pre,
         Sound(pre, a), Sound(pre \cup Given(a, Len(a)), b)
  PROVE  Sound(pre, a \o b)
<1>. DEFINE s == a \o b
            mid == pre \cup Given(a, Len(a))
<1>1. /\ Len(a) \in Nat /\ Len(b) \in Nat /\ Len(s) = Len(a) + Len(b)
      /\ \A i \in 1 .. Len(a) : s[i] = a[i]
      /\ \A i \in 1 .. Len(b) : s[Len(a) + i] = b[i]
  BY InConcat
<1>2. /\ \A k \in 0 .. Len(a) : Given(s, k) = Given(a, k) /\ Installed(s, k) = Installed(a, k)
      /\ \A k \in 0 .. Len(b) :
           /\ Given(s, Len(a) + k) = Given(a, Len(a)) \cup Given(b, k)
           /\ Installed(s, Len(a) + k) = Installed(a, Len(a)) \cup Installed(b, k)
  BY GivenConcat
<1>3. Sound(mid, b)
  OBVIOUS
<1>4. SoundAt(pre, a, Len(a))
  <2>1. CASE Len(a) = 0
    <3>1. Installed(a, Len(a)) = {}
      BY <2>1 DEF Installed
    <3>. QED BY <3>1 DEF SoundAt
  <2>2. CASE Len(a) # 0
    <3>1. Len(a) \in 1 .. Len(a)
      BY <1>1, <2>2
    <3>. QED BY <3>1 DEF Sound
  <2>. QED BY <2>1, <2>2
<1>. HIDE DEF s, mid
<1>5. ASSUME NEW k \in 1 .. Len(s), Loads(s[k]) \/ k = Len(s)
      PROVE  SoundAt(pre, s, k)
  <2>1. CASE k \in 1 .. Len(a)
    <3>1. Loads(a[k]) \/ k = Len(a)
      BY <1>1, <1>5, <2>1
    <3>2. SoundAt(pre, a, k)
      BY <2>1, <3>1 DEF Sound
    <3>3. k \in 0 .. Len(a)
      BY <2>1
    <3>. QED BY <1>2, <3>2, <3>3 DEF SoundAt
  <2>2. CASE k \notin 1 .. Len(a)
    <3>1. PICK j \in 1 .. Len(b) : k = Len(a) + j
      <4>1. k - Len(a) \in 1 .. Len(b) /\ k = Len(a) + (k - Len(a))
        BY <1>1, <2>2
      <4>. QED BY <4>1
    <3>2. Loads(b[j]) \/ j = Len(b)
      BY <1>1, <1>5, <3>1
    <3>3. SoundAt(mid, b, j)
      BY <1>3, <3>2 DEF Sound
    <3>4. j \in 0 .. Len(b)
      OBVIOUS
    <3>5. /\ Given(s, k) = Given(a, Len(a)) \cup Given(b, j)
          /\ Installed(s, k) = Installed(a, Len(a)) \cup Installed(b, j)
      BY <1>2, <3>1, <3>4
    <3>. QED BY <1>4, <3>3, <3>5, Zenon DEF SoundAt, mid
  <2>. QED BY <2>1, <2>2
<1>. QED BY <1>5 DEF Sound, s

LEMMA SoundMore ==
  ASSUME NEW s, NEW pre, NEW more, Sound(pre, s), pre \subseteq more
  PROVE  Sound(more, s)
BY DEF Sound, SoundAt

(* The shape of an Init function: it hooks after its last load, or hooks    *)
(* what needs nothing.                                                      *)
Block(pre, s) ==
  \A i \in 1 .. Len(s) : Installs(s[i]) =>
    \/ Needs(s[i].name) = {}
    \/ /\ Needs(s[i].name) \subseteq pre \cup Given(s, Len(s))
       /\ \A k \in i .. Len(s) : ~Loads(s[k])

LEMMA BlockSound ==
  ASSUME NEW S, NEW s \in Seq(S), NEW pre, Block(pre, s)
  PROVE  Sound(pre, s)
<1>. SUFFICES ASSUME NEW k \in 1 .. Len(s), Loads(s[k]) \/ k = Len(s),
                     NEW i \in 1 .. k, Installs(s[i])
              PROVE  Needs(s[i].name) \subseteq pre \cup Given(s, k)
  BY DEF Sound, SoundAt, Installed
<1>1. Len(s) \in Nat
  OBVIOUS
<1>2. i \in 1 .. Len(s) /\ k \in i .. Len(s)
  BY <1>1
<1>3. CASE Needs(s[i].name) = {}
  BY <1>3
<1>4. CASE Needs(s[i].name) # {}
  BY <1>2, <1>4 DEF Block
<1>. QED BY <1>3, <1>4

(* What the hooks use: Needs, without the names it does not know. *)
LEMMA HooksRange == ToSet(WinINetHooks) \subseteq
  {"InternetOpenUrlA", "InternetConnectA", "HttpOpenRequestA", "HttpSendRequestA",
   "HttpEndRequestA", "HttpAddRequestHeadersA", "HttpQueryInfoA", "HttpSendRequestExA",
   "InternetCloseHandle", "InternetQueryDataAvailable", "InternetWriteFile",
   "InternetReadFile"}
<1>. DEFINE S == {"InternetOpenUrlA", "InternetConnectA", "HttpOpenRequestA",
         "HttpSendRequestA", "HttpEndRequestA", "HttpAddRequestHeadersA", "HttpQueryInfoA",
         "HttpSendRequestExA", "InternetCloseHandle", "InternetQueryDataAvailable",
         "InternetWriteFile", "InternetReadFile"}
<1>1. WinINetHooks \in Seq(S)
  BY DEF WinINetHooks
<1>. HIDE DEF S
<1>2. \A i \in DOMAIN WinINetHooks : WinINetHooks[i] \in S
  BY <1>1
<1>3. ToSet(WinINetHooks) \subseteq S
  BY <1>2 DEF ToSet
<1>. QED BY <1>3 DEF S

LEMMA NeedsOfWinINet ==
  ASSUME NEW fn \in ToSet(WinINetHooks)
  PROVE  Needs(fn) = {"Config", "g_inet_ctx"} \cup ToSet(WinINetProcs) \cup ToSet(WinINetHooks)
<1>1. /\ fn \notin {"CreateProcessA", "GetExitCodeProcess"}
      /\ fn \notin {"connect", "InitCommonControlsEx", "GetStartupInfoA", "GetStartupInfoW"}
      /\ fn \notin {"CoGetClassObject", "CoCreateInstance"}
      /\ fn \notin {"msvcr71 _stricmp", "msvcr100 _stricmp"}
  BY HooksRange
<1>. QED BY <1>1, Zenon DEF Needs

LEMMA NeedsOf ==
  /\ Needs("CreateProcessA") = {"CreateProcessA", "GameguardFakeHandle"}
  /\ Needs("GetExitCodeProcess") = {"GetExitCodeProcess", "GameguardFakeHandle"}
  /\ Needs("connect") = {"connect", "Config"}
  /\ Needs("InitCommonControlsEx") = {"InitCommonControlsEx", "Config"}
  /\ Needs("GetStartupInfoA") = {"GetStartupInfoA", "Config"}
  /\ Needs("GetStartupInfoW") = {"GetStartupInfoW", "Config"}
  /\ Needs("CoGetClassObject") = {"CoGetClassObject", "Config"} \cup ToSet(StrProcs)
  /\ Needs("CoCreateInstance") = {"CoCreateInstance", "Config"} \cup ToSet(StrProcs)
  /\ Needs("CreateWindowExA") = {"CreateWindowExA"}
  /\ Needs("msvcr71 _stricmp") = {} /\ Needs("msvcr100 _stricmp") = {}
<1>. DEFINE Known == {"CreateProcessA", "GetExitCodeProcess", "connect",
         "InitCommonControlsEx", "GetStartupInfoA", "GetStartupInfoW", "CoGetClassObject",
         "CoCreateInstance", "CreateWindowExA", "msvcr71 _stricmp", "msvcr100 _stricmp"}
<1>1. \A fn \in Known : fn \notin ToSet(WinINetHooks)
  BY HooksRange
<1>2. ASSUME NEW fn \in {"CreateProcessA", "GetExitCodeProcess"}
      PROVE  Needs(fn) = {fn, "GameguardFakeHandle"}
  BY <1>1 DEF Needs
<1>3. ASSUME NEW fn \in {"connect", "InitCommonControlsEx", "GetStartupInfoA",
                         "GetStartupInfoW"}
      PROVE  Needs(fn) = {fn, "Config"}
  BY <1>1 DEF Needs
<1>4. ASSUME NEW fn \in {"CoGetClassObject", "CoCreateInstance"}
      PROVE  Needs(fn) = {fn, "Config"} \cup ToSet(StrProcs)
  BY <1>1 DEF Needs
<1>5. ASSUME NEW fn \in {"msvcr71 _stricmp", "msvcr100 _stricmp"}
      PROVE  Needs(fn) = {}
  BY <1>1 DEF Needs
<1>6. Needs("CreateWindowExA") = {"CreateWindowExA"}
  BY <1>1 DEF Needs
<1>. QED BY <1>2, <1>3, <1>4, <1>5, <1>6

LEMMA StepKinds ==
  ASSUME NEW n
  PROVE  /\ Loads(Load(n)) /\ ~Gives(Load(n)) /\ ~Installs(Load(n))
         /\ Loads(LoadOptional(n)) /\ ~Gives(LoadOptional(n)) /\ ~Installs(LoadOptional(n))
         /\ ~Loads(Get(n)) /\ Gives(Get(n)) /\ ~Installs(Get(n)) /\ Get(n).name = n
         /\ ~Loads(Set(n)) /\ Gives(Set(n)) /\ ~Installs(Set(n)) /\ Set(n).name = n
         /\ ~Loads(Hook(n)) /\ Gives(Hook(n)) /\ Installs(Hook(n)) /\ Hook(n).name = n
         /\ ~Loads(Probe(n)) /\ ~Gives(Probe(n)) /\ Installs(Probe(n)) /\ Probe(n).name = n
BY DEF Loads, Gives, Installs, Load, LoadOptional, Get, Set, Hook, Probe

(* Steps that hook nothing. *)
LEMMA QuietSound ==
  ASSUME NEW S, NEW s \in Seq(S), NEW pre, \A i \in 1 .. Len(s) : ~Installs(s[i])
  PROVE  Sound(pre, s)
<1>1. Block(pre, s)
  BY DEF Block
<1>. QED BY <1>1, BlockSound

(* The steps that a table of functions gives. *)
LEMMA TableGives ==
  ASSUME NEW S, NEW s \in Seq(S), NEW pre
  PROVE  LET gets == [i \in DOMAIN s |-> Get(s[i])]
             hooks == [i \in DOMAIN s |-> Hook(s[i])]
         IN  /\ Given(gets, Len(gets)) = ToSet(s)
             /\ Sound(pre, gets)
             /\ (\A fn \in ToSet(s) : Needs(fn) \subseteq pre \cup ToSet(s)) => Sound(pre, hooks)
<1>. DEFINE gets == [i \in DOMAIN s |-> Get(s[i])]
            hooks == [i \in DOMAIN s |-> Hook(s[i])]
            G == {Get(x) : x \in S}
            H == {Hook(x) : x \in S}
<1>1. DOMAIN s = 1 .. Len(s) /\ Len(s) \in Nat
  OBVIOUS
<1>2. gets \in Seq(G) /\ Len(gets) = Len(s) /\ hooks \in Seq(H) /\ Len(hooks) = Len(s)
  BY <1>1
<1>3. \A i \in 1 .. Len(s) : gets[i] = Get(s[i]) /\ hooks[i] = Hook(s[i])
  BY <1>1
<1>. HIDE DEF gets, hooks, G, H
<1>4. /\ \A i \in 1 .. Len(s) : Gives(gets[i]) /\ ~Installs(gets[i]) /\ gets[i].name = s[i]
      /\ \A i \in 1 .. Len(s) : Gives(hooks[i]) /\ ~Loads(hooks[i]) /\ hooks[i].name = s[i]
  BY <1>3, StepKinds
<1>5. Given(gets, Len(gets)) = ToSet(s) /\ Given(hooks, Len(hooks)) = ToSet(s)
  BY <1>1, <1>2, <1>4 DEF Given, ToSet
<1>6. Sound(pre, gets)
  BY <1>2, <1>4, QuietSound
<1>7. ASSUME \A fn \in ToSet(s) : Needs(fn) \subseteq pre \cup ToSet(s)
      PROVE  Sound(pre, hooks)
  <2>1. \A i \in 1 .. Len(s) : s[i] \in ToSet(s)
    BY <1>1 DEF ToSet
  <2>2. \A i \in 1 .. Len(hooks) : \A k \in i .. Len(hooks) : ~Loads(hooks[k])
    BY <1>1, <1>2, <1>4
  <2>3. Block(pre, hooks)
    BY <1>2, <1>4, <1>5, <1>7, <2>1, <2>2 DEF Block
  <2>. QED BY <1>2, <2>3, BlockSound
<1>. QED BY <1>5, <1>6, <1>7 DEF gets, hooks

(* Every Init function but msvcr's hooks what it hooks in its last steps.   *)
LEMMA HooksLast ==
  ASSUME NEW s \in Seq(GoodStep), NEW pre, NEW m \in Nat,
         \A i \in 1 .. m : ~Installs(s[i]),
         \A i \in m + 1 .. Len(s) : s[i] = Hook(s[i].name)
                                      /\ Needs(s[i].name) \subseteq pre \cup Given(s, Len(s))
  PROVE  Sound(pre, s)
<1>1. Len(s) \in Nat
  OBVIOUS
<1>2. \A i \in m + 1 .. Len(s) : ~Loads(s[i])
  BY StepKinds
<1>3. Block(pre, s)
  <2>. SUFFICES ASSUME NEW i \in 1 .. Len(s), Installs(s[i])
                PROVE  /\ Needs(s[i].name) \subseteq pre \cup Given(s, Len(s))
                       /\ \A k \in i .. Len(s) : ~Loads(s[k])
    BY DEF Block
  <2>1. i \in m + 1 .. Len(s)
    BY <1>1
  <2>2. \A k \in i .. Len(s) : k \in m + 1 .. Len(s)
    BY <1>1, <2>1
  <2>. QED BY <1>2, <2>1, <2>2
<1>. QED BY <1>3, BlockSound

(* What an Init function may count on. *)
Pre == {"Config"}

LEMMA InjectSound == Sound(Pre, InitInjectHook)
<1>. DEFINE s == InitInjectHook
<1>1. /\ s[1] = Load("kernel32") /\ s[2] = Get("CreateMutexA")
      /\ s[3] = Set("GameguardFakeHandle") /\ s[4] = Hook("CreateProcessA")
      /\ s[5] = Hook("GetExitCodeProcess") /\ Len(s) = 5
  BY DEF InitInjectHook
<1>2. s \in Seq(GoodStep)
  BY SingleSteps, GoodSteps DEF InitInjectHook, Singles, Libraries
<1>. HIDE DEF s
<1>3. /\ \A i \in 1 .. 3 : i = 1 \/ i = 2 \/ i = 3
      /\ \A i \in 3 + 1 .. 5 : i = 4 \/ i = 5
  OBVIOUS
<1>4. \A i \in 1 .. 3 : ~Installs(s[i])
  BY <1>1, <1>3, StepKinds
<1>5. s[4].name = "CreateProcessA" /\ s[5].name = "GetExitCodeProcess"
  BY <1>1, StepKinds
<1>6. {"GameguardFakeHandle", "CreateProcessA", "GetExitCodeProcess"} \subseteq Given(s, Len(s))
  BY <1>1, StepKinds, IsGiven
<1>7. /\ Needs(s[4].name) \subseteq Given(s, Len(s))
      /\ Needs(s[5].name) \subseteq Given(s, Len(s))
  BY <1>5, <1>6, NeedsOf
<1>8. \A i \in 3 + 1 .. Len(s) : s[i] = Hook(s[i].name)
                                  /\ Needs(s[i].name) \subseteq Pre \cup Given(s, Len(s))
  BY <1>1, <1>3, <1>5, <1>7
<1>. QED BY <1>2, <1>4, <1>8, HooksLast DEF s

LEMMA ComCtl32Sound == Sound(Pre, InitComCtl32Hook)
<1>. DEFINE s == InitComCtl32Hook
<1>1. /\ s[1] = Load("comctl32") /\ s[2] = Load("kernel32")
      /\ s[3] = Hook("InitCommonControlsEx") /\ s[4] = Hook("GetStartupInfoA")
      /\ s[5] = Hook("GetStartupInfoW") /\ Len(s) = 5
  BY DEF InitComCtl32Hook
<1>2. s \in Seq(GoodStep)
  BY SingleSteps, GoodSteps DEF InitComCtl32Hook, Singles, Libraries
<1>. HIDE DEF s
<1>3. /\ \A i \in 1 .. 2 : i = 1 \/ i = 2
      /\ \A i \in 2 + 1 .. 5 : i = 3 \/ i = 4 \/ i = 5
  OBVIOUS
<1>4. \A i \in 1 .. 2 : ~Installs(s[i])
  BY <1>1, <1>3, StepKinds
<1>5. /\ s[3].name = "InitCommonControlsEx" /\ s[4].name = "GetStartupInfoA"
      /\ s[5].name = "GetStartupInfoW"
  BY <1>1, StepKinds
<1>6. {"InitCommonControlsEx", "GetStartupInfoA", "GetStartupInfoW"} \subseteq Given(s, Len(s))
  BY <1>1, StepKinds, IsGiven
<1>7. /\ Needs(s[3].name) \subseteq Pre \cup Given(s, Len(s))
      /\ Needs(s[4].name) \subseteq Pre \cup Given(s, Len(s))
      /\ Needs(s[5].name) \subseteq Pre \cup Given(s, Len(s))
  BY <1>5, <1>6, NeedsOf DEF Pre
<1>8. \A i \in 2 + 1 .. Len(s) : s[i] = Hook(s[i].name)
                                  /\ Needs(s[i].name) \subseteq Pre \cup Given(s, Len(s))
  BY <1>1, <1>3, <1>5, <1>7
<1>. QED BY <1>2, <1>4, <1>8, HooksLast DEF s

(* A library is loaded and one function of it hooked. *)
LEMMA LoadAndHook ==
  ASSUME NEW lib \in Libraries, NEW fn \in Singles, Needs(fn) \subseteq {fn, "Config"}
  PROVE  Sound(Pre, <<Load(lib), Hook(fn)>>)
<1>. DEFINE s == <<Load(lib), Hook(fn)>>
<1>1. s[1] = Load(lib) /\ s[2] = Hook(fn) /\ Len(s) = 2
  OBVIOUS
<1>2. s \in Seq(GoodStep)
  BY SingleSteps, GoodSteps
<1>. HIDE DEF s
<1>3. \A i \in 1 .. 1 : ~Installs(s[i])
  BY <1>1, StepKinds
<1>4. s[2].name = fn
  BY <1>1, StepKinds
<1>5. fn \in Given(s, Len(s))
  BY <1>1, <1>4, StepKinds, IsGiven
<1>6. Needs(fn) \subseteq Pre \cup Given(s, Len(s))
  BY <1>5 DEF Pre
<1>7. \A i \in 1 + 1 .. Len(s) : i = 2
  BY <1>1
<1>8. \A i \in 1 + 1 .. Len(s) : s[i] = Hook(s[i].name)
                                  /\ Needs(s[i].name) \subseteq Pre \cup Given(s, Len(s))
  BY <1>1, <1>4, <1>6, <1>7
<1>. QED BY <1>2, <1>3, <1>8, HooksLast DEF s

LEMMA WindowSound == Sound(Pre, InitWindowHook)
<1>1. "user32" \in Libraries /\ "CreateWindowExA" \in Singles
  BY DEF Libraries, Singles
<1>. QED BY <1>1, NeedsOf, LoadAndHook DEF InitWindowHook

LEMMA RedirSound == Sound(Pre, InitRedirHook)
<1>1. "ws2_32" \in Libraries /\ "connect" \in Singles
  BY DEF Libraries, Singles
<1>. QED BY <1>1, NeedsOf, LoadAndHook DEF InitRedirHook

(* What msvcr's hook replaces it never calls. *)
LEMMA MsvcrSound == Sound(Pre, InitMsvcrHook)
<1>. DEFINE s == InitMsvcrHook
<1>1. /\ s[1] = Load("msvcr71") /\ s[2] = Get("_stricmp") /\ s[3] = Get("setlocale")
      /\ s[4] = Probe("msvcr71 _stricmp")
      /\ s[5] = Load("msvcr100") /\ s[6] = Get("_stricmp") /\ s[7] = Get("setlocale")
      /\ s[8] = Probe("msvcr100 _stricmp") /\ Len(s) = 8
  BY DEF InitMsvcrHook
<1>2. s \in Seq(GoodStep)
  BY SingleSteps, GoodSteps, EightInSeq, Zenon DEF InitMsvcrHook, Singles, Libraries, Probes
<1>. HIDE DEF s
<1>3. Needs(s[4].name) = {} /\ Needs(s[8].name) = {}
  BY <1>1, StepKinds, NeedsOf
<1>4. /\ ~Installs(s[1]) /\ ~Installs(s[2]) /\ ~Installs(s[3])
      /\ ~Installs(s[5]) /\ ~Installs(s[6]) /\ ~Installs(s[7])
  <2>1. \A n : ~Installs(Load(n)) /\ ~Installs(Get(n))
    BY StepKinds
  <2>. QED BY <1>1, <2>1
<1>5. \A i \in 1 .. 8 : i = 1 \/ i = 2 \/ i = 3 \/ i = 4 \/ i = 5 \/ i = 6 \/ i = 7 \/ i = 8
  OBVIOUS
<1>6. \A i \in 1 .. 8 : Installs(s[i]) => Needs(s[i].name) = {}
  BY <1>3, <1>4, <1>5
<1>7. Block(Pre, s)
  BY <1>1, <1>6 DEF Block
<1>. QED BY <1>2, <1>7, BlockSound DEF s

LEMMA NetRedirSound == Sound(Pre, InitNetRedirHook)
<1>. DEFINE a == <<Set("g_inet_ctx"), Load("wininet")>>
            b == [i \in DOMAIN WinINetProcs |-> Get(WinINetProcs[i])]
            c == [i \in DOMAIN WinINetHooks |-> Hook(WinINetHooks[i])]
            p == Pre \cup Given(a, Len(a))
            q == Pre \cup Given(a \o b, Len(a \o b))
<1>1. a[1] = Set("g_inet_ctx") /\ a[2] = Load("wininet") /\ Len(a) = 2
  OBVIOUS
<1>2. a \in Seq(GoodStep)
  BY SingleSteps, GoodSteps DEF Singles, Libraries
<1>3. b \in Seq(GoodStep) /\ c \in Seq(GoodStep)
  BY TableSteps, ProcType
<1>4. /\ Given(b, Len(b)) = ToSet(WinINetProcs) /\ Sound(p, b)
      /\ (\A fn \in ToSet(WinINetHooks) : Needs(fn) \subseteq q \cup ToSet(WinINetHooks))
           => Sound(q, c)
  BY ProcType, TableGives
<1>5. InitNetRedirHook = (a \o b) \o c
  BY <1>2, <1>3 DEF InitNetRedirHook
<1>. HIDE DEF a, b, c
<1>6. "g_inet_ctx" \in Given(a, Len(a))
  BY <1>1, StepKinds, IsGiven
<1>7. \A i \in 1 .. Len(a) : ~Installs(a[i])
  <2>1. \A i \in 1 .. Len(a) : i = 1 \/ i = 2
    BY <1>1
  <2>. QED BY <1>1, <2>1, StepKinds
<1>8. Sound(Pre, a)
  BY <1>2, <1>7, QuietSound
<1>9. Sound(Pre, a \o b) /\ a \o b \in Seq(GoodStep)
  BY <1>2, <1>3, <1>4, <1>8, SoundConcat
<1>10. Given(a \o b, Len(a \o b)) = Given(a, Len(a)) \cup Given(b, Len(b))
  <2>1. Len(b) \in 0 .. Len(b) /\ Len(a \o b) = Len(a) + Len(b)
    BY <1>2, <1>3
  <2>. QED BY <1>2, <1>3, <2>1, GivenConcat
<1>11. {"Config", "g_inet_ctx"} \cup ToSet(WinINetProcs) \subseteq q
  BY <1>4, <1>6, <1>10 DEF Pre
<1>. HIDE DEF p, q
<1>12. \A fn \in ToSet(WinINetHooks) : Needs(fn) \subseteq q \cup ToSet(WinINetHooks)
  BY <1>11, NeedsOfWinINet
<1>13. Sound(q, c)
  BY <1>4, <1>12
<1>. QED BY <1>3, <1>5, <1>9, <1>13, SoundConcat DEF q

LEMMA WebBrowserSound == Sound(Pre, InitWebBrowserHook)
<1>. DEFINE a == <<Load("ole32"), Load("oleaut32")>>
            b == [i \in DOMAIN StrProcs |-> Get(StrProcs[i])]
            c == <<Hook("CoGetClassObject"), Hook("CoCreateInstance")>>
            p == Pre \cup Given(a, Len(a))
            q == Pre \cup Given(a \o b, Len(a \o b))
<1>1. /\ a[1] = Load("ole32") /\ a[2] = Load("oleaut32") /\ Len(a) = 2
      /\ c[1] = Hook("CoGetClassObject") /\ c[2] = Hook("CoCreateInstance") /\ Len(c) = 2
  OBVIOUS
<1>2. a \in Seq(GoodStep) /\ c \in Seq(GoodStep)
  BY SingleSteps, GoodSteps DEF Singles, Libraries
<1>3. b \in Seq(GoodStep)
  BY TableSteps, ProcType
<1>4. Given(b, Len(b)) = ToSet(StrProcs) /\ Sound(p, b)
  BY ProcType, TableGives
<1>5. InitWebBrowserHook = (a \o b) \o c
  BY <1>2, <1>3 DEF InitWebBrowserHook
<1>. HIDE DEF a, b, c
<1>6. \A i \in 1 .. Len(a) : ~Installs(a[i])
  <2>1. \A i \in 1 .. Len(a) : i = 1 \/ i = 2
    BY <1>1
  <2>. QED BY <1>1, <2>1, StepKinds
<1>7. Sound(Pre, a)
  BY <1>2, <1>6, QuietSound
<1>8. Sound(Pre, a \o b) /\ a \o b \in Seq(GoodStep)
  BY <1>2, <1>3, <1>4, <1>7, SoundConcat
<1>9. Given(a \o b, Len(a \o b)) = Given(a, Len(a)) \cup Given(b, Len(b))
  <2>1. Len(b) \in 0 .. Len(b) /\ Len(a \o b) = Len(a) + Len(b)
    BY <1>2, <1>3
  <2>. QED BY <1>2, <1>3, <2>1, GivenConcat
<1>10. {"Config"} \cup ToSet(StrProcs) \subseteq q
  BY <1>4, <1>9 DEF Pre
<1>. HIDE DEF p, q
<1>11. c[1].name = "CoGetClassObject" /\ c[2].name = "CoCreateInstance"
  BY <1>1, StepKinds
<1>12. {"CoGetClassObject", "CoCreateInstance"} \subseteq Given(c, Len(c))
  BY <1>1, <1>11, StepKinds, IsGiven
<1>13. /\ Needs(c[1].name) \subseteq q \cup Given(c, Len(c))
       /\ Needs(c[2].name) \subseteq q \cup Given(c, Len(c))
  BY <1>10, <1>11, <1>12, NeedsOf
<1>14. \A i \in 0 + 1 .. Len(c) : i = 1 \/ i = 2
  BY <1>1
<1>15. \A i \in 0 + 1 .. Len(c) : c[i] = Hook(c[i].name)
                                   /\ Needs(c[i].name) \subseteq q \cup Given(c, Len(c))
  BY <1>1, <1>11, <1>13, <1>14
<1>16. Sound(q, c)
  <2>1. \A i \in 1 .. 0 : ~Installs(c[i])
    OBVIOUS
  <2>. QED BY <1>2, <1>15, <2>1, HooksLast
<1>. QED BY <1>2, <1>5, <1>8, <1>16, SoundConcat DEF q

(* One Init function after another. *)
LEMMA SoundTogether ==
  ASSUME NEW a \in Seq(GoodStep), NEW b \in Seq(GoodStep), Sound(Pre, a), Sound(Pre, b)
  PROVE  a \o b \in Seq(GoodStep) /\ Sound(Pre, a \o b)
<1>1. Sound(Pre \cup Given(a, Len(a)), b)
  BY SoundMore
<1>. QED BY <1>1, SoundConcat

LEMMA DllMainSound == Sound({}, DllMain)
<1>1. \A n : \A pre : /\ Sound(pre, <<LoadOptional(n)>>)
                      /\ Sound(pre, <<Set(n)>>)
  <2>1. ASSUME NEW n, NEW pre, NEW x, ~Installs(x) PROVE Sound(pre, <<x>>)
    <3>1. <<x>> \in Seq({x}) /\ Len(<<x>>) = 1 /\ <<x>>[1] = x
      OBVIOUS
    <3>2. \A i \in 1 .. Len(<<x>>) : ~Installs(<<x>>[i])
      BY <2>1, <3>1
    <3>. QED BY <3>1, <3>2, QuietSound
  <2>. QED BY <2>1, StepKinds
<1>2. InitHooks \in Seq(GoodStep) /\ Sound(Pre, InitHooks)
  <2>. DEFINE a == <<LoadOptional("webview2_overlay")>>
              b == a \o InitInjectHook
              c == b \o InitMsvcrHook
              d == c \o InitWindowHook
              e == d \o InitNetRedirHook
              f == e \o InitRedirHook
              g == f \o InitComCtl32Hook
              h == g \o InitWebBrowserHook
  <2>1. a \in Seq(GoodStep) /\ Sound(Pre, a)
    BY <1>1, InitTypes
  <2>. HIDE DEF a
  <2>2. b \in Seq(GoodStep) /\ Sound(Pre, b)
    BY <2>1, InitTypes, InjectSound, SoundTogether
  <2>. HIDE DEF b
  <2>3. c \in Seq(GoodStep) /\ Sound(Pre, c)
    BY <2>2, InitTypes, MsvcrSound, SoundTogether
  <2>. HIDE DEF c
  <2>4. d \in Seq(GoodStep) /\ Sound(Pre, d)
    BY <2>3, InitTypes, WindowSound, SoundTogether
  <2>. HIDE DEF d
  <2>5. e \in Seq(GoodStep) /\ Sound(Pre, e)
    BY <2>4, InitTypes, NetRedirSound, SoundTogether
  <2>. HIDE DEF e
  <2>6. f \in Seq(GoodStep) /\ Sound(Pre, f)
    BY <2>5, InitTypes, RedirSound, SoundTogether
  <2>. HIDE DEF f
  <2>7. g \in Seq(GoodStep) /\ Sound(Pre, g)
    BY <2>6, InitTypes, ComCtl32Sound, SoundTogether
  <2>. HIDE DEF g
  <2>8. h \in Seq(GoodStep) /\ Sound(Pre, h)
    BY <2>7, InitTypes, WebBrowserSound, SoundTogether
  <2>9. InitHooks = h
    BY DEF InitHooks, a, b, c, d, e, f, g
  <2>. HIDE DEF h
  <2>. QED BY <2>8, <2>9
<1>3. <<Set("AntiCheat")>> \in Seq(GoodStep) /\ InitEnvironment \in Seq(GoodStep)
  BY SingleSteps DEF Singles, InitEnvironment
<1>4. Given(InitEnvironment, Len(InitEnvironment)) = Pre
  <2>1. \A i \in 1 .. Len(InitEnvironment) : i = 1
    BY DEF InitEnvironment
  <2>2. InitEnvironment[1] = Set("Config") /\ Len(InitEnvironment) = 1
    BY DEF InitEnvironment
  <2>. QED BY <2>1, <2>2, StepKinds DEF Given, Pre
<1>5. Sound({}, InitEnvironment)
  BY <1>1 DEF InitEnvironment
<1>6. InitEnvironment \o InitHooks \in Seq(GoodStep) /\ Sound({}, InitEnvironment \o InitHooks)
  <2>1. Sound({} \cup Given(InitEnvironment, Len(InitEnvironment)), InitHooks)
    BY <1>2, <1>4
  <2>. QED BY <1>2, <1>3, <1>5, <2>1, SoundConcat
<1>. QED BY <1>1, <1>3, <1>6, SoundConcat DEF DllMain

(* How far start-up has come: the statics and the hooks are those of the    *)
(* steps taken, and an initialiser runs only after a step that loads.       *)
StartInv ==
  /\ ready = Given(DllMain, step - 1)
  /\ hooked \subseteq Installed(DllMain, step - 1)
  /\ loading => step > 1 /\ Loads(DllMain[step - 1])

LEMMA StartInit == Init => StartInv
<1>. SUFFICES ASSUME Init PROVE StartInv
  OBVIOUS
<1>1. step - 1 = 0 /\ ready = {} /\ hooked = {} /\ loading = FALSE
  BY DEF Init
<1>2. Given(DllMain, 0) = {}
  BY DEF Given
<1>. QED BY <1>1, <1>2 DEF StartInv

LEMMA GivenStep ==
  ASSUME NEW s, NEW k \in Nat \ {0}
  PROVE  /\ Given(s, k) = IF Gives(s[k]) THEN Given(s, k - 1) \cup {s[k].name}
                                         ELSE Given(s, k - 1)
         /\ Installed(s, k) = IF Installs(s[k]) THEN Installed(s, k - 1) \cup {s[k].name}
                                                ELSE Installed(s, k - 1)
<1>1. 1 .. k = (1 .. k - 1) \cup {k}
  OBVIOUS
<1>. QED BY <1>1 DEF Given, Installed

LEMMA StartNext == HookInv /\ StartInv /\ [Next]_vars => StartInv'
<1>1. ASSUME UNCHANGED startVars, StartInv PROVE StartInv'
  BY <1>1 DEF StartInv, startVars
<1>2. ASSUME HookInv, StartInv, StartupStep PROVE StartInv'
  <2>1. step \in 1 .. Len(DllMain) /\ Len(DllMain) \in Nat
    BY <1>2, DllMainType DEF StartupStep, Running, HookInv, StartupType
  <2>2. step' = step + 1 /\ step' - 1 = step /\ step \in Nat \ {0}
    BY <1>2, <2>1 DEF StartupStep
  <2>3. ready' = Given(DllMain, step)
    BY <1>2, <2>2, GivenStep DEF StartupStep, StartInv, Gives
  <2>4. hooked' \subseteq Installed(DllMain, step)
    <3>1. \/ Installs(DllMain[step]) /\ hooked' \subseteq hooked \cup {DllMain[step].name}
          \/ hooked' \subseteq hooked
      BY <1>2 DEF StartupStep, Installs
    <3>2. hooked \subseteq Installed(DllMain, step - 1)
      BY <1>2 DEF StartInv
    <3>3. /\ Installed(DllMain, step - 1) \subseteq Installed(DllMain, step)
          /\ Installs(DllMain[step]) => DllMain[step].name \in Installed(DllMain, step)
      BY <2>2, GivenStep
    <3>. QED BY <3>1, <3>2, <3>3
  <2>5. loading' => Loads(DllMain[step])
    BY <1>2, Zenon DEF StartupStep, Loads
  <2>. QED BY <2>2, <2>3, <2>4, <2>5 DEF StartInv
<1>3. ASSUME StartInv, InitialiserReturns PROVE StartInv'
  BY <1>3 DEF StartInv, InitialiserReturns
<1>4. ASSUME Later PROVE UNCHANGED startVars
  BY <1>4, StartupLeft
<1>5. ASSUME StartupFails \/ UNCHANGED vars PROVE UNCHANGED startVars
  BY <1>5 DEF StartupFails, vars
<1>. QED BY <1>1, <1>2, <1>3, <1>4, <1>5, NextIs DEF Startup

(* Whenever code other than rugburn's can run during start-up or after it,  *)
(* every function that is hooked finds the statics its hook uses: each Init *)
(* function of DllMain hooks after its last load and after what it needs.   *)
THEOREM AlwaysReadyWhenReachable == Spec => []ReadyWhenReachable
<1>1. ASSUME HookInv, StartInv PROVE ReadyWhenReachable
  <2>1. SUFFICES ASSUME loading \/ Running, NEW fn \in hooked
                 PROVE  Needs(fn) \subseteq ready
    BY DEF ReadyWhenReachable
  <2>2. step \in 1 .. Len(DllMain) + 1 /\ Len(DllMain) \in Nat
    BY <1>1, DllMainType DEF HookInv, StartupType
  <2>3. PICK k : k = step - 1
    OBVIOUS
  <2>4. /\ ready = Given(DllMain, k) /\ fn \in Installed(DllMain, k)
        /\ loading => Loads(DllMain[k])
    BY <1>1, <2>1, <2>3 DEF StartInv
  <2>5. k \in 1 .. Len(DllMain)
    <3>1. k # 0
      BY <2>4 DEF Installed
    <3>. QED BY <2>2, <2>3, <3>1
  <2>6. Loads(DllMain[k]) \/ k = Len(DllMain)
    BY <2>1, <2>2, <2>3, <2>4 DEF Running
  <2>7. SoundAt({}, DllMain, k)
    BY <2>5, <2>6, DllMainSound DEF Sound
  <2>. QED BY <2>4, <2>7 DEF SoundAt
<1>2. Init => HookInv /\ StartInv
  BY HookInit, StartInit
<1>3. HookInv /\ StartInv /\ [Next]_vars => (HookInv /\ StartInv)'
  BY HookNext, StartNext
<1>. QED BY <1>1, <1>2, <1>3, PTL DEF Spec
=============================================================================
