-------------------------------- MODULE Hooks --------------------------------
(***************************************************************************)
(* How rugburn gets into the game: DllMain and the Init functions of the   *)
(* hooks, and the hooks installed later, by the game's own threads:        *)
(* IWebBrowser2::Navigate and IDispatch::Invoke when a browser is made     *)
(* (ole32/web_browser.c), and the functions of the game itself when it     *)
(* starts (comctl32/dynamic_patch.c).  The steps of HookFunc are those of  *)
(* src/src/patch.c.                                                        *)
(*                                                                         *)
(* Start-up runs on one thread under the loader's lock; other code runs    *)
(* only when a library is loaded and its initialiser calls functions that  *)
(* are hooked already.  Later every thread may.  The game is packed: its   *)
(* code is in place once it has unpacked itself, and its own code, unlike  *)
(* a library it loads, calls GetStartupInfo only then.                     *)
(* InitCommonControlsEx may be called by anyone at any time.  Left out:    *)
(* what the hooks do with a call, the bytes of the patches and the choice  *)
(* of the game's version; the three functions of the game that are hooked  *)
(* late are one here.                                                      *)
(***************************************************************************)
EXTENDS Naturals, FiniteSets, SequencesExt

CONSTANTS
  Thread, NULL,
  Impl,          \* implementations of a browser's methods (one per virtual table)
  Exe,           \* the game's code
  MaxSites       \* bound: late sites used in one behaviour (they share no state)

ASSUME HooksAssumption ==
  /\ NULL \notin Impl /\ Exe \notin Impl /\ Exe # NULL
  /\ MaxSites \in Nat

VARIABLES
  step,          \* the step of DllMain that is next
  loading,       \* is a library's initialiser running?
  hooked,        \* functions overwritten during start-up
  ready,         \* statics of rugburn that have their value
  dead,          \* FatalError has ended the process
  unpacked,      \* the game's code is in place
  flag,          \* g_pNavigate, g_pInvoke, and one of oneExec_PatchDynamicAndGG
  code,          \* first bytes of a function hooked late: "packed", "orig" or "jmp"
  slot,          \* pNavigate, pInvoke, and the originals of the game's functions
  call,          \* the late installation each thread is in
  made,          \* browser objects a thread has, by the method they are used for
  started,       \* threads of the game past GetStartupInfo or InitCommonControlsEx
  used,          \* late sites this behaviour uses
  overlap,       \* history: sites two threads were at while one installed
  passed,        \* history: sites where a browser was handed out without the hook
  early,         \* history: InitCommonControlsEx was called before the game unpacked itself
  harm           \* history: what a call of a hooked function ran into

startVars == <<step, loading, hooked, ready>>
siteVars == <<flag, code, slot>>
vars == <<startVars, dead, unpacked, siteVars, call, made, started, used, overlap, passed, early,
          harm>>

-----------------------------------------------------------------------------
(* Start-up, in the order of DllMain. *)

Load(lib) == [do |-> "load", name |-> lib]
LoadOptional(lib) == [do |-> "try", name |-> lib]
Get(name) == [do |-> "get", name |-> name]
Set(name) == [do |-> "set", name |-> name]
Hook(fn) == [do |-> "hook", name |-> fn]
Probe(fn) == [do |-> "probe", name |-> fn]

WinINetHooks ==
  <<"InternetOpenUrlA", "InternetConnectA", "HttpOpenRequestA", "HttpSendRequestA",
    "HttpEndRequestA", "HttpAddRequestHeadersA", "HttpQueryInfoA", "HttpSendRequestExA",
    "InternetCloseHandle", "InternetQueryDataAvailable", "InternetWriteFile",
    "InternetReadFile">>
WinINetProcs == <<"InternetQueryOptionA", "InternetSetOptionA", "InternetCrackUrlA">>
StrProcs == <<"SysAllocStringLen", "SysFreeString">>

InitEnvironment == <<Set("Config")>>
InitInjectHook ==
  <<Load("kernel32"), Get("CreateMutexA"), Set("GameguardFakeHandle"),
    Hook("CreateProcessA"), Hook("GetExitCodeProcess")>>
InitMsvcrHook ==
  <<Load("msvcr71"), Get("_stricmp"), Get("setlocale"), Probe("msvcr71 _stricmp"),
    Load("msvcr100"), Get("_stricmp"), Get("setlocale"), Probe("msvcr100 _stricmp")>>
InitWindowHook == <<Load("user32"), Hook("CreateWindowExA")>>
InitNetRedirHook ==
  <<Set("g_inet_ctx"), Load("wininet")>>
    \o [i \in DOMAIN WinINetProcs |-> Get(WinINetProcs[i])]
    \o [i \in DOMAIN WinINetHooks |-> Hook(WinINetHooks[i])]
InitRedirHook == <<Load("ws2_32"), Hook("connect")>>
InitComCtl32Hook ==
  <<Load("comctl32"), Load("kernel32"),
    Hook("InitCommonControlsEx"), Hook("GetStartupInfoA"), Hook("GetStartupInfoW")>>
Bug_InitWebBrowserHook ==   \* mutant: the hooks go in before oleaut32 is loaded
  <<Load("ole32"), Hook("CoGetClassObject"), Hook("CoCreateInstance"), Load("oleaut32")>>
    \o [i \in DOMAIN StrProcs |-> Get(StrProcs[i])]
InitWebBrowserHook ==
  <<Load("ole32"), Load("oleaut32")>>
    \o [i \in DOMAIN StrProcs |-> Get(StrProcs[i])]
    \o <<Hook("CoGetClassObject"), Hook("CoCreateInstance")>>

InitHooks ==
  <<LoadOptional("webview2_overlay")>> \o InitInjectHook \o InitMsvcrHook
    \o InitWindowHook \o InitNetRedirHook \o InitRedirHook \o InitComCtl32Hook
    \o InitWebBrowserHook
DllMain == InitEnvironment \o InitHooks \o <<Set("AntiCheat")>>

(* What a hook uses beside the function it replaces.  The hooks that the   *)
(* browser's constructors install use rugburn's statics too.               *)
Needs(fn) ==
  CASE fn \in {"CreateProcessA", "GetExitCodeProcess"} -> {fn, "GameguardFakeHandle"}
    [] fn \in ToSet(WinINetHooks) ->
         {"Config", "g_inet_ctx"} \cup ToSet(WinINetProcs) \cup ToSet(WinINetHooks)
    [] fn \in {"connect", "InitCommonControlsEx", "GetStartupInfoA", "GetStartupInfoW"} ->
         {fn, "Config"}
    [] fn \in {"CoGetClassObject", "CoCreateInstance"} ->
         {fn, "Config"} \cup ToSet(StrProcs)
    [] fn \in {"msvcr71 _stricmp", "msvcr100 _stricmp"} -> {}
    [] OTHER -> {fn}

Running == step > Len(DllMain)

-----------------------------------------------------------------------------
Sites == {"Navigate", "Invoke", "game"}
Targets == ({"Navigate", "Invoke"} \X Impl) \cup {<<"game", Exe>>}

Outside == [pc |-> "outside", site |-> "game", impl |-> Exe, whole |-> FALSE]

Statics ==
  {"Config", "GameguardFakeHandle", "g_inet_ctx", "CreateMutexA", "_stricmp", "setlocale",
   "CreateProcessA", "GetExitCodeProcess", "CreateWindowExA", "connect", "AntiCheat",
   "InitCommonControlsEx", "GetStartupInfoA", "GetStartupInfoW", "CoGetClassObject",
   "CoCreateInstance"} \cup ToSet(WinINetHooks) \cup ToSet(WinINetProcs) \cup ToSet(StrProcs)

(* Type correctness: flags and slots hold implementations of their own site. *)
TypeOK ==
  /\ step \in 1..(Len(DllMain) + 1)
  /\ {loading, dead, unpacked, early} \subseteq BOOLEAN
  /\ ready \subseteq Statics
  /\ hooked \subseteq Statics \cup {"msvcr71 _stricmp", "msvcr100 _stricmp"}
  /\ code \in [Targets -> {"packed", "orig", "jmp"}]
  /\ flag \in [Sites -> Impl \cup {Exe, NULL}]
  /\ \A s \in Sites :
       /\ flag[s] = NULL \/ <<s, flag[s]>> \in Targets
       /\ slot[s] = NULL \/ <<s, slot[s].impl>> \in Targets
  /\ \A t \in Thread : call[t].pc \in {"outside", "set", "compare", "build", "write", "store"}
  /\ made \in [Thread -> SUBSET Targets] /\ started \subseteq Thread /\ used \subseteq Sites
  /\ {overlap, passed, harm} \subseteq [Sites -> BOOLEAN]

Init ==
  /\ step = 1 /\ loading = FALSE
  /\ hooked = {} /\ ready = {}
  /\ dead = FALSE /\ unpacked = FALSE
  /\ flag = [s \in Sites |-> NULL]
  /\ code = [x \in Targets |-> IF x[1] = "game" THEN "packed" ELSE "orig"]
  /\ slot = [s \in Sites |-> NULL]
  /\ call = [t \in Thread |-> Outside]
  /\ made = [t \in Thread |-> {}]
  /\ started = {}
  /\ used \in {S \in SUBSET Sites : Cardinality(S) <= MaxSites}
  /\ overlap = [s \in Sites |-> FALSE]
  /\ passed = [s \in Sites |-> FALSE]
  /\ early = FALSE
  /\ harm = [s \in Sites |-> FALSE]

lateVars == <<unpacked, siteVars, call, made, started, used, overlap, passed, early, harm>>

(* One step of DllMain that succeeds.  A library that was not loaded before *)
(* runs its initialiser; whether msvcr's _stricmp is hooked depends on what *)
(* it answers (the check for a bug of Wine).                                *)
StartupStep ==
  LET s == DllMain[step] IN
  /\ ~Running /\ ~loading
  /\ step' = step + 1
  /\ loading' \in (IF s.do \in {"load", "try"} THEN BOOLEAN ELSE {FALSE})
  /\ ready' = IF s.do \in {"get", "set", "hook"} THEN ready \cup {s.name} ELSE ready
  /\ hooked' \in CASE s.do = "hook" -> {hooked \cup {s.name}}
                    [] s.do = "probe" -> {hooked, hooked \cup {s.name}}
                    [] OTHER -> {hooked}
  /\ UNCHANGED <<dead, lateVars>>

InitialiserReturns ==
  /\ loading /\ \A t \in Thread : call[t].pc = "outside"
  /\ loading' = FALSE
  /\ UNCHANGED <<step, hooked, ready, dead, lateVars>>

(* LoadLib, GetProc, InstallHook: a library or a function that is missing,  *)
(* or memory that cannot be written, ends the process.                      *)
StartupFails ==
  /\ ~Running /\ ~loading
  /\ DllMain[step].do \in {"load", "get", "hook", "probe"}
  /\ dead' = TRUE
  /\ UNCHANGED <<startVars, lateVars>>

-----------------------------------------------------------------------------
(* The game, and the hooks installed while it runs. *)

Unpack ==
  /\ Running /\ ~unpacked
  /\ unpacked' = TRUE
  /\ code' = [code EXCEPT ![<<"game", Exe>>] = "orig"]
  /\ UNCHANGED <<startVars, dead, flag, slot, call, made, started, used, overlap, passed, early,
                 harm>>

Installing(o, s) == call[o].pc # "outside" /\ call[o].site = s
Overlaps(t, s) ==
  overlap' = [overlap EXCEPT ![s] = @ \/ \E o \in Thread \ {t} : Installing(o, s)]

(* A thread leaves the hook it was in: its caller gets the browser object,  *)
(* or goes on with the game.                                                *)
Leave(t, s, impl) ==
  /\ call' = [call EXCEPT ![t] = Outside]
  /\ IF s = "game" THEN started' = started \cup {t} /\ UNCHANGED made
     ELSE made' = [made EXCEPT ![t] = @ \cup {<<s, impl>>}] /\ UNCHANGED started

(* The test at the head of an installation: done for this implementation?   *)
TestFlag(t, s, impl) ==
  /\ s \in used /\ call[t].pc = "outside"
  /\ Overlaps(t, s)
  /\ IF flag[s] = impl THEN Leave(t, s, impl)
     ELSE /\ call' = [call EXCEPT ![t] = [Outside EXCEPT !.pc = "set", !.site = s, !.impl = impl]]
          /\ UNCHANGED <<made, started>>
  /\ UNCHANGED <<startVars, dead, unpacked, siteVars, used, passed, harm>>

(* CreateInstance or QueryInterface fails: the caller gets what it asked    *)
(* for, and nothing is hooked.                                              *)
NotHooked(t, s, impl) ==
  /\ s \in used /\ call[t].pc = "outside"
  /\ Leave(t, s, impl)
  /\ passed' = [passed EXCEPT ![s] = TRUE]
  /\ UNCHANGED <<startVars, dead, unpacked, siteVars, used, overlap, harm>>

BrowserMade(t, s, impl) ==
  Running /\ UNCHANGED early /\ (TestFlag(t, s, impl) \/ NotHooked(t, s, impl))
CoCreateInstanceHook(t, impl) == BrowserMade(t, "Navigate", impl)
CoGetClassObjectHook(t, impl) == BrowserMade(t, "Invoke", impl)

Bug_isModuleAllocationBase(caller) == TRUE   \* mutant: every caller passes
(* Does the call come from the game's own module? *)
isModuleAllocationBase(caller) == caller = Exe

GetStartupInfoHook(t, caller) ==
  /\ Running /\ (caller = Exe => unpacked)
  /\ isModuleAllocationBase(caller)
  /\ TestFlag(t, "game", Exe)
  /\ UNCHANGED early

(* Whoever calls it: the game, or a library, in its initialiser too.  The   *)
(* loader runs one initialiser at a time.                                   *)
InitCommonControlsExHook(t) ==
  /\ \/ Running
     \/ /\ loading /\ "InitCommonControlsEx" \in hooked
        /\ \A o \in Thread : call[o].pc = "outside"
  /\ early' = (early \/ ~unpacked)
  /\ TestFlag(t, "game", Exe)

InstallSteps(t, pc) ==
  /\ call[t].pc = pc
  /\ UNCHANGED <<startVars, dead, unpacked, used, overlap, passed, early, harm>>

Bug_FlagNotSet(t) ==   \* mutant: the flag is tested and not set
  /\ InstallSteps(t, "set")
  /\ call' = [call EXCEPT ![t].pc = IF call[t].site = "game" THEN "compare" ELSE "build"]
  /\ UNCHANGED <<siteVars, made, started>>

Bug_FlagIsTrue(t) ==   \* mutant: that something is hooked is noted, not what
  /\ InstallSteps(t, "set")
  /\ flag' = [flag EXCEPT ![call[t].site] = TRUE]
  /\ call' = [call EXCEPT ![t].pc = IF call[t].site = "game" THEN "compare" ELSE "build"]
  /\ UNCHANGED <<code, slot, made, started>>

SetFlag(t) ==
  /\ InstallSteps(t, "set")
  /\ flag' = [flag EXCEPT ![call[t].site] = call[t].impl]
  /\ call' = [call EXCEPT ![t].pc = IF call[t].site = "game" THEN "compare" ELSE "build"]
  /\ UNCHANGED <<code, slot, made, started>>

(* compare_virtual_memory: the game's code is patched only if it is what    *)
(* the patch was made for.                                                  *)
Compare(t) ==
  /\ InstallSteps(t, "compare")
  /\ IF code[<<"game", Exe>>] = "orig"
     THEN call' = [call EXCEPT ![t].pc = "build"] /\ UNCHANGED <<made, started>>
     ELSE Leave(t, "game", Exe)
  /\ UNCHANGED siteVars

(* The trampoline is the function's first instructions, as they are now,    *)
(* and a jump behind them: of use only if they are the function's own.      *)
BuildTrampoline(t) ==
  /\ InstallSteps(t, "build")
  /\ call' = [call EXCEPT ![t].pc = "write",
                          ![t].whole = code[<<call[t].site, call[t].impl>>] = "orig"]
  /\ UNCHANGED <<siteVars, made, started>>

InstallHook(t) ==
  /\ InstallSteps(t, "write")
  /\ code' = [code EXCEPT ![<<call[t].site, call[t].impl>>] = "jmp"]
  /\ call' = [call EXCEPT ![t].pc = "store"]
  /\ UNCHANGED <<flag, slot, made, started>>

StoreOriginal(t) ==
  LET s == call[t].site IN
  /\ InstallSteps(t, "store")
  /\ slot' = [slot EXCEPT ![s] = [impl |-> call[t].impl, whole |-> call[t].whole]]
  /\ Leave(t, s, call[t].impl)
  /\ UNCHANGED <<flag, code>>

(* A thread calls a function that is, or should be, hooked.  Harm is a hook *)
(* without an original, with a broken one or with another implementation's, *)
(* and a browser that navigates past the hook.                              *)
Call(t, s, impl) ==
  LET isHooked == code[<<s, impl>>] = "jmp"
      goesWrong == IF isHooked THEN slot[s] # [impl |-> impl, whole |-> TRUE]
                               ELSE s # "game"
  IN
  /\ s \in used /\ call[t].pc = "outside"
  /\ <<s, impl>> \in made[t] \/ (s = "game" /\ unpacked)
  /\ Overlaps(t, s)
  /\ harm' = [harm EXCEPT ![s] = @ \/ goesWrong]
  /\ UNCHANGED <<startVars, dead, unpacked, siteVars, call, made, started, used, passed, early>>

-----------------------------------------------------------------------------
Next ==
  /\ ~dead
  /\ \/ StartupStep \/ InitialiserReturns \/ StartupFails \/ Unpack
     \/ \E t \in Thread :
          \/ \E impl \in Impl : CoCreateInstanceHook(t, impl)
          \/ \E impl \in Impl : CoGetClassObjectHook(t, impl)
          \/ \E caller \in {Exe, NULL} : GetStartupInfoHook(t, caller)
          \/ InitCommonControlsExHook(t)
          \/ SetFlag(t) \/ Compare(t) \/ BuildTrampoline(t) \/ InstallHook(t)
          \/ StoreOriginal(t)
          \/ \E x \in Targets : Call(t, x[1], x[2])

Spec == Init /\ [][Next]_vars

-----------------------------------------------------------------------------
(* Whenever code other than rugburn's can run during start-up or after it,  *)
(* every function that is hooked finds the statics its hook uses: the       *)
(* configuration, the function it replaces, and those it calls on the way.  *)
ReadyWhenReachable ==
  (loading \/ Running) /\ ~dead => \A fn \in hooked : Needs(fn) \subseteq ready

(* A call of a function hooked late goes wrong only if two threads were at  *)
(* its installation at once, or COM failed and a browser was handed out     *)
(* unhooked, or the browser has two implementations, for which there is one *)
(* slot (patch.c HookFunc, web_browser.c, oneExec_PatchDynamicAndGG).  An   *)
(* attempt spent on packed code does no harm of this kind.                  *)
LateHooksNeedOverlap ==
  \A s \in Sites : harm[s] =>
    \/ overlap[s] \/ passed[s]
    \/ Cardinality({x \in Targets : x[1] = s /\ code[x] = "jmp"}) > 1

(* A thread past a hook that patches the game finds it patched: only a call *)
(* of InitCommonControlsEx before the game has unpacked itself, which no    *)
(* test keeps out, can spend the one attempt on packed code, and only two   *)
(* threads at once can leave one of them ahead of the patch                 *)
(* (oneExec_PatchDynamicAndGG, isModuleAllocationBase).                     *)
StartedGameIsPatched ==
  started # {} /\ ~overlap["game"] /\ ~early => code[<<"game", Exe>>] = "jmp"
=============================================================================
