# A verification project for Rugburn

Rugburn is a DLL that takes the place of `ijl15.dll` in the game PangYa. Its
`DllMain` reads `rugburn.json`, installs hooks in the libraries the game uses
and starts two threads of an anti-cheat. This directory holds TLA+ modules for
the parts of it that keep state, the TLC configurations that check them on
small instances, and proofs that TLAPS checks for every size. Paths below are
relative to the repository; most of the code is under `src/`, seen from here as
`src/src/`.

## The system

`main.c` runs, in order: `InitLog`; `InitEnvironment`, which calls
`LoadJsonRugburnConfig`; `InitHooks`, which installs each hook with
`HookProc`; `StartAntiCheat`. From then on the components run on the game's own
threads, when it calls a hooked function, and on the three threads rugburn
adds (the overlay's watcher and the anti-cheat's two). They share the
configuration, which nothing writes after the start, and the log.

| Component | State | Operations | What is hard |
|---|---|---|---|
| WinINet redirection, `netredir.c` | `g_inet_ctx`, the list of contexts; WinINet's handles | hooks of the open, send, header, read and close calls; recursive handling of redirects | ownership of replacement handles on every error path; calls that wait while others close; reuse of handle values; recorded headers that are pointers to the client's memory |
| Browser overlay, `webview2.c` | the overlay's window, flags and pauses; the WebView2 controller | scan, ESC, `WM_CLOSE`, two creation callbacks | callbacks that come late or fail; requests to close crossing opens; liveness |
| Coin wireframe, `dynamic_patch.c` | `g_coins`, the device's fill mode | constructor hook, draw hooks | no hook of the destructor; nested drawing; a full table |
| Anti-cheat, `anticheat.c` | the warnings, `g_bCheatDetected`, a connection | the monitor's pass, the answers to a server | memory that changes or faults in the middle of a pass; a flag shared without lock; a stream cut anywhere and read as a string |
| Configuration, `config.c`, `json.c`, `common.c` | `rugburn.json`, the parser's calls, the arrays of rules | load, save, parse | crashes while saving; limits; files in any shape |
| URL rewriting, `regex.c` | captures of a match, kept in the compiled rule | parse, match with backtracking, replace | captures across backtracking; two threads at one rule |
| Winsock redirection, `redir.c` | none of its own | `connect` through `RewriteAddr` | failed resolutions; addresses that are not `sockaddr_in` |
| Hook installation, `patch.c`, `ld.c` | code of other modules, trampolines | `HookFunc`, `HookProc` | a hook that runs before its trampoline is stored |
| Game patches, `dynamic_patch.c` | the run-once flag, hotkey states | `oneExec_PatchDynamicAndGG`, hotkeys | an unlocked test-and-set |
| Web browser hooks, `web_browser.c` | two slots for hooked methods | `CoCreateInstance`, `CoGetClassObject`, `Navigate`, `Invoke` | check-then-act on the slots |
| The rest | - | `inject.c`, `window.c`, `msvcr100.c`, `ranking.c`, `ijl15.c`, `hex.c`, the log | little state, or data only |

What makes each correct, in a sentence: the redirection closes what it opened
once and routes each call to the request it belongs to; the overlay is there
exactly when it should be; the table of coins is a set; the anti-cheat reports
what stays altered and answers challenges in order; the configuration accepts the
documented files and no others; a text is rewritten by the first rule whose
language it is in, with the groups of that match; a hook is reachable only when
what it uses is there. `PROJECT.json` lists every component with its
status, the hazards at their lines, and the lines each definition models.

## The modules

### NetRedir

One action per hook; a client thread is inside at most one. `live` is
WinINet's handle table, `held` tells which thread was given a handle, `list`
and the functions on `Ctx` are the contexts of `g_inet_ctx`. `Enter` is the
first half of the three hooks that send: the context is looked up and the call
goes to WinINet. The second half is one of the answers: success, failure, a
redirect to follow. `ReplaceAndSend` is an activation of
`...CertificateInvalidRedirect`; `frames` holds the contexts of the
activations under way, and `Outer` those that close their replacements when
the innermost returns, as the code does at 892-896 and 1193-1197. Reading
calls change nothing here: `Target` is where they go.

WinINet is external. A closed handle's value is free again; `Values` lets it
hand out any free value that a context or a waiting call still remembers, and
of the others those `Alloc` allows. Closing a handle closes that handle only;
that WinINet also invalidates handles derived from it is not modelled. All
threads may use a session, a thread uses the connections and requests it was
given, and any thread may close any handle of the client, also one that another
waits on. A context records a header as the caller's pointer (1255), so
`HeaderMemoryReused` may take the memory away at any time after the call, and
`Replayed` is then anything up to the number recorded. Several contexts may
have one session as their `hConnect` (`OpenUrlBypass`); closing it takes the
first of them (1342-1352) and leaves the others `stranded`: listed, with
replacements no later close is sure to reach. A hook that comes back to a freed
context may do anything, so `Next` ends there (`Intact`). Left out: the body
that `InternetWriteFileHook` remembers, the strings of URLs. The list is a
sequence here; its pointers are `InetCtxList`'s.

Ghost variables: `origin` (for which request a replacement was opened), `hdrs`
(headers a request carries), `moved`, `parent`, and the histories `stale` (a
value a listed context is searched by was handed out again), `pulled` (a request
a thread waited on, or what it was opened on, was closed) and `stranded`. The
bound `HeaderBound` reads `hdrs`; what is replayed depends on `moved`; no other
guard reads a ghost.

The properties say which of these the code withstands. Whatever comes back and
whatever is closed, replacements stay a context's own (`OwnedLive`). Until
`stale`, contexts and connections correspond, what is open is accounted for and
calls are routed. Only a close of the request waited on, or of what it was
opened on, frees a context under a waiting hook (`NoUseAfterFree`): nothing in
the code stops such a close, which is what a maintainer should take from it.

### WebView2

The watcher's loop is `scan`, `esc`, `pump`. Messages and callbacks are
dispatched in `pump` only, since the window and the COM apartment belong to
this thread. `LoadLib` and `GetProc` end the process when they fail, so the
first overlay without `WebView2Loader.dll` ends the game (`fatal`).
`Wv2BeginCookieSuppressed` has no caller in the repository; `g_suppress` stays 0
and the branches it guards are left out. The ticks the code compares are reduced
to what the comparisons yield: `due`, `cooling` (before `g_suppressOpenUntil`),
`grace` (before `g_graceUntil`). The game (`GameBrowser`, external), the user and
WebView2 may do anything at any time.

### CoinTable and CoinSet

`CoinTable` has the array and its count as in the code, with `CoinAdd`,
`CoinDel` (the last entry moves into the hole) and `IsCoin`, the constructor
hook, and draw calls that nest. `CoinSet` is what the table promises: a bounded
set with add and delete. `RefinesCoinSet` is the refinement, with
`coins <- {g_coins[i] : i < g_coinN}`.

### AntiCheat

The monitor's pass is a sequence of looks, first at the code, then, if the
chain of pointers ends at an object, at its values. A find opens a message box
and waits. `Fault` is the `__except` handler. The other thread opens, connects,
receives any prefix of what the server sent, and replies with the flag as it
is then. What the server sends is a stream of pieces, a challenge being one or
more of them, and any of them may be a NUL: `recv` cuts the stream where it
likes, and `wsprintfA` with `%s` copies what was received only up to the first
NUL (`IsString`), so that of two challenges received at once the second may be
lost. `send`'s result is ignored, so a reply may be lost too. `excused` records
both. The game's memory and the server are external and unconstrained.

### JsonConfig

`stack` is the parser's call stack: `JsonReadMap` and `JsonReadArray` calls
with what each wants next; the readers of `config.c` are the steps taken once
a key's colon or a value is read. Beside it, `expect` is the derivative of a
grammar of the documented files by the tokens read so far, against which the
parser's answers are judged. Around it are the steps on the file: test, warn,
create, write piece by piece, open, with the end of the process possible at
every one and the player free to replace the file whenever no handle is open
on it. A file of the player's is chosen token by token as it is read. The readers
of port rules test the wrong limit (`MAXURLREWRITES`, 64, for an array of 16), and
behind the array lies its own count: the ports of the first rule past its end
are written over `NumPortRewriteRules`, and the next rules wherever that leads
(`OnTheCount`, `OffTheMap`). A count written over so is any of `StrayCounts`, so
that no limit, tested or not, need ever be met again; `stray` records it.

### InetCtxList and CtxList

`InetCtxList` is the doubly linked list of the contexts again, pointer by
pointer: `next`, `prev`, and whether a context is allocated. No hook locks it,
so every read or write of a pointer another thread may see is a step, and a
pointer that is tested and then read again for use is read in two:
`createInetCtx` with `insertInetCtx` (`Walk`, `Step`, `Link`, `LinkBack`), the
searches (`Search`, `SearchFirst`, `SearchNext`, `Found`, `NotFound`) and
`removeInetCtx` with `destructInetCtx` (`Test`, `TestAfter`, `UnlinkAfter`,
`TestBefore`, `UnlinkBefore`, `Destruct`, `Free`). A freed context is zeroed
until it is allocated again. A thread about to touch one, or to follow a pointer
that has become NULL since its test, is lost (`Faults`): between the two reads
of `insertInetCtx`'s loop (83, 85) an unlink makes its node NULL, and 88 writes
through it. A context stands for the handle it was made for, and a thread
searches and closes what it was given. `mixed` records that two operations
overlapped of which both change the list, or one unlinks while the other walks;
`harm` that a fault happened or a handle was not found. `CtxList` is the promise
to the hooks, a sequence that grows at its end, which is what `NetRedir`
assumes. `RefinesCtxList` holds until `mixed`: a context enters when the last
node points to it and leaves when the node before points past it. What it tells
a maintainer: a lock around the two changes and around a search is needed
against closes, and only a search may run beside an append.

### Regex and Rewrites

`Regex` has the matcher with its captures threaded through the attempts, since
the code never takes back a group that a failed attempt opened, and the two
passes of `ReReplace`. `MatchFrom` is one call of the matcher, `m` what the calls
it makes of itself come to; `ReMatchPattern` ties the knot with a recursive
function. Beside it is a reference: a split tells where each token that takes
characters ends; a text is in the language if there is one;
`Preferred` is the split a backtracking matcher is meant to find. Tokens hold
the set of characters they accept. A copy that reads past the end of a text
yields `Beyond`, whatever memory holds there. `Rewrites` runs `RewriteURL` on several
threads. The captures are in the compiled rule, so another thread can reset
them between the reset, the match, the measuring and the copying; `alone` is
FALSE for a call whose captures were shared. The matcher reads and writes them
at every group. Its run is one step here, but if another thread used the rule
its result is any of `Outcomes`: the other's reset between `(` and `)` makes the
`)` fail, so a rule with groups may be passed over although it matches
(`missed`), the captures may be left torn, and they may run out. No outcome takes
a text outside the rule's language, since characters are compared all the same.
That an overlap may also write beside the captures is left out. The same module
has `ConnectHook` with `RewriteAddr`: the port rules in order, each host
resolved or not. That `ConnectHook` copies every address into a `sockaddr_in`,
whatever its family and length (`redir.c:25`, 42), is left out.

That every attempt leaves its groups behind limits the rules one may write.
`Settled` is the condition found: each repeated token before a `(` is followed,
directly or after a `)`, by a token taken once that accepts none of its
characters. For such rules, with no more groups than `MAXRECAPTURE`, the
replacement is the reference's and the process does not end; for others `$n` may
name a group of an attempt that failed, where `src/README.md:142` promises the
group of the expression. The rules must be `Regular` in the first place: a `)`
closes the group opened last, so an outer one is never closed, a sign behind one
never matches, and a group without a token that takes characters is opened
without a look at the text.

### Hooks

`DllMain` is a sequence of steps, taken from `DllMain`, `InitHooks` and the
`Init` functions in the order of the code: load a library, look a function up,
hook it, set a static, probe for Wine's `_stricmp`. Any load may run the
library's initialiser, which may call whatever is hooked by then; any load,
look-up, hook or probe may fail, and the process with it. Once `DllMain` has
returned, threads come to three late sites: the first use of a browser's
`Navigate` (`CoCreateInstanceHook`), of its `Invoke` (`CoGetClassObjectHook`),
and the start of the game (`oneExec_PatchDynamicAndGG`). Each tests a flag, sets
it and runs `HookFunc`: trampoline, jump, and the caller stores the trampoline.
COM may fail in the browser hooks, which then hand the browser out unhooked
(`NotHooked`). The game's code is packed at first; its own module is taken to
call `GetStartupInfo` only once it is unpacked, while anyone may call
`InitCommonControlsEx`, initialisers during start-up included. `overlap` records
that two threads were at one site while one installed, `passed` that a browser
was handed out unhooked, `early` that `InitCommonControlsEx` came before the
unpacking, `harm` that a call met a hook without its original, with a broken or
a foreign one, or a browser without its hook. During start-up hooking a function
and storing its original are one step (`Hook`), since rugburn's is the only code
that runs between them.

`MC*.tla` and `MC*.cfg` give the constants values for TLC; `MCNetRedir` also
how WinINet picks handle values, the symmetries and the view, and `MCRewrites`
the patterns, texts and port rules.

## The runs

| Run | Bounds | What it shows |
|---|---|---|
| `netredir_client` | 1 thread, 2 contexts, 7 handles, 2 hops, room for 1 header of 2, values that come back | replacements are owned and open; until a searched value comes back: routing, no lost handle, headers replayed, answers readable after one hop and not after two |
| `netredir_two` | 2 threads, 2 contexts, 7 handles, 1 hop | which closes free a context under a waiting hook; contexts and connections correspond |
| `netredir_reuse` | 1 thread, 2 contexts, 8 handles, 2 hops, several requests on a connection | violated: the request is routed to another's replacement |
| `webview2` | 3 empty scans | the overlay and its view agree, closes are served, what should open opens; three of seven are liveness |
| `coin_table` | 3 addresses, 2 entries, 2 nested draws | the table is a set, drawing restores the mode |
| `anticheat` | 2 places, 1 of them code, 2 pieces on a connection | what stays altered is reported, what is in order cleared, replies say so, the server is connected to again (liveness); replies bring back the stream in order, once, and complete but for NULs and lost replies |
| `json_config` | limits 3 (URLs), 1 (ports) and 1 (patches), stray counts -1, 0, 1 and 3, files up to 26 tokens | accepts and refuses as documented, survives crashes |
| `inet_ctx_list` | 2 threads, 3 contexts | the list is a sequence until operations overlap; which overlaps harm |
| `rewrites` | up to 3 tokens and 3 groups, texts of up to 3 of 2 letters, room for 3 groups, 2 threads on 2 rules, 3 port rules | answers and replacements are the reference's; when rewriting ends the process; connections |
| `hooks` | 2 threads, 2 browser implementations, 1 late site at a time | hooks find what they need; late hooks do harm only under overlap, failing COM or two implementations; the game is patched unless `InitCommonControlsEx` came early |
| `json_ports` | as `json_config`, 20 tokens | violated: the array's end is passed |
| `json_empty` | as `json_ports` | violated: an empty list is refused |

Why the bounds are enough. A defect of the redirection needs one context that
is redirected and another to be confused with: two contexts, and handles for
a session, two connections or a session shared by two bypassed URLs, requests
and both replacements. The client has at most `MaxOpen` handles of its own at a
time: a session per thread, and with the values given two connections and two
requests. Two hops are the first case with an outer activation, and they are in
`netredir_client`; in `netredir_two` a second thread takes their place. `HeaderBound`
exceeds the room by one. The properties of `netredir_two` end with `stale`, and
one with `pulled`, so the constraint `FewUndisturbed` cuts the state space there.
In `netredir_client` `OwnedLive` goes on: after a value has come back up to four
handles in the client's hands are explored, without headers (`FewLater`).

For the overlay three empty scans instead of six keep the count from 1 to the
limit. In the anti-cheat one place of code and one value of the object show both
kinds, and two pieces can be received together, a NUL before another challenge, or
apart. 26 tokens hold a list one longer than its limit, two nested
levels deep. `MAXURLREWRITES` exceeds the ports' array by two, so that a port
rule past it is read before the tested limit is met, and `StrayCounts` holds an
index before the array, one in it, its end and the tested limit. The coin table
is checked with more addresses than entries, so that it fills up. Three contexts
are the least with one unlinked from between two others; the list's run goes no
further once something was harmed (`Unharmed`). Patterns of three tokens hold a
group behind a repeated one, and three groups opened by backtracking fill
`MAXRECAPTURE` = 3, 10 in the code. Late sites share no state, so each behaviour
uses one (`MaxSites`).

Symmetry is used for threads and browser implementations, with safety properties
only; not in `inet_ctx_list`, where a refinement is checked. The runs of
`netredir` take states that differ in the names of handles and contexts for one
(the view `UpToNames`: a context is its place in the list, a handle the first
place that refers to it); the properties do not tell names apart, and nor do the
actions. Five passing runs have no deadlock check. In the two of `netredir` a
client may have nothing left to do once every value is used up, and a hook that
comes back to a freed context ends the model. In `inet_ctx_list` a thread that
touched freed memory is lost, in `rewrites` each thread rewrites and connects
once, and in `hooks` the process may have ended or everything may be installed.

Fairness. The watcher's steps are weakly fair, and `PumpDone` strongly: a new
`WM_CLOSE` disables it until dispatched. This assumes that the game's windows
answer: the watcher waits on them in `SendMessageW` (`webview2.c:279`) and
`GetWindowTextA` (529), and a game that hangs holds it up with itself. Time
passes. Nothing is assumed of the user, of what the game shows or of WebView2's
callbacks. In the anti-cheat both threads are scheduled, the player dismisses
message boxes in the end, a server that keeps listening is reached in the end,
and what a peer sent before it closed is received before the close. The other
modules state no liveness.

`GameCloseEndsOverlay` and `CloseServed` have the end of the process as the other
way out: a missing loader ends the game. `CodeAlterationReported` and
`RepliesReport` assume that the chain of pointers settles at an object or at
NULL: a pass that faults publishes 0. `AnswerIsReadable` says that the answer can
be read exactly if the send took at most one hop; after two the outer activation
closes the replacement that was answered.

The three violated properties are disagreements of the code with itself or with
what is shipped beside it; `PROJECT.json` quotes the lines under "findings".

Each property of a passing run has a mutant: an operator `Bug_...` beside the
definition it would replace, with the slip it stands for in its comment, that
makes the property fail.

## What is proved

Each theorem is for every value of the constants its assumptions allow; TLC
evaluates the assumptions on the runs. A proof module names its inductive
invariant, proves it step by step and ends with the theorems. "Property" below
is a definition that a run checks on a small instance too.

| Module | Properties | Inductive invariants |
|---|---|---|
| `NetRedirProofs` | `TypeOK`, `OwnedLive`, `NoUseAfterFree`, `ContextPerConnect`, `AnswerIsReadable`, `NoLeak`, `RouteOwn`, `HeadersReplayed` | `OwnInv`, `LeakInv`, `ContextInv`, `RouteInv`, `HeaderInv` |
| `InetCtxListProofs` | `TypeOK`, `HarmNeedsOverlap`, `RefinesCtxList` | `ListInv` |
| `WebView2Proofs` | `TypeOK`, `CreationTracked`, `CoversOnlyWhenActive`, `ViewFollowsOverlay` | `OverlayInv` |
| `CoinTableProofs` | `TypeOK`, `FoundAsConstructed`, `FillRestored`, `RefinesCoinSet` | `CoinInv` |
| `AntiCheatProofs` | `TypeOK`, `EchoesInOrder` | `MonitorInv`, `EchoInv` |
| `JsonConfigProofs` | `TypeOK`, `RefusesOnlyBadFiles`, `StartsOnlyWithWholeFile` | `TypeInv`, `ReadInv`, `ExampleInv` |
| `RewritesProofs` | `RewritesByFirstRule`, `CopyFillsRoom`, `DiesOnlyOfBadRules`, `ConnectsByFirstResolved` | `RewriteInv`, `SocketInv` |
| `HooksProofs` | `TypeOK`, `LateHooksNeedOverlap`, `StartedGameIsPatched`, `ReadyWhenReachable` | `HookInv`, `SiteInv`, `StartInv` |

`NetRedirProofs` assumes nothing of WinINet's choice of values but that a value
handed out is free (`AllocAssumption`), and nothing of what the client closes or
when. `TypeOK` and `OwnedLive` hold always. `OwnInv` adds `FreeUnheld`: a value
that is not open is in nobody's hands, without which a value handed out for a
replacement might still be held by the client. Lemmas say what closing, opening
and dropping replacements preserve.

The other properties hold until an event that the property itself names, because
the code does not withstand it. `ContextPerConnect` holds until `stale`: a
context outlives some of the handles it names and is found again for a new one
of the same value. `NoUseAfterFree` and `AnswerIsReadable` hold until `stale` or
`pulled`. `NoLeak`, `RouteOwn` and `HeadersReplayed` hold until `stale`, and
have one hypothesis about the client, `ReopenConnect = FALSE`: it opens one
request per connection. It is needed: a context has room for one, and the run
`netredir_reuse` shows `RouteOwn` violated without it.

`ContextInv` is proved first. Each context has one request at most that is
searched for, it was opened on the handle the context has as its `hConnect`, and
no two contexts share a request (`CtxInv`); each waiting thread's contexts,
the outer activations' included, are listed and belong to the request it waits
on, unless it was pulled (`WaitInv`). That a close which is neither of the
request nor of its parent frees none of them is then a matter of whose context
it finds. `RouteInv` adds that what is open is the client's or a replacement
(`Accounted`), that only listed contexts with a request have replacements, and
that each was opened for that request (`OriginKept`). `HeaderInv` counts: a
context records as many headers as its request has, up to the room, and its
replacement has the same, as long as the request's headers are where they were
(`Recorded`).

`InetCtxListProofs` relates the pointers to a sequence `q` that is not a
variable: `ListInv` says one exists as long as `~mixed`. In it each node points
to the next (`Linked`), and back to the one before unless a thread is between
the two statements of an insertion or removal (`BackLinked`); `Busy` is what
each thread's position in its operation relies on, `Exclusive` what `~mixed`
gives. That the sequence is the one the chain of pointers yields from the root
(`Chain`, a recursive function) needs an induction over its length, done as a
contradiction at the least exception. `RefinesCtxList` then follows: two
statements change the sequence, every other maps to a stutter. `ListAssumption`
says that contexts are finitely many and apart from the root, from NULL and from
the value `Lost` that stands for no list.

In `WebView2Proofs` the three safety properties are inductive together, given
that nothing is created for a window that does not exist and that only a
view has a page (`CreatedForWindow`, `PageNeedsView`). In `AntiCheatProofs`,
`EchoesInOrder` follows from `StreamInv`: what was received and what is still to
come are one run of numbers (`Consecutive`), all pieces of the buffer behind a
NUL are excused (`BehindExcused`), and every piece before the buffer is a NUL,
excused or echoed (`Answered`), in order (`InOrder`); between two connections
nothing is left of the last one (`BetweenInv`).

`CoinTableProofs` proves that `CoinInv` is inductive: the type invariant, that
the used part of the array has no duplicates and holds addresses, that objects
are found as constructed, and `WireOwed`: in wire mode some draw call under way
owes the solid mode. `FillRestored` alone is not inductive, since it says
nothing while something is drawn. `NoDuplicates` is needed for `CoinDel`: one
deletion removes an address only if it is there once. The refinement of
`CoinSet` follows step by step. The assumptions are `CapacityAssumption` and
`AddrAssumption`.

`JsonConfigProofs` holds for files of every length (`MaxTokens` is any number).
`TypeInv` says which calls may nest (`Nested`) and that a rule's members are
written into its array, until a port rule's are written past theirs (`RuleRoom`,
`stray`); after that nothing is claimed of the counts, and what is proved of
refusals and of the example does not need them. `LimitsAssumption` orders the
two limits as `config.h` does (16 and 64). `ReadInv` says, for the innermost call and what it wants
next, exactly which forms `expect` holds (`Expects`), so that what
the parser does not take is seen to be what no documented file goes on with.
`ExampleInv` is a table of what the parser wants after each of the example's 26
tokens; it shows that the whole example is read to its end within any limits,
and that a part of it ends in a refusal.

`HooksProofs` holds for any number of threads and of browser implementations.
`SiteInv` describes a site that no two threads have met at: one thread installs,
flag, slot and code agree once it is done (`Settled`), what it has in hand
fits its step (`Underway`), and whoever may call finds the hook (`Reached`). The
overlap is recorded in the model before its consequences, so nothing is said of
a site after one; likewise for a browser handed out unhooked and for an early
`InitCommonControlsEx` (`InTime`). `PackedInv` ties the game's code to its
unpacking.
`StartInv` says that the statics and the hooks are those of the steps taken. That
this suffices is a fact about `DllMain` as a sequence: it is `Sound`, that is, at
each load and at its end the hooks so far have what they need. Soundness is
composed (`SoundConcat`) from one lemma per Init function, each of which hooks
after its last load (`BlockSound`). Start-up has no constants; the proof gives
the reason, and holds alike for another order of the Init functions behind
`InitEnvironment`.

`RewritesProofs` holds for rules, texts and replacements of every length, for
any number of threads and any room for captures. The hypotheses are
`SetupAssumption`, that rules are `Regular` and texts are made of `Char`, and
`CaptureAssumption`. The argument:

- `MatcherIs`: the matcher's function satisfies its equation. Its definition is a
  `CHOOSE`, so a function that satisfies it has to be built, from the last
  token to the first (`SolutionExtends`).
- A *walk* tells where every token begins, from the i-th on; the best walk takes
  as much as it can, or as little for `?`. Downward over the tokens, `Decides`:
  a call that answers matches exactly if a walk starts where it stands. For that
  the ends tried are all the token may take, best first (`EndsAre`), and the
  captures only grow (`Keeps`).
- Backtracking leaves groups behind, so the captures need `Settled`. `Calm`:
  behind the last `(` nothing is opened, at most a length written. `FailsAtOnce`:
  a token repeated before a `(` has one end that gets past the next token.
  With both, each group is opened once (`Roomy`, `DiesOnlyOfBadRules` for one
  call), and what a match leaves is what its best walk says (`Follows`).
- Walks are splits (`SplitIsWalk`, `WalkIsSplit`) and the best one is the
  `Preferred` (`PreferredIs`), so the captures hold the reference's groups
  (`GroupTextIs`) and the two passes agree (`CopyIs`, `MatchReplaces`).
- `RewriteInv` carries this through interleavings: a call has passed over only
  rules whose languages lack its text, or that have groups and were used by
  another thread meanwhile (`missed`); as long as it is `alone`, its rule's
  captures are those of its own match. The overlap is recorded at the reset or
  the match of either call (`Contend`).

Thus the rule `RewriteURL` answers by is the first whose language has the text
if no other thread rewrites at the time, or if the rules have no groups; beside
another thread it may be a later one or none, and the text may be torn. It is
never a rule that does not match. `SocketInv` says of a connection that
the rules passed over are the failed ones before the one in hand.

What stays with TLC. Liveness under fairness and `ENABLED`
(`CodeAlterationReported`, `AllClearReported`, `RepliesReport`, `Reconnects`,
`GameCloseEndsOverlay`, `CloseServed`, `WantedOverlayOpens`): TLAPS does not
reason about either. Every safety property of a passing run has a theorem, under the
hypotheses and until the events named above.

## Not modelled

`PROJECT.json` gives the reason for each part. In short: code that is data for
one version of the game (the bytes of the patches, ranking, version detection),
code that compares or converts without keeping state (the answers of the
injection, window and runtime hooks, `hex.c`, `PatchAddress`, the front of the
JPEG library), vendored and generated files, and the tests. Of the modelled
parts: addresses that are not `sockaddr_in` in `ConnectHook`; the parser of patterns (`ReParse`) and its limits; a replacement that
ends in a single `$`, which the code reads past; the request body that a
redirect replays, which is the client's memory like the headers; the hotkeys, whose edge
detectors are one static for all objects; the log, whose lines of two threads may
exclude each other. `HarmNeedsOverlap`, `CopyFillsRoom` and
`LateHooksNeedOverlap` name the overlaps the code is exposed to: they show that
there are no other causes, not that these cannot happen.

## Plan

Written, in this order: `NetRedir` with `NetRedirProofs`, `WebView2`,
`CoinTable` with `CoinSet` and its proofs, `AntiCheat`, `JsonConfig`, `Regex`
with `Rewrites`, `Hooks`, `InetCtxList` with `CtxList`; then the proofs of
`WebView2`, of the contexts of `NetRedir`, of `AntiCheat`, `Hooks`,
`InetCtxList`, `JsonConfig` and `Rewrites`. To come: the request body of a
redirect, the hotkeys, `PatchAddress`.
