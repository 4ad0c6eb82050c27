------------------------------ MODULE WebView2 ------------------------------
(***************************************************************************)
(* The browser overlay of src/src/hooks/webview2/webview2.c.               *)
(*                                                                         *)
(* The game shows its shop pages in an Internet Explorer control.  A       *)
(* watcher thread scans the process's windows every 500 ms, covers a       *)
(* visible control with a window of its own that hosts a WebView2, and     *)
(* takes the overlay away when the user closes it or the control has been  *)
(* gone for several scans.  The same thread polls ESC and pumps the        *)
(* messages that deliver WM_CLOSE and the two asynchronous WebView2        *)
(* creation callbacks.  Without WebView2Loader.dll the first overlay ends  *)
(* the game.                                                               *)
(*                                                                         *)
(* Ticks are abstracted to the three conditions the code tests: a scan is  *)
(* due, the pause after a close has run out, the grace after an open has.  *)
(* The wrap of GetTickCount after 49.7 days, the address bar, positions    *)
(* and focus are left out.  So are the clicks posted to the game when the  *)
(* user closes the overlay: the game's answer to them is GameBrowser.  No  *)
(* one destroys the overlay's own window, which the code creates once, and *)
(* no one calls Wv2BeginCookieSuppressed, so g_suppress is always 0.       *)
(***************************************************************************)
EXTENDS Naturals

CONSTANT EMPTY_PASSES   \* scans without a control after which the overlay goes

ASSUME EmptyPassesAssumption == EMPTY_PASSES \in Nat \ {0}

VARIABLES
  browser,        \* the game's control as a scan sees it: none, too small to cover, big
  esc,            \* is the ESC key down?
  closeMsg,       \* is a WM_CLOSE for the overlay in the watcher's message queue?
  due, cooling, grace,  \* 500 ms since the last scan; now < g_suppressOpenUntil; now < g_graceUntil
  pc,             \* where the watcher is in its loop; fatal: in FatalError's box, for good
  active, wantClose, emptyPasses, escWasPressed,  \* g_active, g_wantClose, ...
  ownWnd,         \* g_ownWnd: none, hidden or shown
  loader,         \* bInitTried and pCreateEnv: untried, ok or missing
  creating,       \* g_creating
  pending,        \* the creation callback WebView2 still owes: none, env or ctrl
  controller,     \* g_controller and g_webview: none, noview or ok
  visible, page,  \* the controller's visibility, what it was last told to show
  orphan          \* did the controller arrive when no overlay was active?

world == <<browser, esc, closeMsg>>
timers == <<due, cooling, grace>>
creation == <<loader, creating, pending, controller>>
view == <<ownWnd, visible, page, orphan>>
watch == <<active, wantClose, emptyPasses, escWasPressed>>
vars == <<world, timers, pc, creation, view, watch>>

(* Type correctness; the count of empty scans never reaches EMPTY_PASSES.   *)
TypeOK ==
  /\ browser \in {"none", "small", "big"}
  /\ pc \in {"scan", "esc", "pump", "fatal"}
  /\ {esc, closeMsg, due, cooling, grace, active, wantClose, escWasPressed,
      creating, visible, orphan} \subseteq BOOLEAN
  /\ emptyPasses \in 0 .. EMPTY_PASSES - 1
  /\ ownWnd \in {"none", "hidden", "shown"}
  /\ loader \in {"untried", "ok", "missing"}
  /\ pending \in {"none", "env", "ctrl"}
  /\ controller \in {"none", "noview", "ok"}
  /\ page \in {"none", "blank", "url"}

Init ==
  /\ browser = "none" /\ esc = FALSE /\ closeMsg = FALSE
  /\ due = TRUE /\ cooling = FALSE /\ grace = FALSE
  /\ pc = "scan"
  /\ active = FALSE /\ wantClose = FALSE /\ emptyPasses = 0 /\ escWasPressed = FALSE
  /\ loader = "untried" /\ creating = FALSE /\ pending = "none" /\ controller = "none"
  /\ ownWnd = "none" /\ visible = FALSE /\ page = "none" /\ orphan = FALSE

-----------------------------------------------------------------------------
(* Opening and closing the overlay *)

(* The controller and its view already exist: they are shown again.         *)
ShowAgain ==
  /\ controller # "none"
  /\ visible' = TRUE
  /\ page' = IF controller = "ok" THEN "url" ELSE page
  /\ UNCHANGED creation

(* EnsureLoader, once per process: LoadLib and GetProc end the process      *)
(* rather than return without the loader, so it does not return FALSE.      *)
EnsureLoader == loader' \in IF loader = "untried" THEN {"ok", "missing"} ELSE {loader}

(* No controller: wait for the creation under way, or start one, which      *)
(* pCreateEnv may refuse.                                                   *)
CreateController ==
  /\ controller = "none"
  /\ UNCHANGED <<controller, visible, page>>
  /\ \/ creating /\ UNCHANGED <<loader, creating, pending>>
     \/ /\ ~ creating
        /\ EnsureLoader
        /\ \/ loader' = "ok" /\ creating' = TRUE /\ pending' = "env"
           \/ UNCHANGED <<creating, pending>>

(* OpenWebView2; the first disjunct is EnsureOwnWindow failing. *)
OpenWebView2 ==
  \/ ownWnd = "none" /\ UNCHANGED <<ownWnd, creation, visible, page>>
  \/ ownWnd' = "shown" /\ (ShowAgain \/ CreateController)

StartOverlay ==
  /\ OpenWebView2
  /\ active' = TRUE
  /\ emptyPasses' = 0
  /\ grace' = TRUE
  /\ orphan' = FALSE
  /\ UNCHANGED <<world, cooling, wantClose, escWasPressed>>

(* Mutant: hiding does not leave the page. *)
Bug_HideKeepsPage ==
  /\ ownWnd' = IF ownWnd = "shown" THEN "hidden" ELSE ownWnd
  /\ visible' = FALSE
  /\ UNCHANGED page

(* Mutant: with no controller there is nothing to hide. *)
Bug_HideNeedsController ==
  /\ ownWnd' = IF ownWnd = "shown" /\ controller # "none" THEN "hidden" ELSE ownWnd
  /\ visible' = FALSE
  /\ page' = IF controller = "ok" THEN "blank" ELSE page

HideOverlay ==
  /\ ownWnd' = IF ownWnd = "shown" THEN "hidden" ELSE ownWnd
  /\ visible' = FALSE
  /\ page' = IF controller = "ok" THEN "blank" ELSE page

(* Closing may click the game's close button: that is the game's business. *)
CloseOverlay ==
  /\ HideOverlay
  /\ active' = FALSE
  /\ cooling' = TRUE
  /\ orphan' = FALSE
  /\ UNCHANGED <<world, grace, creation>>

-----------------------------------------------------------------------------
(* The watcher thread: one scan if due, one look at ESC, one pump, repeat *)

(* Mutant: the request to close is dropped when a page is still loading.    *)
Bug_ServeCloseForgets ==
  /\ active /\ wantClose
  /\ wantClose' = FALSE
  /\ IF creating
     THEN UNCHANGED <<world, cooling, grace, creation, view, active>>
     ELSE CloseOverlay
  /\ UNCHANGED <<emptyPasses, escWasPressed>>

(* WM_CLOSE or Alt+F4 has been dispatched. *)
ServeClose ==
  /\ active /\ wantClose
  /\ wantClose' = FALSE
  /\ CloseOverlay
  /\ UNCHANGED <<emptyPasses, escWasPressed>>

(* What the enumeration of the windows notes: a visible control, and one    *)
(* large enough to cover.                                                   *)
AnyBrowser == browser # "none"
VisBrowser == browser = "big"

(* Mutant: no overlay is opened while a creation is under way. *)
Bug_OpenWaitsForCreation ==
  /\ ~ active /\ ~ cooling
  /\ VisBrowser /\ ~ creating
  /\ StartOverlay

OpenForBrowser ==
  /\ ~ active /\ ~ cooling
  /\ VisBrowser
  /\ StartOverlay

StayClosed ==
  /\ ~ active
  /\ cooling \/ ~ VisBrowser
  /\ UNCHANGED <<world, cooling, grace, creation, view, watch>>

(* Mutant: one scan too many is waited for. *)
Bug_OnePassMore ==
  /\ active /\ ~ wantClose /\ ~ grace /\ ~ AnyBrowser
  /\ IF emptyPasses + 1 > EMPTY_PASSES
     THEN CloseOverlay /\ emptyPasses' = 0
     ELSE /\ emptyPasses' = emptyPasses + 1
          /\ UNCHANGED <<world, cooling, grace, creation, view, active>>
  /\ UNCHANGED <<wantClose, escWasPressed>>

(* Mutant: an empty scan is not counted. *)
Bug_NotCounted ==
  /\ active /\ ~ wantClose /\ ~ grace /\ ~ AnyBrowser
  /\ IF emptyPasses + 1 >= EMPTY_PASSES
     THEN CloseOverlay /\ emptyPasses' = 0
     ELSE UNCHANGED <<world, cooling, grace, creation, view, active, emptyPasses>>
  /\ UNCHANGED <<wantClose, escWasPressed>>

EmptyPass ==
  /\ active /\ ~ wantClose /\ ~ grace /\ ~ AnyBrowser
  /\ IF emptyPasses + 1 >= EMPTY_PASSES
     THEN CloseOverlay /\ emptyPasses' = 0
     ELSE /\ emptyPasses' = emptyPasses + 1
          /\ UNCHANGED <<world, cooling, grace, creation, view, active>>
  /\ UNCHANGED <<wantClose, escWasPressed>>

StayOpen ==
  /\ active /\ ~ wantClose /\ (grace \/ AnyBrowser)
  /\ emptyPasses' = IF grace THEN emptyPasses ELSE 0
  /\ UNCHANGED <<world, cooling, grace, creation, view, active, wantClose, escWasPressed>>

Scan ==
  /\ pc = "scan"
  /\ due /\ due' = FALSE
  /\ ServeClose \/ OpenForBrowser \/ StayClosed \/ EmptyPass \/ StayOpen
  /\ pc' = IF loader' = "missing" THEN "fatal" ELSE "esc"

NoScan ==
  /\ pc = "scan" /\ pc' = "esc"
  /\ ~ due
  /\ UNCHANGED <<world, timers, creation, view, watch>>

(* ESC went down since the last look: close what is open. *)
PollEsc ==
  /\ pc = "esc" /\ pc' = "pump"
  /\ escWasPressed' = esc
  /\ IF esc /\ ~ escWasPressed /\ active
     THEN CloseOverlay /\ emptyPasses' = 0
     ELSE UNCHANGED <<world, cooling, grace, creation, view, active, emptyPasses>>
  /\ UNCHANGED <<due, wantClose>>

(* WV2WndProc: the flag is set whether or not the overlay is still active.  *)
WV2WndProc ==
  /\ pc = "pump" /\ closeMsg
  /\ closeMsg' = FALSE
  /\ wantClose' = TRUE
  /\ UNCHANGED <<browser, esc, timers, pc, creation, view, active, emptyPasses,
                 escWasPressed>>

(* Mutant: a failed environment leaves g_creating set. *)
Bug_EnvFailureKeepsCreating ==
  /\ pc = "pump" /\ pending = "env"
  /\ \/ pending' = "ctrl" /\ UNCHANGED creating
     \/ pending' = "none" /\ UNCHANGED creating
  /\ UNCHANGED <<world, timers, pc, loader, controller, view, watch>>

(* The environment is ready and a controller is asked for, or either fails. *)
EnvInvoke ==
  /\ pc = "pump" /\ pending = "env"
  /\ \/ pending' = "ctrl" /\ UNCHANGED creating
     \/ pending' = "none" /\ creating' = FALSE
  /\ UNCHANGED <<world, timers, pc, loader, controller, view, watch>>

(* The controller has failed, has come without a view, or is shown and      *)
(* navigated at once, whether or not the overlay is still active.           *)
CtrlInvoke ==
  /\ pc = "pump" /\ pending = "ctrl"
  /\ pending' = "none" /\ creating' = FALSE
  /\ \/ UNCHANGED <<controller, visible, page, orphan>>
     \/ controller' = "noview" /\ UNCHANGED <<visible, page, orphan>>
     \/ /\ controller' = "ok" /\ visible' = TRUE /\ page' = "url"
        /\ orphan' = ~ active
  /\ UNCHANGED <<world, timers, pc, loader, ownWnd, watch>>

(* The pump returns when 20 ms are over and the queue is empty. *)
PumpDone ==
  /\ pc = "pump" /\ pc' = "scan"
  /\ ~ closeMsg
  /\ UNCHANGED <<world, timers, creation, view, watch>>

-----------------------------------------------------------------------------
(* The clock, the game and the user *)

ScanDue ==
  /\ ~ due /\ due' = TRUE
  /\ UNCHANGED <<world, cooling, grace, pc, creation, view, watch>>

CoolingOver ==
  /\ cooling /\ cooling' = FALSE
  /\ UNCHANGED <<world, due, grace, pc, creation, view, watch>>

GraceOver ==
  /\ grace /\ grace' = FALSE
  /\ UNCHANGED <<world, due, cooling, pc, creation, view, watch>>

GameBrowser ==
  /\ \E b \in {"none", "small", "big"} : b # browser /\ browser' = b
  /\ UNCHANGED <<esc, closeMsg, timers, pc, creation, view, watch>>

UserEsc ==
  /\ esc' = ~ esc
  /\ UNCHANGED <<browser, closeMsg, timers, pc, creation, view, watch>>

UserCloses ==
  /\ ownWnd = "shown" /\ ~ closeMsg /\ closeMsg' = TRUE
  /\ UNCHANGED <<browser, esc, timers, pc, creation, view, watch>>

-----------------------------------------------------------------------------
Watcher == Scan \/ NoScan \/ PollEsc \/ WV2WndProc \/ EnvInvoke \/ CtrlInvoke \/ PumpDone
Clock == ScanDue \/ CoolingOver \/ GraceOver
Others == GameBrowser \/ UserEsc \/ UserCloses

Next == Watcher \/ Clock \/ Others

(* The game's windows answer the watcher when it reads their titles or asks  *)
(* them to close, so its loop comes round, and time passes.  PumpDone needs  *)
(* strong fairness because a new WM_CLOSE disables it until it is            *)
(* dispatched.  The user and WebView2's callbacks owe nothing.               *)
Fairness ==
  /\ WF_vars(Scan) /\ WF_vars(NoScan) /\ WF_vars(PollEsc)
  /\ WF_vars(WV2WndProc) /\ SF_vars(PumpDone)
  /\ WF_vars(ScanDue) /\ WF_vars(CoolingOver) /\ WF_vars(GraceOver)

Spec == Init /\ [][Next]_vars /\ Fairness

-----------------------------------------------------------------------------
(* Properties *)

(* The flag that stops a second creation is set exactly while a callback is  *)
(* owed, and none is owed once there is a controller: a failure on the way   *)
(* neither blocks every later overlay nor lets two controllers be made.      *)
CreationTracked ==
  /\ creating <=> pending # "none"
  /\ pending # "none" => controller = "none"

(* The overlay's window is on the screen only while the overlay is active,   *)
(* so the game is never covered by a window no scan will take away.          *)
CoversOnlyWhenActive == ownWnd = "shown" => active

(* The view does what the overlay does, whatever order the opens, closes and *)
(* creation callbacks came in: an active overlay that has a view shows the   *)
(* page in it, and with none active nothing is shown or playing in a hidden  *)
(* view, unless its creation was overtaken by a close and came late          *)
(* (OpenWebView2, HideOverlay, CtrlInvoke).                                  *)
ViewFollowsOverlay ==
  IF active THEN controller = "ok" => visible /\ page = "url"
            ELSE visible \/ page = "url" => orphan

(* If the game's control goes away for good, the overlay goes away for good, *)
(* or the process does.                                                      *)
GameCloseEndsOverlay == <>[](~ AnyBrowser) => <>[](~ active \/ pc = "fatal")

(* A WM_CLOSE that reaches an active overlay's window closes it, unless the  *)
(* process ends.                                                             *)
CloseServed == closeMsg /\ active ~> ~ active \/ pc = "fatal"

(* A control that stays on the screen has an overlay opened for it again and *)
(* again, however often the user closes it by key or window, whichever       *)
(* environments and controllers failed to be made before, and although a     *)
(* creation under way may never be answered.                                 *)
WantedOverlayOpens == <>[]VisBrowser => []<>active
=============================================================================
