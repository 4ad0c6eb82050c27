--------------------------- MODULE WebView2Proofs ---------------------------
(***************************************************************************)
(* Proofs about WebView2 for every limit of empty scans: the state keeps   *)
(* its type, one creation is under way at most and none is forgotten, the  *)
(* overlay's window covers the game only while it is active, and the view  *)
(* shows what the overlay asks for.                                        *)
(***************************************************************************)
EXTENDS WebView2, TLAPS

(* Nothing is created for a window that does not exist: an overlay that     *)
(* could not have its window has no view that could miss the page.          *)
CreatedForWindow == ownWnd = "none" => controller = "none" /\ pending = "none"

(* Only a view can have been sent to a page, and is never given up.         *)
PageNeedsView == page = "url" => controller = "ok"

(* The inductive strengthening of the three safety properties. *)
OverlayInv ==
  /\ TypeOK
  /\ CreationTracked
  /\ CoversOnlyWhenActive
  /\ ViewFollowsOverlay
  /\ CreatedForWindow
  /\ PageNeedsView

-----------------------------------------------------------------------------
(* The initial state satisfies the invariant. *)
LEMMA InitOverlay == Init => OverlayInv
<1>. SUFFICES ASSUME Init PROVE OverlayInv
  OBVIOUS
<1>1. 0 \in 0 .. EMPTY_PASSES - 1
  BY EmptyPassesAssumption
<1>2. {esc, closeMsg, due, cooling, grace, active, wantClose, escWasPressed,
       creating, visible, orphan} \subseteq BOOLEAN
  BY Zenon DEF Init
<1>3. TypeOK
  BY <1>1, <1>2 DEF Init, TypeOK
<1>4. CreationTracked /\ CoversOnlyWhenActive /\ ViewFollowsOverlay
  BY DEF Init, CreationTracked, CoversOnlyWhenActive, ViewFollowsOverlay
<1>5. CreatedForWindow /\ PageNeedsView
  BY DEF Init, CreatedForWindow, PageNeedsView
<1>. QED BY <1>3, <1>4, <1>5 DEF OverlayInv

(* A step that touches neither the view nor the creation, and leaves the    *)
(* overlay open or closed, preserves what is said about them.               *)
LEMMA ViewUntouched ==
  ASSUME OverlayInv, TypeOK', UNCHANGED <<active, creation, view>>
  PROVE  OverlayInv'
  BY DEF OverlayInv, CreationTracked, CoversOnlyWhenActive, ViewFollowsOverlay,
         CreatedForWindow, PageNeedsView, creation, view

(* Opening: the view that exists is shown the page, or none exists yet. *)
LEMMA StartKeeps ==
  ASSUME OverlayInv, StartOverlay, pc' \in {"esc", "fatal"}, due' = FALSE
  PROVE  OverlayInv'
<1>1. TypeOK'
  <2>1. /\ ownWnd' \in {"none", "hidden", "shown"} /\ loader' \in {"untried", "ok", "missing"}
        /\ pending' \in {"none", "env", "ctrl"} /\ controller' \in {"none", "noview", "ok"}
        /\ page' \in {"none", "blank", "url"}
        /\ creating' \in BOOLEAN /\ visible' \in BOOLEAN
    BY DEF OverlayInv, TypeOK, StartOverlay, OpenWebView2, ShowAgain, CreateController,
           EnsureLoader, creation
  <2>2. /\ active' = TRUE /\ emptyPasses' = 0 /\ grace' = TRUE /\ orphan' = FALSE
        /\ UNCHANGED <<world, cooling, wantClose, escWasPressed>>
    BY DEF StartOverlay
  <2>3. esc' \in BOOLEAN /\ closeMsg' \in BOOLEAN /\ cooling' \in BOOLEAN
        /\ wantClose' \in BOOLEAN /\ escWasPressed' \in BOOLEAN
    BY <2>2 DEF OverlayInv, TypeOK, world
  <2>4. {esc, closeMsg, due, cooling, grace, active, wantClose, escWasPressed,
         creating, visible, orphan}' \subseteq BOOLEAN
    BY <2>1, <2>2, <2>3, Zenon
  <2>. QED
    BY <2>1, <2>2, <2>4, EmptyPassesAssumption DEF OverlayInv, TypeOK, world
<1>2. /\ ownWnd = "none" => controller = "none" /\ pending = "none"
      /\ creating <=> pending # "none"
      /\ pending # "none" => controller = "none"
      /\ page = "url" => controller = "ok"
  BY DEF OverlayInv, CreationTracked, CreatedForWindow, PageNeedsView
<1>3. active' /\ controller' = controller
  BY DEF StartOverlay, OpenWebView2, ShowAgain, CreateController, creation
<1>4. CreationTracked' /\ CreatedForWindow'
  BY <1>2 DEF StartOverlay, OpenWebView2, ShowAgain, CreateController, EnsureLoader,
              creation, CreationTracked, CreatedForWindow
<1>5. ViewFollowsOverlay' /\ PageNeedsView'
  BY <1>2, <1>3 DEF StartOverlay, OpenWebView2, ShowAgain, CreateController,
                    ViewFollowsOverlay, PageNeedsView
<1>. QED BY <1>1, <1>3, <1>4, <1>5 DEF OverlayInv, CoversOnlyWhenActive

(* Closing: the window goes, and a view leaves the page. *)
LEMMA CloseKeeps ==
  ASSUME OverlayInv, CloseOverlay, TypeOK'
  PROVE  OverlayInv'
<1>1. /\ ownWnd = "none" => controller = "none" /\ pending = "none"
      /\ page = "url" => controller = "ok"
      /\ creating <=> pending # "none"
      /\ pending # "none" => controller = "none"
      /\ ownWnd \in {"none", "hidden", "shown"}
  BY DEF OverlayInv, CreationTracked, CreatedForWindow, PageNeedsView, TypeOK
<1>. QED
  BY <1>1 DEF OverlayInv, CloseOverlay, HideOverlay, CreationTracked, CoversOnlyWhenActive,
              ViewFollowsOverlay, CreatedForWindow, PageNeedsView, creation

(* Closing keeps the types of all it changes. *)
LEMMA CloseType ==
  ASSUME TypeOK, CloseOverlay, pc' \in {"scan", "esc", "pump", "fatal"}, due' \in BOOLEAN,
         wantClose' \in BOOLEAN, escWasPressed' \in BOOLEAN,
         emptyPasses' \in 0 .. EMPTY_PASSES - 1
  PROVE  TypeOK'
  BY DEF TypeOK, CloseOverlay, HideOverlay, world, creation

-----------------------------------------------------------------------------
(* The steps of the watcher preserve the invariant. *)
LEMMA WatcherKeeps ==
  ASSUME OverlayInv, Watcher
  PROVE  OverlayInv'
<1>. TypeOK
  BY DEF OverlayInv
<1>. 0 \in 0 .. EMPTY_PASSES - 1
  BY EmptyPassesAssumption
<1>. USE DEF world, timers, watch
<1>1. CASE Scan /\ ServeClose
  <2>1. TypeOK'
    BY <1>1, CloseType DEF Scan, ServeClose, TypeOK
  <2>. QED BY <1>1, <2>1, CloseKeeps DEF ServeClose
<1>2. CASE Scan /\ OpenForBrowser
  BY <1>2, StartKeeps DEF Scan, OpenForBrowser
<1>3. CASE Scan /\ (StayClosed \/ StayOpen)
  <2>1. TypeOK'
    BY <1>3 DEF Scan, StayClosed, StayOpen, TypeOK, view, creation
  <2>. QED BY <1>3, <2>1, ViewUntouched DEF StayClosed, StayOpen
<1>4. CASE Scan /\ EmptyPass
  <2>1. CASE emptyPasses + 1 >= EMPTY_PASSES
    <3>1. CloseOverlay /\ emptyPasses' = 0
      BY <1>4, <2>1 DEF EmptyPass
    <3>2. TypeOK'
      BY <1>4, <3>1, CloseType DEF Scan, EmptyPass, TypeOK
    <3>. QED BY <3>1, <3>2, CloseKeeps
  <2>2. CASE ~ (emptyPasses + 1 >= EMPTY_PASSES)
    <3>1. emptyPasses' \in 0 .. EMPTY_PASSES - 1
      BY <1>4, <2>2, EmptyPassesAssumption DEF EmptyPass, TypeOK
    <3>2. TypeOK'
      BY <1>4, <2>2, <3>1 DEF Scan, EmptyPass, TypeOK, view, creation
    <3>. QED BY <1>4, <2>2, <3>2, ViewUntouched DEF EmptyPass
  <2>. QED BY <2>1, <2>2
<1>5. CASE NoScan
  <2>1. TypeOK'
    BY <1>5 DEF NoScan, TypeOK, view, creation
  <2>. QED BY <1>5, <2>1, ViewUntouched DEF NoScan
<1>6. CASE PollEsc
  <2>1. CASE esc /\ ~ escWasPressed /\ active
    <3>1. TypeOK'
      BY <1>6, <2>1, CloseType DEF PollEsc, TypeOK
    <3>. QED BY <1>6, <2>1, <3>1, CloseKeeps DEF PollEsc
  <2>2. CASE ~ (esc /\ ~ escWasPressed /\ active)
    <3>1. TypeOK'
      BY <1>6, <2>2 DEF PollEsc, TypeOK, view, creation
    <3>. QED BY <1>6, <2>2, <3>1, ViewUntouched DEF PollEsc
  <2>. QED BY <2>1, <2>2
<1>7. CASE WV2WndProc
  <2>1. TypeOK'
    BY <1>7, ZenonT(30) DEF WV2WndProc, TypeOK, view, creation
  <2>. QED BY <1>7, <2>1, ViewUntouched DEF WV2WndProc
<1>8. CASE EnvInvoke
  <2>1. TypeOK'
    BY <1>8, ZenonT(30) DEF EnvInvoke, TypeOK, view
  <2>. QED
    BY <1>8, <2>1 DEF EnvInvoke, OverlayInv, CreationTracked, CoversOnlyWhenActive,
                      ViewFollowsOverlay, CreatedForWindow, PageNeedsView, view
<1>9. CASE CtrlInvoke
  <2>1. TypeOK'
    <3>1. visible' \in BOOLEAN /\ orphan' \in BOOLEAN /\ creating' = FALSE
      BY <1>9, Zenon DEF CtrlInvoke, TypeOK
    <3>. QED BY <1>9, <3>1 DEF CtrlInvoke, TypeOK
  <2>2. CreationTracked' /\ CoversOnlyWhenActive'
    BY <1>9 DEF CtrlInvoke, OverlayInv, CreationTracked, CoversOnlyWhenActive
  <2>3. CreatedForWindow' /\ PageNeedsView'
    BY <1>9 DEF CtrlInvoke, OverlayInv, CreationTracked, CreatedForWindow, PageNeedsView
  <2>4. controller = "none" /\ page # "url" /\ active' = active
    BY <1>9 DEF CtrlInvoke, OverlayInv, CreationTracked, PageNeedsView
  <2>5. \/ controller' # "ok" /\ visible' = visible /\ page' # "url" /\ orphan' = orphan
        \/ visible' /\ page' = "url" /\ (orphan' \/ active)
    BY <1>9, <2>4, Zenon DEF CtrlInvoke
  <2>6. ViewFollowsOverlay'
    BY <2>4, <2>5 DEF OverlayInv, ViewFollowsOverlay
  <2>. QED BY <2>1, <2>2, <2>3, <2>6 DEF OverlayInv
<1>10. CASE PumpDone
  <2>1. TypeOK'
    BY <1>10 DEF PumpDone, TypeOK, view, creation
  <2>. QED BY <1>10, <2>1, ViewUntouched DEF PumpDone
<1>. QED
  BY <1>1, <1>2, <1>3, <1>4, <1>5, <1>6, <1>7, <1>8, <1>9, <1>10 DEF Watcher, Scan

(* Time, the game and the user touch neither the overlay nor its creation.   *)
LEMMA OthersKeep ==
  ASSUME OverlayInv, Clock \/ Others
  PROVE  OverlayInv'
<1>1. TypeOK'
  BY DEF OverlayInv, TypeOK, Clock, ScanDue, CoolingOver, GraceOver, Others, GameBrowser,
         UserEsc, UserCloses, world, timers,
         creation, view, watch
<1>2. UNCHANGED <<active, creation, view>>
  BY DEF Clock, ScanDue, CoolingOver, GraceOver, Others, GameBrowser,
         UserEsc, UserCloses, watch
<1>. QED BY <1>1, <1>2, ViewUntouched

(* Every step preserves the invariant. *)
LEMMA NextOverlay == OverlayInv /\ [Next]_vars => OverlayInv'
<1>. SUFFICES ASSUME OverlayInv, [Next]_vars PROVE OverlayInv'
  OBVIOUS
<1>1. CASE UNCHANGED vars
  <2>1. TypeOK'
    BY <1>1 DEF vars, OverlayInv, TypeOK, world, timers, creation, view, watch
  <2>. QED BY <1>1, <2>1, ViewUntouched DEF vars, watch
<1>2. CASE Next
  BY <1>2, WatcherKeeps, OthersKeep DEF Next
<1>. QED BY <1>1, <1>2

(* The invariant of the overlay, from which the theorems below follow. *)
THEOREM OverlayInvariant == Spec => []OverlayInv
  BY InitOverlay, NextOverlay, PTL DEF Spec

(* The watcher's state keeps its type; in particular the count of empty      *)
(* scans stays below the limit whatever the limit is.                        *)
THEOREM OverlayTyped == Spec => []TypeOK
<1>1. OverlayInv => TypeOK
  BY DEF OverlayInv
<1>. QED BY <1>1, OverlayInvariant, PTL

(* g_creating is set exactly while a callback is owed, and no second         *)
(* controller is ever made, however creations fail and overlays come and go. *)
THEOREM CreationAlwaysTracked == Spec => []CreationTracked
<1>1. OverlayInv => CreationTracked
  BY DEF OverlayInv
<1>. QED BY <1>1, OverlayInvariant, PTL

(* The overlay's window is shown only while the overlay is active. *)
THEOREM NeverCoversIdle == Spec => []CoversOnlyWhenActive
<1>1. OverlayInv => CoversOnlyWhenActive
  BY DEF OverlayInv
<1>. QED BY <1>1, OverlayInvariant, PTL

(* An active overlay's view shows the page; with none active nothing is      *)
(* shown or playing, unless its creation was overtaken by a close.           *)
THEOREM ViewAlwaysFollows == Spec => []ViewFollowsOverlay
<1>1. OverlayInv => ViewFollowsOverlay
  BY DEF OverlayInv
<1>. QED BY <1>1, OverlayInvariant, PTL
=============================================================================
