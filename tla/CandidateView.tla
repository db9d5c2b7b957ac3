----------------------------- MODULE CandidateView -----------------------------
(***************************************************************************)
(* The candidate window of a text service (win32/tsf/CandidateWindow.cpp), *)
(* with the UI element its edit sessions begin and end beside it           *)
(* (EditSession.cpp, CandidateListUiElement.cpp).  The window paints the   *)
(* list itself until a WebView2 page it starts on its first show has       *)
(* loaded; from then on the list is a script sent to that page.  The       *)
(* environment, the controller, the page and its events all answer later,  *)
(* in any order with shows, hides, display changes and the end of the      *)
(* window.                                                                 *)
(*                                                                         *)
(* Places, sizes, fonts and the text of a row are left out: a list is a    *)
(* model value with a number of rows.  A paint follows its invalidation at *)
(* once.  A page that shows nothing yet lets the painted list through, its *)
(* background being transparent; the error page of one that failed to load *)
(* covers it, and so does a controller whose web view could not be got and *)
(* whose background was never made transparent.                            *)
(***************************************************************************)
EXTENDS Integers, Sequences

CONSTANTS
    Lists,       \* candidate lists
    Size,        \* the rows of each list
    Nothing,     \* no list
    NoPick,      \* pendingMousePick_ = -1; also no click under way
    MaxWindows,  \* bound: windows made in a behaviour
    MaxViews,    \* bound: controllers made in a behaviour
    MaxScripts   \* bound: scripts the page has not run when another is asked

ASSUME CandidateViewAssumption ==
    /\ Size \in [Lists -> Nat \ {0}]
    /\ NoPick \notin Int
    /\ MaxWindows \in Nat /\ MaxViews \in Nat /\ MaxScripts \in Nat \ {0}

VARIABLES
    engine,   \* how far WebView2 gets on this computer
    win,      \* hwnd_: see Window
    cands,    \* candidates_ with highlight_, Nothing when empty
    wv,       \* webView_: see WebViewState
    calls,    \* environments and controllers asked for
    pages,    \* the page of each controller: see Page
    click,    \* a row clicked in the page, its message under way
    pick,     \* pendingMousePick_
    element   \* candidateUiElementId_ is set

vars == <<engine, win, cands, wv, calls, pages, click, pick, element>>

(* Where it stops: no loader library, no environment, no controller, a     *)
(* controller without a web view, a Navigate that fails at once, a page    *)
(* that fails to load.                                                     *)
Engines == {"noLoader", "noEnvironment", "noController", "noWebview",
            "noNavigation", "noPage", "works"}

Contents == UNION {[list: {l}, mark: 0..(Size[l] - 1)] : l \in Lists}

(* made counts the windows; up and visible are of the last.                *)
Window == [made: 0..MaxWindows, up: BOOLEAN, visible: BOOLEAN]

(* started  the object exists: initialization was tried                    *)
(* view     the controller, 0 when null                                    *)
(* shown    the controller's IsVisible                                     *)
(* ready    pageReady                                                      *)
WebViewState == [started: BOOLEAN, view: 0..MaxViews, shown: BOOLEAN,
                 ready: BOOLEAN]
NoWebView == [started |-> FALSE, view |-> 0, shown |-> FALSE, ready |-> FALSE]

(* shows    nothing yet, the page with its window.fcitx, or an error page  *)
(* list     what setCandidates last made it show                           *)
(* scripts  sent to it and not run yet                                     *)
(* events   of it, not delivered yet                                       *)
Page == [shows: {"blank", "fcitx", "error"}, list: Contents \cup {Nothing},
         scripts: Seq(Contents),
         events: SUBSET {"onload", "navigationCompleted"}]
NewPage == [shows |-> "blank", list |-> Nothing, scripts |-> <<>>,
            events |-> {}]

-----------------------------------------------------------------------------
(* The window. *)

RowAfterLast_clampHighlight(l, h) ==
    IF h < 0 THEN 0 ELSE IF h > Size[l] THEN Size[l] - 1 ELSE h

clampHighlight(l, h) ==
    IF h < 0 THEN 0 ELSE IF h >= Size[l] THEN Size[l] - 1 ELSE h

(* A window is there already, or is made, which may fail. *)
ensureWindow ==
    IF win.up THEN {win}
    ELSE {win} \cup
         {[made |-> n, up |-> TRUE, visible |-> FALSE] :
             n \in {win.made + 1} \cap (1..MaxWindows)}

(* The first call for a window starts WebView2, whose loader may be        *)
(* missing.                                                                *)
ensureWebView ==
    /\ wv.started \/ engine = "noLoader" => UNCHANGED calls
    /\ ~wv.started /\ engine # "noLoader" =>
          calls' = [calls EXCEPT !.environments = @ + 1]

HasWebview(v) == v.view # 0 /\ engine # "noWebview"

(* Where a script goes, if any: to a page that is ready. *)
pushWebViewState(v, c) ==
    IF HasWebview(v) /\ v.ready /\ c # Nothing
    THEN [pages EXCEPT ![v.view].scripts = Append(@, c)]
    ELSE pages

putIsVisible(v) ==
    [v EXCEPT !.shown = IF HasWebview(v) THEN win'.visible ELSE @]

syncWebView(v, c) ==
    /\ wv' = putIsVisible(v)
    /\ pages' = pushWebViewState(v, c)

(* syncCandidateListUiElement: the element is begun, which may fail, or    *)
(* updated.                                                                *)
syncCandidateListUiElement == element' \in {element, TRUE}

RoomForScript == wv.view # 0 => Len(pages[wv.view].scripts) < MaxScripts

(* show, from syncCandidateWindow with a list that is not empty. *)
Show(l, h) ==
    LET c == [list |-> l, mark |-> clampHighlight(l, h)]
    IN  /\ RoomForScript
        /\ cands' = c
        /\ \E w \in ensureWindow :
              IF w.up
              THEN /\ win' = [w EXCEPT !.visible = TRUE]
                   /\ ensureWebView
                   /\ syncWebView([wv EXCEPT !.started = TRUE], c)
              ELSE UNCHANGED <<win, calls, wv, pages>>
        /\ syncCandidateListUiElement
        /\ UNCHANGED <<engine, click, pick>>

(* hide and endCandidateListUiElement, which every caller of hide calls:   *)
(* the ends of a composition, an empty list, a change of input method, and *)
(* Deactivate, which drops the pick as well.                               *)
KeepsElement_Hide ==
    /\ win' = [win EXCEPT !.visible = FALSE]
    /\ wv' = [wv EXCEPT !.shown = FALSE]
    /\ cands' = Nothing
    /\ UNCHANGED <<engine, calls, pages, click, pick, element>>

Hide ==
    /\ win' = [win EXCEPT !.visible = FALSE]
    /\ wv' = [wv EXCEPT !.shown = FALSE]
    /\ cands' = Nothing
    /\ element' = FALSE
    /\ pick' \in {pick, NoPick}
    /\ UNCHANGED <<engine, calls, pages, click>>

(* WM_DESTROY of a window someone else closed.  The handlers of the page   *)
(* are removed, controllers under way for the window fail; an environment  *)
(* under way will be given to the next window.                             *)
WindowDestroyed ==
    /\ win.up
    /\ win' = [win EXCEPT !.up = FALSE, !.visible = FALSE]
    /\ wv' = NoWebView
    /\ pages' = IF wv.view = 0 THEN pages
                ELSE [pages EXCEPT ![wv.view] = NewPage]
    /\ calls' = [calls EXCEPT !.controllers = 0]
    /\ click' = NoPick
    /\ UNCHANGED <<engine, cands, pick, element>>

(* WM_DPICHANGED: layoutAndPaint shows the window, hidden or not. *)
DpiChanged ==
    /\ win.up
    /\ RoomForScript
    /\ win' = [win EXCEPT !.visible = TRUE]
    /\ syncWebView(wv, cands)
    /\ UNCHANGED <<engine, cands, calls, click, pick, element>>

-----------------------------------------------------------------------------
(* WebView2 answers. *)

EnvironmentCreated ==
    /\ calls.environments > 0
    /\ calls' = [environments |-> calls.environments - 1,
                 controllers |->
                     calls.controllers +
                     IF wv.started /\ engine # "noEnvironment" THEN 1 ELSE 0]
    /\ UNCHANGED <<engine, win, cands, wv, pages, click, pick, element>>

(* The answer to an environment asked for twice makes a second controller, *)
(* which takes the place of the first.  A controller is made visible; only *)
(* one with a web view is given the visibility of the window.              *)
ControllerCreated ==
    /\ calls.controllers > 0
    /\ calls' = [calls EXCEPT !.controllers = @ - 1]
    /\ \/ UNCHANGED <<wv, pages>>
       \/ /\ engine \in {"noWebview", "noNavigation", "noPage", "works"}
          /\ \E v \in DOMAIN pages :
                /\ v # wv.view
                /\ pages[v] = NewPage
                /\ wv' = [wv EXCEPT
                      !.view = v,
                      !.shown = win.visible \/ engine = "noWebview"]
          /\ UNCHANGED pages
    /\ UNCHANGED <<engine, win, cands, click, pick, element>>

(* The page loads.  The bridge may miss the page's own call of onload. *)
PageLoads ==
    /\ wv.view # 0
    /\ engine = "works"
    /\ pages[wv.view].shows = "blank"
    /\ \E e \in {{"navigationCompleted"}, {"navigationCompleted", "onload"}} :
          pages' = [pages EXCEPT ![wv.view].shows = "fcitx",
                                 ![wv.view].events = e]
    /\ UNCHANGED <<engine, win, cands, wv, calls, click, pick, element>>

(* NavigationCompleted then reports a failure, and nothing follows. *)
PageFails ==
    /\ wv.view # 0
    /\ engine = "noPage"
    /\ pages[wv.view].shows = "blank"
    /\ pages' = [pages EXCEPT ![wv.view].shows = "error"]
    /\ UNCHANGED <<engine, win, cands, wv, calls, click, pick, element>>

(* onload, and NavigationCompleted of a page that loaded: also of a page   *)
(* another took the place of.                                              *)
NoSync_PageEvent(v, e) ==
    /\ e \in pages[v].events
    /\ wv' = [wv EXCEPT !.ready = wv.started]
    /\ pages' = [pages EXCEPT ![v].events = @ \ {e}]
    /\ UNCHANGED <<engine, win, cands, calls, click, pick, element>>

PageEvent(v, e) ==
    LET w == [wv EXCEPT !.ready = wv.started]
        ps == pushWebViewState(w, cands)
    IN  /\ e \in pages[v].events
        /\ UNCHANGED win
        /\ wv' = putIsVisible(w)
        /\ pages' = [ps EXCEPT ![v].events = @ \ {e}]
        /\ UNCHANGED <<engine, cands, calls, click, pick, element>>

(* A script does nothing in a page that has no window.fcitx yet. *)
ScriptRuns(v) ==
    /\ pages[v].scripts # <<>>
    /\ pages' = [pages EXCEPT
          ![v].scripts = Tail(@),
          ![v].list = IF pages[v].shows = "fcitx"
                      THEN Head(pages[v].scripts) ELSE @]
    /\ UNCHANGED <<engine, win, cands, wv, calls, click, pick, element>>

-----------------------------------------------------------------------------
(* Picks. *)

Pickable(i) == cands # Nothing /\ i < Size[cands.list]

(* WM_LBUTTONDOWN: the rows answer as long as there is no controller. *)
LButtonDown(i) ==
    /\ win.visible
    /\ wv.view = 0
    /\ Pickable(i)
    /\ pick' = i
    /\ UNCHANGED <<engine, win, cands, wv, calls, pages, click, element>>

(* A click on a row the page shows, which may not be the list of now. *)
ClickInPage(i) ==
    /\ click = NoPick
    /\ win.visible /\ wv.view # 0 /\ wv.shown
    /\ LET shows == pages[wv.view].list
       IN  shows # Nothing /\ i < Size[shows.list]
    /\ click' = i
    /\ UNCHANGED <<engine, win, cands, wv, calls, pages, pick, element>>

(* Its message, select or pick. *)
SelectMessage ==
    /\ click # NoPick
    /\ click' = NoPick
    /\ pick' = IF Pickable(click) THEN click ELSE pick
    /\ UNCHANGED <<engine, win, cands, wv, calls, pages, element>>

(* An edit session serves the pick, or resetCompositionState drops it. *)
ServePick ==
    /\ pick # NoPick
    /\ pick' = NoPick
    /\ UNCHANGED <<engine, win, cands, wv, calls, pages, click, element>>

-----------------------------------------------------------------------------
Init ==
    /\ engine \in Engines
    /\ win = [made |-> 0, up |-> FALSE, visible |-> FALSE]
    /\ cands = Nothing
    /\ wv = NoWebView
    /\ calls = [environments |-> 0, controllers |-> 0]
    /\ pages = [v \in 1..MaxViews |-> NewPage]
    /\ click = NoPick
    /\ pick = NoPick
    /\ element = FALSE

Rows == UNION {0..(Size[l] - 1) : l \in Lists}

Next ==
    \/ \E l \in Lists : \E h \in -1..Size[l] : Show(l, h)
    \/ Hide
    \/ WindowDestroyed
    \/ DpiChanged
    \/ EnvironmentCreated
    \/ ControllerCreated
    \/ PageLoads
    \/ PageFails
    \/ \E v \in DOMAIN pages :
          \/ \E e \in {"onload", "navigationCompleted"} : PageEvent(v, e)
          \/ ScriptRuns(v)
    \/ \E i \in Rows : LButtonDown(i) \/ ClickInPage(i)
    \/ SelectMessage
    \/ ServePick

(* WebView2 finishes what it was given: a page being loaded loads or fails *)
(* for good, its events are delivered by the message loop and its scripts  *)
(* run.  An environment or a controller may never come.                    *)
Fairness ==
    /\ WF_vars(PageLoads)
    /\ \A v \in 1..MaxViews :
          /\ WF_vars(PageEvent(v, "navigationCompleted"))
          /\ WF_vars(ScriptRuns(v))

Spec == Init /\ [][Next]_vars /\ Fairness

-----------------------------------------------------------------------------
(* Types; the mark of the list is a row of it whatever index the engine    *)
(* gave (show), and the page is ready or shown for a web view only.        *)
TypeOK ==
    /\ engine \in Engines
    /\ win \in Window
    /\ win.visible => win.up
    /\ cands \in Contents \cup {Nothing}
    /\ wv \in WebViewState
    /\ wv.started => win.up
    /\ ~wv.started => wv = NoWebView
    /\ wv.shown => wv.view # 0
    /\ calls.environments \in 0..MaxWindows
    /\ calls.controllers \in 0..MaxWindows
    /\ pages \in [1..MaxViews -> Page]
    /\ click \in Rows \cup {NoPick}
    /\ pick \in Rows \cup {NoPick}
    /\ element \in BOOLEAN

(* What lies over the window: WebView2's own error page, or a controller   *)
(* that never got a web view.                                              *)
Covered ==
    /\ wv.shown
    /\ engine = "noWebview" \/ pages[wv.view].shows = "error"

(* What the user sees: in a visible window the list it paints (WM_PAINT),  *)
(* or what the page of a ready web view shows.                             *)
Seen ==
    IF ~win.visible \/ Covered THEN Nothing
    ELSE IF wv.view = 0 \/ ~wv.ready THEN cands
    ELSE IF wv.shown THEN pages[wv.view].list ELSE Nothing

Panel == INSTANCE CandidatePanel WITH
    able <- engine \notin {"noWebview", "noPage"},
    want <- cands,
    panel <- IF win.visible THEN "open"
             ELSE IF win.up THEN "hidden" ELSE "none",
    seen <- Seen,
    listed <- element

(* The window keeps the promises of CandidatePanel: where no page and no   *)
(* broken web view covers it, a list shown before, while or after its page *)
(* loads is in the end the one on the screen; a hidden window shows        *)
(* nothing, and only a show or a display change opens it; each hide ends   *)
(* the element too; and a click in a page that shows an older list picks a *)
(* row of the list of now or nothing.                                      *)
KeepsPanelPromises == Panel!Spec

===============================================================================
