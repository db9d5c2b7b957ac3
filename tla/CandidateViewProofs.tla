-------------------------- MODULE CandidateViewProofs --------------------------
(***************************************************************************)
(* The candidate window keeps the safety half of what CandidatePanel       *)
(* promises, for any lists and any number of windows, controllers and      *)
(* scripts.                                                                *)
(***************************************************************************)
EXTENDS CandidateView, TLAPS

(* Types.  A web view goes with its window; every environment and every    *)
(* controller under way was asked for by a window of its own; a window     *)
(* that is up and has a list is on the screen; and a click under way is in *)
(* a window that is still up, because the end of a window removes the      *)
(* handlers of its page.                                                   *)
Types ==
    /\ engine \in Engines
    /\ win \in Window
    /\ cands \in Contents \cup {Nothing}
    /\ wv \in WebViewState
    /\ calls \in [environments: Nat, controllers: Nat]
    /\ pages \in [1..MaxViews -> Page]
    /\ click \in Rows \cup {NoPick}
    /\ pick \in Rows \cup {NoPick}
    /\ element \in BOOLEAN

IndInv ==
    /\ Types
    /\ win.visible => win.up
    /\ wv.started <=> win.up
    /\ ~wv.started => wv = NoWebView
    /\ wv.shown => wv.view # 0
    /\ calls.environments + calls.controllers <= win.made
    /\ calls.controllers > 0 => wv.started
    /\ win.up /\ cands # Nothing => win.visible
    /\ click # NoPick => win.up

-----------------------------------------------------------------------------
LEMMA ContentsAre ==
    /\ \A c \in Contents : c.list \in Lists /\ c.mark \in 0..(Size[c.list] - 1)
    /\ \A l \in Lists : \A m \in 0..(Size[l] - 1) :
          [list |-> l, mark |-> m] \in Contents
    /\ \A l \in Lists : Size[l] \in Nat \ {0}
BY CandidateViewAssumption DEF Contents

LEMMA RowsAre ==
    /\ \A i \in Rows : i \in Nat /\ \E l \in Lists : i < Size[l]
    /\ \A l \in Lists : \A i \in 0..(Size[l] - 1) : i \in Rows
BY CandidateViewAssumption DEF Rows

LEMMA ClampIs ==
    ASSUME NEW l \in Lists, NEW h \in -1..Size[l]
    PROVE  [list |-> l, mark |-> clampHighlight(l, h)] \in Contents
<1>1. Size[l] \in Nat \ {0}
  BY ContentsAre
<1>2. clampHighlight(l, h) \in 0..(Size[l] - 1)
  BY <1>1 DEF clampHighlight
<1> QED
  BY <1>2, ContentsAre

LEMMA PageType ==
    /\ NewPage \in Page
    /\ \A p \in Page : /\ p.list \in Contents \cup {Nothing}
                       /\ p.scripts \in Seq(Contents)
<1>1. <<>> \in Seq(Contents)
  OBVIOUS
<1> QED
  BY <1>1 DEF Page, NewPage

(* A list pushed to a page leaves what the pages show alone.               *)
LEMMA pushType ==
    ASSUME Types, NEW v, v.view \in 0..MaxViews, NEW c \in Contents \cup {Nothing}
    PROVE  /\ pushWebViewState(v, c) \in [1..MaxViews -> Page]
           /\ \A n \in 1..MaxViews :
                 pushWebViewState(v, c)[n].list = pages[n].list
<1>1. pages \in [1..MaxViews -> Page]
  BY DEF Types
<1>2. CASE HasWebview(v) /\ v.ready /\ c # Nothing
  <2>1. v.view \in 1..MaxViews
    BY <1>2, CandidateViewAssumption DEF HasWebview
  <2>2. pages[v.view] \in Page /\ pages[v.view].scripts \in Seq(Contents)
    BY <1>1, <2>1, PageType
  <2>3. Append(pages[v.view].scripts, c) \in Seq(Contents)
    BY <1>2, <2>2
  <2>4. [pages[v.view] EXCEPT !.scripts = Append(@, c)] \in Page
    BY <2>2, <2>3 DEF Page
  <2>5. pushWebViewState(v, c) =
          [pages EXCEPT ![v.view] =
             [pages[v.view] EXCEPT !.scripts = Append(@, c)]]
    BY <1>1, <1>2, <2>1 DEF pushWebViewState
  <2> DEFINE p == [pages[v.view] EXCEPT !.scripts = Append(@, c)]
  <2>6. p.list = pages[v.view].list
    BY <2>2 DEF Page
  <2> HIDE DEF p
  <2>7. pushWebViewState(v, c) = [pages EXCEPT ![v.view] = p] /\ p \in Page
    BY <2>4, <2>5 DEF p
  <2> QED
    BY <1>1, <2>1, <2>6, <2>7
<1>3. CASE ~(HasWebview(v) /\ v.ready /\ c # Nothing)
  BY <1>1, <1>3 DEF pushWebViewState
<1> QED
  BY <1>2, <1>3

LEMMA putIsVisibleType ==
    ASSUME NEW v \in WebViewState, win' \in Window, v.shown => v.view # 0
    PROVE  /\ putIsVisible(v) \in WebViewState
           /\ putIsVisible(v).started = v.started
           /\ putIsVisible(v).view = v.view
           /\ putIsVisible(v).shown => v.view # 0
<1> DEFINE b == IF HasWebview(v) THEN win'.visible ELSE v.shown
<1>1. b \in BOOLEAN
  BY DEF Window, WebViewState
<1>2. putIsVisible(v) = [v EXCEPT !.shown = b]
  BY DEF putIsVisible
<1>3. b => v.view # 0
  BY DEF HasWebview
<1> HIDE DEF b
<1> QED
  BY <1>1, <1>2, <1>3 DEF WebViewState

-----------------------------------------------------------------------------
(* The invariant, action by action.                                        *)

LEMMA InitInv == Init => IndInv
<1> SUFFICES ASSUME Init PROVE IndInv
  OBVIOUS
<1>1. pages \in [1..MaxViews -> Page]
  BY PageType DEF Init
<1>2. /\ [made |-> 0, up |-> FALSE, visible |-> FALSE] \in Window
      /\ NoWebView \in WebViewState
  BY CandidateViewAssumption DEF Window, WebViewState, NoWebView
<1>3. [environments |-> 0, controllers |-> 0]
         \in [environments: Nat, controllers: Nat]
  OBVIOUS
<1>4. Types
  BY <1>1, <1>2, <1>3 DEF Init, Types
<1> QED
  BY <1>4 DEF Init, IndInv, NoWebView

LEMMA ShowInv ==
    ASSUME IndInv, NEW l \in Lists, NEW h \in -1..Size[l], Show(l, h)
    PROVE  IndInv'
<1> DEFINE c == [list |-> l, mark |-> clampHighlight(l, h)]
<1>1. c \in Contents
  BY ClampIs
<1>2. /\ cands' = c /\ element' \in BOOLEAN
      /\ UNCHANGED <<engine, click, pick>>
  BY DEF Show, syncCandidateListUiElement, IndInv, Types
<1>3. PICK w \in ensureWindow :
        IF w.up
        THEN /\ win' = [w EXCEPT !.visible = TRUE]
             /\ ensureWebView
             /\ syncWebView([wv EXCEPT !.started = TRUE], c)
        ELSE UNCHANGED <<win, calls, wv, pages>>
  BY DEF Show
<1> HIDE DEF c
<1>4. Types /\ win \in Window /\ wv \in WebViewState
  BY DEF IndInv, Types
<1>5. \/ w = win
      \/ /\ ~win.up /\ win.made + 1 \in 1..MaxWindows
         /\ w = [made |-> win.made + 1, up |-> TRUE, visible |-> FALSE]
  BY <1>3, <1>4 DEF ensureWindow, Window
<1>6. CASE ~w.up
  <2>1. w = win /\ UNCHANGED <<win, calls, wv, pages>>
    BY <1>3, <1>5, <1>6
  <2>2. Types'
    BY <1>1, <1>2, <1>4, <2>1 DEF Types
  <2> QED
    BY <1>2, <1>6, <2>1, <2>2 DEF IndInv
<1>7. CASE w.up
  <2> DEFINE v == [wv EXCEPT !.started = TRUE]
  <2>1. /\ v \in WebViewState /\ v.started /\ v.view = wv.view
        /\ v.shown => v.view # 0
    BY <1>4 DEF WebViewState, IndInv
  <2>2. /\ win' = [w EXCEPT !.visible = TRUE]
        /\ ensureWebView
        /\ wv' = putIsVisible(v) /\ pages' = pushWebViewState(v, c)
    BY <1>3, <1>7 DEF syncWebView
  <2> HIDE DEF v
  <2>3. /\ win' \in Window /\ win'.visible /\ win'.up
        /\ win'.made = w.made
    <3>1. w \in Window
      <4>1. CASE w = win
        BY <1>4, <4>1
      <4>2. CASE /\ win.made + 1 \in 1..MaxWindows
                 /\ w = [made |-> win.made + 1, up |-> TRUE, visible |-> FALSE]
        <5>1. win.made + 1 \in 0..MaxWindows
          BY <4>2, CandidateViewAssumption
        <5> DEFINE m == win.made + 1
        <5> HIDE DEF m
        <5>2. m \in 0..MaxWindows
              /\ w = [made |-> m, up |-> TRUE, visible |-> FALSE]
          BY <4>2, <5>1 DEF m
        <5> QED
          BY <5>2 DEF Window
      <4> QED
        BY <1>5, <4>1, <4>2
    <3> QED
      BY <1>7, <2>2, <3>1 DEF Window
  <2>4. /\ wv' \in WebViewState /\ wv'.started
        /\ wv'.shown => wv'.view # 0
    BY <2>1, <2>2, <2>3, putIsVisibleType
  <2>5. pages' \in [1..MaxViews -> Page]
    <3>1. v.view \in 0..MaxViews
      BY <2>1 DEF WebViewState
    <3> QED
      BY <1>1, <1>4, <2>2, <3>1, pushType
  <2>6. /\ calls' \in [environments: Nat, controllers: Nat]
        /\ calls'.environments + calls'.controllers <= w.made
    <3>1. calls \in [environments: Nat, controllers: Nat]
      BY <1>4 DEF Types
    <3>2. /\ calls.environments + calls.controllers <= win.made
          /\ wv.started <=> win.up
      BY DEF IndInv
    <3>3. win.made \in Nat
      BY <1>4 DEF Window
    <3>4. CASE wv.started
      <4>1. w = win /\ calls' = calls
        BY <1>5, <2>2, <3>2, <3>4 DEF ensureWebView
      <4> QED
        BY <3>1, <3>2, <4>1
    <3>5. CASE ~wv.started
      <4>1. w.made = win.made + 1
        BY <1>5, <1>7, <3>2, <3>5
      <4>2. calls' = calls \/ calls' = [calls EXCEPT !.environments = @ + 1]
        BY <2>2, <3>5 DEF ensureWebView
      <4> QED
        BY <3>1, <3>2, <3>3, <4>1, <4>2
    <3> QED
      BY <3>4, <3>5
  <2>7. Types'
    BY <1>1, <1>2, <1>4, <2>3, <2>4, <2>5, <2>6 DEF Types
  <2> QED
    BY <2>3, <2>4, <2>6, <2>7 DEF IndInv
<1> QED
  BY <1>6, <1>7

LEMMA HideInv ==
    ASSUME IndInv, Hide
    PROVE  IndInv'
<1>1. Types /\ win \in Window /\ wv \in WebViewState
  BY DEF IndInv, Types
<1>2. /\ win' \in Window /\ win'.made = win.made /\ win'.up = win.up
      /\ ~win'.visible
  BY <1>1 DEF Hide, Window
<1>3. /\ wv' \in WebViewState /\ wv'.started = wv.started /\ ~wv'.shown
      /\ wv = NoWebView => wv' = NoWebView
  <2>1. wv' = [wv EXCEPT !.shown = FALSE]
    BY DEF Hide
  <2>2. ASSUME wv = NoWebView PROVE wv' = NoWebView
    <3>1. wv.shown = FALSE
      BY <2>2 DEF NoWebView
    <3>2. [wv EXCEPT !.shown = FALSE] = wv
      BY <1>1, <3>1 DEF WebViewState
    <3> QED
      BY <2>1, <2>2, <3>2
  <2> QED
    BY <1>1, <2>1, <2>2 DEF WebViewState
<1>4. Types'
  BY <1>1, <1>2, <1>3 DEF Types, Hide
<1> QED
  BY <1>2, <1>3, <1>4 DEF IndInv, Hide

LEMMA WindowDestroyedInv ==
    ASSUME IndInv, WindowDestroyed
    PROVE  IndInv'
<1>1. /\ Types /\ win \in Window /\ wv \in WebViewState
      /\ pages \in [1..MaxViews -> Page]
      /\ calls \in [environments: Nat, controllers: Nat]
  BY DEF IndInv, Types
<1>2. /\ win' \in Window /\ win'.made = win.made /\ ~win'.up
      /\ ~win'.visible
  BY <1>1 DEF WindowDestroyed, Window
<1>3. wv' = NoWebView /\ NoWebView \in WebViewState
  BY CandidateViewAssumption DEF WindowDestroyed, NoWebView, WebViewState
<1>4. pages' \in [1..MaxViews -> Page]
  BY <1>1, PageType DEF WindowDestroyed
<1>5. /\ calls' \in [environments: Nat, controllers: Nat]
      /\ calls'.environments + calls'.controllers <= win'.made
  <2>1. /\ calls.environments + calls.controllers <= win.made
        /\ win.made \in Nat
    BY <1>1 DEF IndInv, Window
  <2> QED
    BY <1>1, <1>2, <2>1 DEF WindowDestroyed
<1>6. Types'
  BY <1>1, <1>2, <1>3, <1>4, <1>5 DEF Types, WindowDestroyed
<1> QED
  BY <1>2, <1>3, <1>5, <1>6 DEF IndInv, WindowDestroyed, NoWebView

LEMMA DpiChangedInv ==
    ASSUME IndInv, DpiChanged
    PROVE  IndInv'
<1>1. /\ Types /\ win \in Window /\ wv \in WebViewState
      /\ cands \in Contents \cup {Nothing}
      /\ wv.shown => wv.view # 0
  BY DEF IndInv, Types
<1>2. /\ win' \in Window /\ win'.made = win.made /\ win'.up /\ win.up
      /\ win'.visible
  BY <1>1 DEF DpiChanged, Window
<1>3. /\ wv' \in WebViewState /\ wv'.started = wv.started
      /\ wv'.shown => wv'.view # 0
  BY <1>1, <1>2, putIsVisibleType DEF DpiChanged, syncWebView
<1>4. pages' \in [1..MaxViews -> Page]
  <2>1. wv.view \in 0..MaxViews
    BY <1>1 DEF WebViewState
  <2> QED
    BY <1>1, <2>1, pushType DEF DpiChanged, syncWebView
<1>5. Types'
  BY <1>1, <1>2, <1>3, <1>4 DEF Types, DpiChanged
<1> QED
  BY <1>2, <1>3, <1>5 DEF IndInv, DpiChanged

LEMMA AnswersInv ==
    ASSUME IndInv, EnvironmentCreated \/ ControllerCreated
    PROVE  IndInv'
<1>1. /\ Types /\ win \in Window /\ wv \in WebViewState
      /\ calls \in [environments: Nat, controllers: Nat]
      /\ calls.environments + calls.controllers <= win.made
      /\ win.made \in Nat
  BY DEF IndInv, Types, Window
<1>2. CASE EnvironmentCreated
  <2>1. /\ calls' \in [environments: Nat, controllers: Nat]
        /\ calls'.environments + calls'.controllers <= win.made
        /\ calls'.controllers > 0 => wv.started
    <3>1. calls.controllers > 0 => wv.started
      BY DEF IndInv
    <3>2. CASE wv.started /\ engine # "noEnvironment"
      BY <1>1, <1>2, <3>2 DEF EnvironmentCreated
    <3>3. CASE ~(wv.started /\ engine # "noEnvironment")
      <4>1. calls' = [environments |-> calls.environments - 1,
                      controllers |-> calls.controllers + 0]
            /\ calls.environments > 0
        BY <1>2, <3>3 DEF EnvironmentCreated
      <4> QED
        BY <1>1, <3>1, <4>1
    <3> QED
      BY <3>2, <3>3
  <2>2. UNCHANGED <<engine, win, cands, wv, pages, click, pick, element>>
    BY <1>2 DEF EnvironmentCreated
  <2>3. Types'
    BY <1>1, <2>1, <2>2 DEF Types
  <2> QED
    BY <2>1, <2>2, <2>3 DEF IndInv
<1>3. CASE ControllerCreated
  <2>1. /\ calls' \in [environments: Nat, controllers: Nat]
        /\ calls'.environments + calls'.controllers <= win.made
        /\ calls.controllers > 0
    <3>1. calls.controllers > 0 /\ calls' = [calls EXCEPT !.controllers = @ - 1]
      BY <1>3 DEF ControllerCreated
    <3> QED
      BY <1>1, <3>1
  <2>2. UNCHANGED <<engine, win, cands, pages, click, pick, element>>
    BY <1>3 DEF ControllerCreated
  <2>3. wv.started
    BY <2>1 DEF IndInv
  <2>4. CASE wv' = wv
    <3>1. Types'
      BY <1>1, <2>1, <2>2, <2>4 DEF Types
    <3> QED
      BY <2>1, <2>2, <2>4, <3>1 DEF IndInv
  <2>5. ASSUME NEW v \in DOMAIN pages,
               wv' = [wv EXCEPT
                         !.view = v,
                         !.shown = win.visible \/ engine = "noWebview"]
        PROVE  IndInv'
    <3>1. v \in 1..MaxViews /\ v \in 0..MaxViews /\ v # 0
      BY <1>1, CandidateViewAssumption DEF Types
    <3>2. win.visible \in BOOLEAN
      BY <1>1 DEF Window
    <3>3. /\ wv' \in WebViewState /\ wv'.started = wv.started
          /\ wv'.view # 0
      BY <1>1, <2>5, <3>1, <3>2 DEF WebViewState
    <3>4. Types'
      BY <1>1, <2>1, <2>2, <3>3 DEF Types
    <3> QED
      BY <2>1, <2>2, <2>3, <2>5, <3>3, <3>4 DEF IndInv
  <2> QED
    BY <1>3, <2>4, <2>5 DEF ControllerCreated
<1> QED
  BY <1>2, <1>3

(* A page loads, its events are delivered and its scripts run.             *)
LEMMA PagesInv ==
    ASSUME IndInv,
           \/ PageLoads
           \/ PageFails
           \/ \E v \in DOMAIN pages :
                 \/ \E e \in {"onload", "navigationCompleted"} : PageEvent(v, e)
                 \/ ScriptRuns(v)
    PROVE  IndInv'
<1>1. /\ Types /\ win \in Window /\ wv \in WebViewState
      /\ cands \in Contents \cup {Nothing}
      /\ pages \in [1..MaxViews -> Page] /\ DOMAIN pages = 1..MaxViews
  BY DEF IndInv, Types
<1>2. CASE PageLoads
  <2>1. wv.view \in 1..MaxViews
    BY <1>1, <1>2, CandidateViewAssumption DEF PageLoads, WebViewState
  <2>2. PICK e \in {{"navigationCompleted"}, {"navigationCompleted", "onload"}} :
          pages' = [pages EXCEPT ![wv.view].shows = "fcitx",
                                 ![wv.view].events = e]
    BY <1>2 DEF PageLoads
  <2> DEFINE p == [[pages[wv.view] EXCEPT !.shows = "fcitx"] EXCEPT !.events = e]
  <2>3. pages' = [pages EXCEPT ![wv.view] = p]
    BY <1>1, <2>1, <2>2
  <2>4. p \in Page
    <3>1. e \in SUBSET {"onload", "navigationCompleted"}
      BY <2>2
    <3>2. pages[wv.view] \in Page
      BY <1>1, <2>1
    <3> QED
      BY <3>1, <3>2 DEF Page
  <2> HIDE DEF p
  <2>5. pages' \in [1..MaxViews -> Page]
    BY <1>1, <2>3, <2>4
  <2>6. Types'
    BY <1>1, <1>2, <2>5 DEF Types, PageLoads
  <2> QED
    BY <1>2, <2>6 DEF IndInv, PageLoads
<1>3. CASE PageFails
  <2>1. wv.view \in 1..MaxViews
    BY <1>1, <1>3, CandidateViewAssumption DEF PageFails, WebViewState
  <2> DEFINE p == [pages[wv.view] EXCEPT !.shows = "error"]
  <2>2. pages' = [pages EXCEPT ![wv.view] = p]
    BY <1>1, <1>3, <2>1 DEF PageFails
  <2>3. p \in Page
    BY <1>1, <2>1 DEF Page
  <2> HIDE DEF p
  <2>4. pages' \in [1..MaxViews -> Page]
    BY <1>1, <2>2, <2>3
  <2>5. Types'
    BY <1>1, <1>3, <2>4 DEF Types, PageFails
  <2> QED
    BY <1>3, <2>5 DEF IndInv, PageFails
<1>4. ASSUME NEW v \in DOMAIN pages, NEW e, PageEvent(v, e)
      PROVE  IndInv'
  <2> DEFINE b == wv.started
             w == [wv EXCEPT !.ready = b]
             ps == pushWebViewState(w, cands)
  <2>1. /\ UNCHANGED <<engine, win, cands, calls, click, pick, element>>
        /\ wv' = putIsVisible(w)
        /\ pages' = [ps EXCEPT ![v].events = @ \ {e}]
    BY <1>4 DEF PageEvent
  <2>2. b \in BOOLEAN /\ b = wv.started
    BY <1>1 DEF WebViewState
  <2> HIDE DEF b
  <2>3. /\ w \in WebViewState /\ w.view = wv.view /\ w.started = wv.started
        /\ w.shown = wv.shown /\ w.ready = b
        /\ w.shown => w.view # 0
    BY <1>1, <2>2 DEF WebViewState, IndInv
  <2>4. w.view \in 0..MaxViews
    BY <2>3 DEF WebViewState
  <2> HIDE DEF w
  <2>5. ps \in [1..MaxViews -> Page]
    BY <1>1, <2>4, pushType
  <2> HIDE DEF ps
  <2>6. pages' \in [1..MaxViews -> Page]
    <3>1. v \in 1..MaxViews
      BY <1>1
    <3> DEFINE ev == ps[v].events \ {e}
               p == [ps[v] EXCEPT !.events = ev]
    <3>2. ps[v] \in Page
      BY <2>5, <3>1
    <3>3. ev \in SUBSET {"onload", "navigationCompleted"}
      BY <3>2 DEF Page
    <3>4. pages' = [ps EXCEPT ![v] = p]
      BY <2>1, <2>5, <3>1
    <3> HIDE DEF ev
    <3>5. p \in Page
      BY <3>2, <3>3 DEF Page
    <3> HIDE DEF p
    <3> QED
      BY <2>5, <3>1, <3>4, <3>5
  <2>7. /\ wv' \in WebViewState /\ wv'.started = wv.started
        /\ wv'.shown => wv'.view # 0
    BY <1>1, <2>1, <2>3, putIsVisibleType
  <2>8. wv = NoWebView => wv' = NoWebView
    <3>1. SUFFICES ASSUME wv = NoWebView PROVE wv' = NoWebView
      OBVIOUS
    <3>2. w = NoWebView
      <4>1. wv.ready = FALSE /\ b = FALSE
        BY <2>2, <3>1 DEF NoWebView
      <4>2. [wv EXCEPT !.ready = FALSE] = wv
        BY <1>1, <4>1 DEF WebViewState
      <4> QED
        BY <3>1, <4>1, <4>2 DEF w
    <3>3. ~HasWebview(NoWebView) /\ NoWebView.shown = FALSE
      BY DEF HasWebview, NoWebView
    <3>4. wv' = [NoWebView EXCEPT !.shown = FALSE]
      BY <2>1, <3>2, <3>3 DEF putIsVisible
    <3> QED
      BY <3>4 DEF NoWebView
  <2>9. Types'
    BY <1>1, <2>1, <2>6, <2>7 DEF Types
  <2> QED
    BY <2>1, <2>7, <2>8, <2>9 DEF IndInv
<1>5. ASSUME NEW v \in DOMAIN pages, ScriptRuns(v)
      PROVE  IndInv'
  <2>1. v \in 1..MaxViews /\ pages[v] \in Page
    BY <1>1
  <2>2. /\ pages[v].scripts \in Seq(Contents) /\ pages[v].scripts # <<>>
        /\ pages[v].list \in Contents \cup {Nothing}
    BY <1>5, <2>1, PageType DEF ScriptRuns
  <2> DEFINE t == Tail(pages[v].scripts)
             l == IF pages[v].shows = "fcitx" THEN Head(pages[v].scripts)
                  ELSE pages[v].list
             p == [[pages[v] EXCEPT !.scripts = t] EXCEPT !.list = l]
  <2>3. t \in Seq(Contents) /\ l \in Contents \cup {Nothing}
    BY <2>2
  <2>4. pages' = [pages EXCEPT ![v] = p]
    BY <1>1, <1>5, <2>1 DEF ScriptRuns
  <2> HIDE DEF t, l
  <2>5. p \in Page
    BY <2>1, <2>3 DEF Page
  <2> HIDE DEF p
  <2>6. pages' \in [1..MaxViews -> Page]
    BY <1>1, <2>4, <2>5
  <2>7. UNCHANGED <<engine, win, cands, wv, calls, click, pick, element>>
    BY <1>5 DEF ScriptRuns
  <2>8. Types'
    BY <1>1, <2>6, <2>7 DEF Types
  <2> QED
    BY <2>7, <2>8 DEF IndInv
<1> QED
  BY <1>2, <1>3, <1>4, <1>5

LEMMA PicksInv ==
    ASSUME IndInv,
           \/ \E i \in Rows : LButtonDown(i) \/ ClickInPage(i)
           \/ SelectMessage
           \/ ServePick
    PROVE  IndInv'
<1>1. Types
  BY DEF IndInv
<1>2. ASSUME NEW i \in Rows, LButtonDown(i) \/ ClickInPage(i)
      PROVE  IndInv'
  <2>1. Types' /\ UNCHANGED <<engine, win, cands, wv, calls, pages, element>>
    BY <1>1, <1>2 DEF Types, LButtonDown, ClickInPage
  <2>2. click' # NoPick => win'.up
    BY <1>2, <2>1 DEF IndInv, LButtonDown, ClickInPage
  <2> QED
    BY <2>1, <2>2 DEF IndInv
<1>3. CASE SelectMessage
  <2>1. Types'
    BY <1>1, <1>3 DEF Types, SelectMessage
  <2> QED
    BY <1>3, <2>1 DEF IndInv, SelectMessage
<1>4. CASE ServePick
  <2>1. Types'
    BY <1>1, <1>4 DEF Types, ServePick
  <2> QED
    BY <1>4, <2>1 DEF IndInv, ServePick
<1> QED
  BY <1>2, <1>3, <1>4

LEMMA NextInv == IndInv /\ [Next]_vars => IndInv'
<1> SUFFICES ASSUME IndInv, [Next]_vars PROVE IndInv'
  OBVIOUS
<1>1. CASE Next
  BY <1>1, ShowInv, HideInv, WindowDestroyedInv, DpiChangedInv, AnswersInv,
     PagesInv, PicksInv DEF Next
<1>2. CASE UNCHANGED vars
  BY <1>2 DEF vars, IndInv, Types
<1> QED
  BY <1>1, <1>2

(* The invariant holds throughout.                                         *)
THEOREM Invariant == Spec => []IndInv
BY InitInv, NextInv, PTL DEF Spec

(* Every variable keeps its type; in particular the mark of the list is a  *)
(* row of it, no more environments and controllers are under way than      *)
(* windows were made, and a web view is shown only in a window that is up  *)
(* (CandidateWindow::show, ensureWebView, WM_DESTROY).                     *)
THEOREM TypeCorrect == Spec => []TypeOK
<1>1. IndInv => TypeOK
  <2> SUFFICES ASSUME IndInv PROVE TypeOK
    OBVIOUS
  <2>1. /\ calls \in [environments: Nat, controllers: Nat]
        /\ calls.environments + calls.controllers <= win.made
        /\ win.made \in 0..MaxWindows
    BY DEF IndInv, Types, Window
  <2>2. /\ calls.environments \in 0..MaxWindows
        /\ calls.controllers \in 0..MaxWindows
    BY <2>1, CandidateViewAssumption
  <2> QED
    BY <2>2 DEF IndInv, Types, TypeOK
<1> QED
  BY <1>1, Invariant, PTL

-----------------------------------------------------------------------------
(* The promises of CandidatePanel.                                         *)

LEMMA PanelContents == Panel!Contents = Contents
BY DEF Panel!Contents, Contents

(* After every step the panel shows a list or an empty box, and nothing    *)
(* when it is not open.                                                    *)
LEMMA PaintsIs ==
    ASSUME IndInv'
    PROVE  Panel!Paints
<1>1. /\ Seen' \in Contents \cup {Nothing}
      /\ ~win'.visible => Seen' = Nothing
  <2>1. /\ cands' \in Contents \cup {Nothing}
        /\ pages' \in [1..MaxViews -> Page] /\ wv' \in WebViewState
    BY DEF IndInv, Types
  <2>2. wv'.view # 0 => pages'[wv'.view].list \in Contents \cup {Nothing}
    <3>1. wv'.view # 0 => wv'.view \in 1..MaxViews
      BY <2>1, CandidateViewAssumption DEF WebViewState
    <3> QED
      BY <2>1, <3>1, PageType
  <2> QED
    BY <2>1, <2>2 DEF Seen
<1> QED
  BY <1>1, PanelContents DEF Panel!Paints

(* A step that changes at most the page leaves the panel alone or repaints *)
(* it.                                                                     *)
LEMMA RepaintStep ==
    ASSUME IndInv, IndInv', UNCHANGED <<engine, win, cands, element, pick>>
    PROVE  [Panel!Next]_(Panel!vars)
<1>1. CASE win.visible
  <2>1. Panel!Repaint
    BY <1>1, PaintsIs DEF Panel!Repaint
  <2> QED
    BY <2>1 DEF Panel!Next
<1>2. CASE ~win.visible
  <2>1. Seen = Nothing /\ Seen' = Nothing
    BY <1>2 DEF Seen
  <2> QED
    BY <2>1 DEF Panel!vars
<1> QED
  BY <1>1, <1>2

LEMMA ShowStep ==
    ASSUME IndInv, IndInv', NEW l \in Lists, NEW h \in -1..Size[l], Show(l, h)
    PROVE  [Panel!Next]_(Panel!vars)
<1> DEFINE c == [list |-> l, mark |-> clampHighlight(l, h)]
<1>1. c \in Contents
  BY ClampIs
<1>2. /\ cands' = c /\ element' \in {element, TRUE} /\ pick' = pick
      /\ UNCHANGED engine
  BY DEF Show, syncCandidateListUiElement
<1>3. PICK w \in ensureWindow :
        IF w.up
        THEN /\ win' = [w EXCEPT !.visible = TRUE]
             /\ ensureWebView
             /\ syncWebView([wv EXCEPT !.started = TRUE], c)
        ELSE UNCHANGED <<win, calls, wv, pages>>
  BY DEF Show
<1> HIDE DEF c
<1>4. win \in Window
  BY DEF IndInv, Types
<1>5. \/ w = win
      \/ w = [made |-> win.made + 1, up |-> TRUE, visible |-> FALSE]
  BY <1>3 DEF ensureWindow
<1>6. CASE w.up
  <2>1. win'.up /\ win'.visible
    <3>1. win' = [w EXCEPT !.visible = TRUE]
      BY <1>3, <1>6
    <3>2. CASE w = win
      BY <1>4, <1>6, <3>1, <3>2 DEF Window
    <3>3. CASE w = [made |-> win.made + 1, up |-> TRUE, visible |-> FALSE]
      BY <3>1, <3>3
    <3> QED
      BY <1>5, <3>2, <3>3
  <2>2. win'.visible = TRUE
    BY <2>1 DEF IndInv, Types, Window
  <2>3. Panel!Show(c)
    BY <1>2, <2>2, PaintsIs DEF Panel!Show
  <2> QED
    BY <1>1, <1>2, <2>3, PanelContents DEF Panel!Next
<1>7. CASE ~w.up
  <2>1. w = win /\ win' = win
    BY <1>3, <1>5, <1>7
  <2>2. ~win.up /\ ~win.visible
    BY <1>7, <2>1 DEF IndInv
  <2>3. Panel!Show(c)
    BY <1>2, <2>1, <2>2, PaintsIs DEF Panel!Show
  <2> QED
    BY <1>1, <1>2, <2>3, PanelContents DEF Panel!Next
<1> QED
  BY <1>6, <1>7

LEMMA HideStep ==
    ASSUME IndInv, IndInv', Hide
    PROVE  [Panel!Next]_(Panel!vars)
<1>1. win \in Window /\ UNCHANGED engine /\ (win.visible => win.up)
  BY DEF IndInv, Types, Hide
<1>2. win'.visible = FALSE /\ win'.up = win.up
  BY <1>1 DEF Hide, Window
<1>3. Panel!Hide
  BY <1>1, <1>2, PaintsIs DEF Panel!Hide, Hide
<1> QED
  BY <1>1, <1>3 DEF Panel!Next

LEMMA WindowDestroyedStep ==
    ASSUME IndInv, IndInv', WindowDestroyed
    PROVE  [Panel!Next]_(Panel!vars)
<1>1. win \in Window /\ UNCHANGED <<engine, cands, pick, element>>
  BY DEF IndInv, Types, WindowDestroyed
<1>2. win'.visible = FALSE /\ win'.up = FALSE
  BY <1>1 DEF WindowDestroyed, Window
<1>3. Panel!WindowGoes
  BY <1>1, <1>2, PaintsIs DEF Panel!WindowGoes
<1> QED
  BY <1>1, <1>3 DEF Panel!Next

LEMMA DisplayStep ==
    ASSUME IndInv, IndInv', DpiChanged
    PROVE  [Panel!Next]_(Panel!vars)
<1>1. win.up /\ win'.up /\ win'.visible = TRUE
  BY DEF IndInv, Types, DpiChanged, Window
<1>2. UNCHANGED <<engine, cands, pick, element>>
  BY DEF DpiChanged
<1>3. Panel!DisplayChanges
  BY <1>1, <1>2, PaintsIs DEF Panel!DisplayChanges
<1> QED
  BY <1>2, <1>3 DEF Panel!Next

(* A row that is picked is a row of the list that is wanted.               *)
LEMMA PickStep ==
    ASSUME IndInv, UNCHANGED <<engine, win, cands, wv, pages, element>>
    PROVE  /\ pick' = pick => [Panel!Next]_(Panel!vars)
           /\ pick' = NoPick => [Panel!Next]_(Panel!vars)
           /\ \A i \in Rows : Pickable(i) /\ win.visible /\ pick' = i
                 => [Panel!Next]_(Panel!vars)
<1>1. Seen' = Seen
  BY DEF Seen, Covered
<1>2. CASE pick' = pick
  BY <1>1, <1>2 DEF Panel!vars
<1>3. CASE pick' = NoPick
  <2>1. Panel!Serve
    BY <1>1, <1>3 DEF Panel!Serve
  <2> QED
    BY <2>1 DEF Panel!Next
<1>4. ASSUME NEW i \in Rows, Pickable(i), win.visible, pick' = i
      PROVE  [Panel!Next]_(Panel!vars)
  <2>1. cands \in Contents /\ win.up
    BY <1>4 DEF IndInv, Types, Pickable
  <2>2. i \in 0..(Size[cands.list] - 1)
    BY <1>4, <2>1, ContentsAre, RowsAre DEF Pickable
  <2>3. Panel!Pick(i)
    BY <1>1, <1>4, <2>1 DEF Panel!Pick, Pickable
  <2> QED
    BY <2>1, <2>2, <2>3, PanelContents DEF Panel!Next
<1> QED
  BY <1>2, <1>3, <1>4

LEMMA PanelStep ==
    ASSUME IndInv, IndInv', [Next]_vars
    PROVE  [Panel!Next]_(Panel!vars)
<1>1. ASSUME NEW l \in Lists, NEW h \in -1..Size[l], Show(l, h)
      PROVE  [Panel!Next]_(Panel!vars)
  BY <1>1, ShowStep
<1>2. CASE Hide \/ WindowDestroyed
  BY <1>2, HideStep, WindowDestroyedStep
<1>3. CASE DpiChanged
  BY <1>3, DisplayStep
<1>4. CASE EnvironmentCreated
  BY <1>4, RepaintStep DEF EnvironmentCreated
<1>5. CASE ControllerCreated
  BY <1>5, RepaintStep DEF ControllerCreated
<1>6. CASE PageLoads \/ PageFails
  BY <1>6, RepaintStep DEF PageLoads, PageFails
<1>7. ASSUME NEW v, NEW e, PageEvent(v, e)
      PROVE  [Panel!Next]_(Panel!vars)
  BY <1>7, RepaintStep DEF PageEvent
<1>8. ASSUME NEW v, ScriptRuns(v)
      PROVE  [Panel!Next]_(Panel!vars)
  BY <1>8, RepaintStep DEF ScriptRuns
<1>9. ASSUME NEW i \in Rows, LButtonDown(i)
      PROVE  [Panel!Next]_(Panel!vars)
  BY <1>9, PickStep DEF LButtonDown
<1>10. ASSUME NEW i \in Rows, ClickInPage(i)
       PROVE  [Panel!Next]_(Panel!vars)
  BY <1>10, PickStep DEF ClickInPage
<1>11. CASE SelectMessage
  <2>1. /\ UNCHANGED <<engine, win, cands, wv, pages, element>>
        /\ pick' = IF Pickable(click) THEN click ELSE pick
    BY <1>11 DEF SelectMessage
  <2>2. Pickable(click) => click \in Rows /\ win.visible
    BY <1>11 DEF SelectMessage, IndInv, Types, Pickable
  <2>3. CASE Pickable(click)
    BY <2>1, <2>2, <2>3, PickStep
  <2>4. CASE ~Pickable(click)
    BY <2>1, <2>4, PickStep
  <2> QED
    BY <2>3, <2>4
<1>12. CASE ServePick
  BY <1>12, PickStep DEF ServePick
<1>13. CASE UNCHANGED vars
  BY <1>13, RepaintStep DEF vars
<1> QED
  BY <1>1, <1>2, <1>3, <1>4, <1>5, <1>6, <1>7, <1>8, <1>9, <1>10, <1>11,
     <1>12, <1>13 DEF Next

(* The safety half of KeepsPanelPromises: whatever WebView2 answers, in    *)
(* whatever order with shows, hides, display changes and the end of the    *)
(* window, a panel that is not open shows nothing; it opens only for a     *)
(* list or a display change, and fails to open for a list only where there *)
(* was no window; giving the list up hides it and ends the element; and a  *)
(* click in the window or in a page of an older list picks a row of the    *)
(* wanted list or nothing (CandidateWindow.cpp, syncCandidateListUiElement *)
(* and endCandidateListUiElement).                                         *)
THEOREM KeepsPanelSafety == Spec => Panel!Init /\ [][Panel!Next]_(Panel!vars)
<1>1. Init => Panel!Init
  BY DEF Init, Panel!Init, Seen
<1>2. IndInv /\ IndInv' /\ [Next]_vars => [Panel!Next]_(Panel!vars)
  BY PanelStep
<1> QED
  BY <1>1, <1>2, Invariant, PTL DEF Spec

================================================================================
