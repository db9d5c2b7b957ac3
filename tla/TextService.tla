----------------------------- MODULE TextService -----------------------------
(***************************************************************************)
(* The edit sessions of the text service: win32/tsf/EditSession.cpp with   *)
(* the callbacks that run or disturb them (KeyEventSink.cpp, the candidate *)
(* window's pick callback in tsf.cpp, CompositionSink.cpp, TextEditSink.cpp*)
(* ThreadMgrEventSink.cpp, Deactivate, and the tray entry points of        *)
(* LangBarTray.cpp).                                                       *)
(*                                                                         *)
(* Three parties hold a copy of what the user is typing: the input method  *)
(* engine (preedit, candidate list, queue of finished commits), the        *)
(* document (committed text and the composition that displays the preedit) *)
(* and the candidate window.  Every callback runs to its end on the host's *)
(* UI thread, with its edit session inside it (all requests are            *)
(* TF_ES_SYNC), so an action is a callback; what is left to chance is the  *)
(* order of the callbacks, what the engine answers, whether a session is   *)
(* granted, whether a composition can be started, and whether the engine's *)
(* pipe is up.                                                             *)
(*                                                                         *)
(* A preedit text and a candidate list are tokens; 0 is the empty one.  A  *)
(* commit is its sequence number, or 0 when its text is empty.             *)
(***************************************************************************)
EXTENDS Naturals, Sequences, FiniteSets

CONSTANTS
    Contexts,        \* the ITfContext objects the focus moves between
    NoContext,       \* a null context or composition
    NoPick,          \* pendingMousePick_ = -1
    Preedits,        \* the preedit texts
    Lists,           \* the candidate lists
    MaxCommits,      \* bound: commits the engine produces in a behaviour
    SessionMayFail,  \* the host may refuse an edit session
    StartMayFail,    \* the host may refuse a composition
    Refusals,        \* the sets of commits the application may refuse to take
    EmptyCommits,    \* the engine may commit an empty text
    BackMayCommit,   \* a Backspace may commit and leave a preedit
    PipeMayFail      \* the engine is PipeImeEngine and its server may die

NoList == 0
NoPreedit == 0

ASSUME TextServiceAssumption ==
    /\ NoContext \notin Contexts
    /\ Preedits \subseteq Nat \ {0} /\ Lists \subseteq Nat \ {0}
    /\ MaxCommits \in Nat
    /\ Refusals \subseteq SUBSET (1..MaxCommits)
    /\ {SessionMayFail, StartMayFail, EmptyCommits, BackMayCommit, PipeMayFail}
          \subseteq BOOLEAN

VARIABLES
    chinese,   \* chineseActive_
    ctx,       \* textEditSinkContext_
    fallback,  \* trayEditContextFallback_
    pick,      \* pendingMousePick_, as the list the user clicked in and
               \* whether the panel was changed behind the click (history)
    up,        \* the engine answers (always, unless PipeMayFail)
    ime,       \* composition, window, engine panel and commits: see Ime
    last       \* history: the last callback, whether it claimed its key and
               \* whether the engine could be reached; of a toggle, whether
               \* it was granted an edit session

vars == <<chinese, ctx, fallback, pick, up, ime, last>>

(* comp       composition_ and compositionRange_: the context they are in  *)
(* shown      the text in the composition range                            *)
(* win        the list the candidate window and the UI element show        *)
(* preedit, list   the engine's panel (for the pipe: the cached snapshot)  *)
(* queue      commits waiting for drainNextCommit                          *)
(* fresh      the server session is a new one the client has not seen yet  *)
(* made       commits produced so far                                      *)
(* refused    the commits whose insertion the application refuses: a       *)
(*            commit is written once at most, so that the refusals are     *)
(*            chosen beforehand                                            *)
(* delivered  the commits written to a document, in the order of writing,  *)
(*            with 0 for one that could not be written                     *)
(* cleared    commits dropped by ImeEngine::clear                          *)
(* missed     commits handed to a document that could not take them        *)
(* gone       commits lost with their server session                       *)
Commits == 1..MaxCommits
Ime == [comp: Contexts \cup {NoContext}, shown: Preedits \cup {NoPreedit},
        win: Lists \cup {NoList},
        preedit: Preedits \cup {NoPreedit}, list: Lists \cup {NoList},
        queue: Seq(Commits \cup {0}), fresh: BOOLEAN, made: 0..MaxCommits,
        refused: SUBSET Commits, delivered: Seq(Commits \cup {0}),
        cleared: SUBSET Commits, missed: SUBSET Commits, gone: SUBSET Commits]

Texts(q) == {q[i] : i \in DOMAIN q} \ {0}
PanelEmpty(s) == s.preedit = NoPreedit /\ s.list = NoList

-----------------------------------------------------------------------------
(* The engine.  Reach(s) is any call that gets through: the first answer   *)
(* of a new server session replaces the cached panel by an empty one       *)
(* (PipeImeEngine::applySnapshot).                                         *)

Reach(s) ==
    IF up /\ s.fresh
    THEN [s EXCEPT !.preedit = NoPreedit, !.list = NoList, !.fresh = FALSE]
    ELSE s

clear(s) ==
    IF up
    THEN [s EXCEPT !.preedit = NoPreedit, !.list = NoList, !.fresh = FALSE,
                   !.queue = <<>>, !.cleared = @ \cup Texts(s.queue)]
    ELSE s

(* What one step of the engine may commit: nothing, a text, two texts, or  *)
(* an empty text before a real one.                                        *)
Emissions(s) ==
    {<<>>}
    \cup (IF s.made < MaxCommits THEN {<<s.made + 1>>} ELSE {})
    \cup (IF s.made + 1 < MaxCommits THEN {<<s.made + 1, s.made + 2>>} ELSE {})
    \cup (IF EmptyCommits /\ s.made < MaxCommits
          THEN {<<0, s.made + 1>>} ELSE {})

PushFront_Emit(s, q) ==
    [s EXCEPT !.queue = q \o @, !.made = @ + Cardinality(Texts(q))]

Emit(s, q) == [s EXCEPT !.queue = @ \o q, !.made = @ + Cardinality(Texts(q))]

(* A step after which the engine shows any panel and has committed some    *)
(* texts.                                                                  *)
AnyPanel(s) ==
    {[Emit(s, q) EXCEPT !.preedit = p, !.list = l] :
        q \in Emissions(s), p \in Preedits \cup {NoPreedit},
        l \in Lists \cup {NoList}}

(* A key the engine does not take leaves the panel alone, or makes the     *)
(* engine commit what was being typed and close the panel.                 *)
Declined(s) ==
    {s} \cup {[Emit(s, q) EXCEPT !.preedit = NoPreedit, !.list = NoList] :
                 q \in Emissions(s)}

(* A key or a pick given to the engine: its answer and the state after.    *)
engineKey(s0) ==
    LET s == Reach(s0) IN
    IF up THEN [s: AnyPanel(s), taken: {TRUE}] \cup [s: Declined(s), taken: {FALSE}]
          ELSE [s: {s}, taken: {FALSE}]

-----------------------------------------------------------------------------
(* The document and the window, inside an edit session on context c.  An   *)
(* edit cookie of one context does not write another: SetText on a         *)
(* composition left behind in another context fails, and its result is     *)
(* not looked at.                                                          *)

hideWindow(s) == [s EXCEPT !.win = NoList]

syncCandidateWindow(s) ==
    [s EXCEPT !.win = IF ctx = NoContext THEN NoList ELSE s.list]

updatePreeditText(s, c) ==
    IF s.comp = c THEN [s EXCEPT !.shown = s.preedit] ELSE s

OnlyInComposition_Writable(s, c, text) ==
    s.comp = c /\ text \notin s.refused

(* Whether endCompositionCommit's text reaches a document: SetText on the  *)
(* composition's range or, without one, ITfInsertAtSelection on the sink's *)
(* context, both of which the application may refuse.                      *)
Writable(s, c, text) ==
    /\ IF s.comp # NoContext THEN s.comp = c ELSE ctx # NoContext
    /\ text \notin s.refused

KeepsText_dropComposition(s) == [hideWindow(s) EXCEPT !.comp = NoContext]

KeepsWindow_dropComposition(s) ==
    [s EXCEPT !.comp = NoContext, !.shown = NoPreedit]

dropComposition(s) ==
    [hideWindow(s) EXCEPT !.comp = NoContext, !.shown = NoPreedit]

(* The texts of q committed one by one: the first one replaces the         *)
(* composition, the following ones are inserted at the selection.          *)
writeCommits(s, c, q) ==
    LET at(i) == IF i = 1 THEN s ELSE dropComposition(s)
        written == [i \in DOMAIN q |->
                       IF Writable(at(i), c, q[i]) THEN q[i] ELSE 0]
    IN  [dropComposition(s) EXCEPT
            !.delivered = @ \o written,
            !.missed = @ \cup (Texts(q) \ Texts(written))]

(* Committing a text of the panel (a candidate, the preedit, a symbol)     *)
(* instead of a text the engine committed: the engine is cleared.          *)
endCompositionCommit(s) == clear(dropComposition(s))

endCompositionCancel(s) == clear(dropComposition(s))

SkipsOne_drainCommitsAfterEngine(s0, c) ==
    LET s == Reach(s0)
        stops == {i \in DOMAIN s.queue : s.queue[i] = 0}
        n == IF stops = {} THEN Len(s.queue)
             ELSE (CHOOSE i \in stops : \A j \in stops : i <= j) - 1
        rest == SubSeq(s.queue, n + 3, Len(s.queue))
    IN  IF ~up THEN s
        ELSE IF n = 0 THEN [s EXCEPT !.queue = rest]
        ELSE [writeCommits(s, c, SubSeq(s.queue, 1, n)) EXCEPT !.queue = rest]

(* drainCommitsAfterEngine pops until drainNextCommit returns an empty     *)
(* text: the queue is empty, or the popped commit was an empty one.        *)
drainCommitsAfterEngine(s0, c) ==
    LET s == Reach(s0)
        stops == {i \in DOMAIN s.queue : s.queue[i] = 0}
        n == IF stops = {} THEN Len(s.queue)
             ELSE (CHOOSE i \in stops : \A j \in stops : i <= j) - 1
        rest == SubSeq(s.queue, n + 2, Len(s.queue))
    IN  IF ~up THEN s
        ELSE IF n = 0 THEN [s EXCEPT !.queue = rest]
        ELSE [writeCommits(s, c, SubSeq(s.queue, 1, n)) EXCEPT !.queue = rest]

ensureCompositionStarted(s, c) ==
    IF s.comp # NoContext THEN {s}
    ELSE {[s EXCEPT !.comp = c]} \cup (IF StartMayFail THEN {s} ELSE {})

DrainsLast_afterFcitxEngineKey(s, c) ==
    {drainCommitsAfterEngine(u, c) : u \in
        IF PanelEmpty(s)
        THEN {IF s.comp # NoContext THEN endCompositionCancel(s) ELSE s}
        ELSE {IF t.comp = NoContext THEN t
              ELSE syncCandidateWindow(updatePreeditText(t, c)) :
                 t \in ensureCompositionStarted(s, c)}}

afterFcitxEngineKey(s0, c) ==
    LET s == drainCommitsAfterEngine(s0, c) IN
    IF PanelEmpty(s)
    THEN {IF s.comp # NoContext THEN endCompositionCancel(s) ELSE s}
    ELSE {IF t.comp = NoContext THEN t
          ELSE syncCandidateWindow(updatePreeditText(t, c)) :
             t \in ensureCompositionStarted(s, c)}

-----------------------------------------------------------------------------
(* runKeyEditSession, one operator per kind of key.  Each is the set of    *)
(* outcomes [s, handled]; every path ends in a drain.                      *)

NoDrain_Outcomes(states, handled, c) ==
    {[s |-> t, handled |-> handled] : t \in states}

Outcomes(states, handled, c) ==
    {[s |-> drainCommitsAfterEngine(t, c), handled |-> handled] : t \in states}

(* Modifier hotkeys, input method hotkeys, Ctrl/Alt chords, letters and    *)
(* punctuation: claimed exactly when the engine took the key.              *)
deliverKey(s, c) ==
    UNION {IF r.taken THEN Outcomes(afterFcitxEngineKey(r.s, c), TRUE, c)
                      ELSE Outcomes({r.s}, FALSE, c) : r \in engineKey(s)}

(* A digit: the engine selects the candidate, or its cached text is        *)
(* committed.                                                              *)
digitKey(s, c) ==
    (UNION {Outcomes(afterFcitxEngineKey(r.s, c), TRUE, c) :
               r \in {e \in engineKey(s) : e.taken}})
    \cup Outcomes({endCompositionCommit(Reach(s))}, TRUE, c)
    \cup Outcomes({Reach(s)}, FALSE, c)       \* no candidate has that number

(* Space, and Return over a candidate list: a text the engine does not     *)
(* take as a key is committed from the panel, if the panel still has one.  *)
highlightKey(s, c) ==
    UNION {IF r.taken THEN Outcomes(afterFcitxEngineKey(r.s, c), TRUE, c)
           ELSE IF r.s.list = NoList THEN Outcomes({r.s}, FALSE, c)
           ELSE Outcomes({endCompositionCommit(r.s)}, TRUE, c) :
              r \in engineKey(s)}

(* Return over a bare preedit. *)
preeditKey(s, c) ==
    UNION {IF r.taken THEN Outcomes(afterFcitxEngineKey(r.s, c), TRUE, c)
           ELSE Outcomes({endCompositionCommit(r.s)}, TRUE, c) :
              r \in engineKey(s)}

(* Up and Down: a key the engine declined is sent to it once more by       *)
(* moveHighlight.                                                          *)
moveKey(s, c) ==
    UNION {IF r.taken THEN Outcomes(afterFcitxEngineKey(r.s, c), TRUE, c)
           ELSE Outcomes({syncCandidateWindow(t) : t \in
                             IF up THEN Declined(r.s) ELSE {r.s}}, TRUE, c) :
              r \in engineKey(s)}

IgnoresResult_backKey(s, c) ==
    UNION {
        IF r.s.preedit = NoPreedit
        THEN Outcomes({endCompositionCancel(r.s)}, TRUE, c)
        ELSE Outcomes({syncCandidateWindow(updatePreeditText(t, c)) :
                          t \in ensureCompositionStarted(r.s, c)}, TRUE, c) :
        r \in engineKey(s)}

(* Backspace: whatever the engine did with it, the document follows the    *)
(* panel; a composition that cannot be started is not noticed.             *)
backKey(s, c) ==
    IF ~up THEN Outcomes({s}, FALSE, c)
    ELSE UNION {
        IF r.s.preedit = NoPreedit
        THEN Outcomes({endCompositionCancel(r.s)}, TRUE, c)
        ELSE Outcomes({syncCandidateWindow(updatePreeditText(t, c)) :
                          t \in ensureCompositionStarted(r.s, c)}, TRUE, c) :
        r \in {e \in engineKey(s) : \/ BackMayCommit
                                   \/ e.s.preedit = NoPreedit
                                   \/ e.s.queue = s.queue}}

escapeKey(s, c) == Outcomes({endCompositionCancel(s)}, TRUE, c)

(* Shift and a digit: a symbol of its own when the engine declines. *)
symbolKey(s, c) ==
    UNION {IF r.taken THEN Outcomes(afterFcitxEngineKey(r.s, c), TRUE, c)
           ELSE Outcomes({endCompositionCommit(r.s)}, TRUE, c) :
              r \in engineKey(s)}

Keys == {"Deliver", "Digit", "Space", "Return", "Move", "Back", "Escape",
         "Symbol"}

(* What OnTestKeyDown answers and OnKeyDown asks first.  Delivered keys    *)
(* other than letters and punctuation are wanted in English mode too.      *)
keyWouldBeHandled(k, s) ==
    CASE k = "Deliver" -> TRUE
      [] k \in {"Digit", "Space", "Move"} -> chinese /\ s.list # NoList
      [] k = "Return" -> chinese /\ ~PanelEmpty(s)
      [] k = "Back" -> chinese /\ s.preedit # NoPreedit
      [] k = "Escape" -> chinese /\ (~PanelEmpty(s) \/ s.comp # NoContext)
      [] k = "Symbol" -> chinese

runKeyEditSession(k, s, c) ==
    CASE k = "Deliver" -> deliverKey(s, c)
      [] k = "Digit" -> digitKey(s, c)
      [] k = "Space" -> highlightKey(s, c)
      [] k = "Return" -> IF s.list # NoList THEN highlightKey(s, c)
                                            ELSE preeditKey(s, c)
      [] k = "Move" -> moveKey(s, c)
      [] k = "Back" -> backKey(s, c)
      [] k = "Escape" -> escapeKey(s, c)
      [] k = "Symbol" -> symbolKey(s, c)

(* The pick branch of DoEditSession. *)
pickSession(s, c) ==
    IF s.comp = NoContext \/ s.list = NoList THEN {s}
    ELSE {drainCommitsAfterEngine(t, c) : t \in
            {endCompositionCommit(s)}
            \cup UNION {afterFcitxEngineKey(r.s, c) :
                           r \in {e \in engineKey(s) : e.taken}}}

KeepsComposition_toggleSession(s, c) ==
    drainCommitsAfterEngine(
        syncCandidateWindow(IF chinese THEN clear(hideWindow(s)) ELSE s), c)

(* Chinese / English in an edit session, from Ctrl+Space, a Shift tap, the *)
(* tray or a compartment.                                                  *)
toggleSession(s, c) ==
    drainCommitsAfterEngine(
        syncCandidateWindow(IF chinese THEN endCompositionCancel(s) ELSE s), c)

(* Switching the input method: the engine is cleared before the switch,    *)
(* and a new input method that got no key shows nothing.                   *)
activateSession(s, c) ==
    drainCommitsAfterEngine(
        syncCandidateWindow(IF s.comp # NoContext THEN endCompositionCancel(s)
                                                  ELSE clear(hideWindow(s))), c)

(* What a status action (punctuation, full width, traditional characters)  *)
(* does to the engine: nothing visible, another candidate list, or the end *)
(* of what was being typed.                                                *)
activateTrayStatusAction(s) ==
    Declined(s) \cup (IF s.list = NoList THEN {}
                      ELSE {[s EXCEPT !.list = l] : l \in Lists})

-----------------------------------------------------------------------------
(* The callbacks. *)

Ops == Keys \cup {"Toggle", "none"}

(* A click is disturbed when the window was stale already, or when the     *)
(* tray or a new server session changes the panel while the click waits.   *)
Picks == [list: Lists, disturbed: BOOLEAN]
disturbed(p) == IF p = NoPick THEN p ELSE [p EXCEPT !.disturbed = TRUE]

Record(op, handled) == last' = [op |-> op, handled |-> handled, up |-> up]

Init ==
    /\ chinese = TRUE
    /\ ctx = NoContext
    /\ fallback = NoContext
    /\ pick = NoPick
    /\ up = TRUE
    /\ \E refused \in Refusals :
          ime = [comp |-> NoContext, shown |-> NoPreedit, win |-> NoList,
                 preedit |-> NoPreedit, list |-> NoList, queue |-> <<>>,
                 fresh |-> FALSE, made |-> 0, refused |-> refused,
                 delivered |-> <<>>, cleared |-> {}, missed |-> {}, gone |-> {}]
    /\ last = [op |-> "none", handled |-> FALSE, up |-> TRUE]

KeyFirst_KeySession(k, s) ==
    \/ /\ SessionMayFail
       /\ ime' = s
       /\ Record(k, FALSE)
       /\ UNCHANGED pick
    \/ /\ pick # NoPick
       /\ ime' \in pickSession(s, ctx)
       /\ pick' = NoPick
       /\ Record(k, FALSE)
    \/ /\ \E r \in runKeyEditSession(k, s, ctx) :
             ime' = r.s /\ Record(k, r.handled)
       /\ UNCHANGED pick

(* OnKeyDown: a pick left over from an earlier click is served instead of  *)
(* the key.  The key is then claimed by nobody.                            *)
KeySession(k, s) ==
    \/ /\ SessionMayFail
       /\ ime' = s
       /\ Record(k, FALSE)
       /\ UNCHANGED pick
    \/ /\ pick # NoPick
       /\ ime' \in pickSession(s, ctx)
       /\ pick' = NoPick
       /\ Record(k, FALSE)
    \/ /\ pick = NoPick
       /\ \E r \in runKeyEditSession(k, s, ctx) :
             ime' = r.s /\ Record(k, r.handled)
       /\ UNCHANGED pick

OnKeyDown(k) ==
    /\ ctx # NoContext
    /\ LET s == Reach(ime) IN
          \/ keyWouldBeHandled(k, s) /\ KeySession(k, s)
          \/ /\ ~keyWouldBeHandled(k, s)
             /\ ime' = s
             /\ Record(k, FALSE)
             /\ UNCHANGED pick
    /\ UNCHANGED <<chinese, ctx, fallback, up>>

(* The context a tray request gets a session on: the text edit sink's, or  *)
(* the last one that had a sink.                                           *)
trayContext == IF ctx # NoContext THEN ctx ELSE fallback

trayToggleChineseInEditSession ==
    /\ trayContext # NoContext
    /\ ime' = toggleSession(ime, trayContext)

(* No session: the document is not touched, the composition stays in it.   *)
trayToggleChineseWithoutContext ==
    /\ trayContext = NoContext \/ SessionMayFail
    /\ ime' = clear(hideWindow(ime))

langBarScheduleToggleChinese ==
    /\ \/ trayToggleChineseInEditSession /\ Record("Toggle", TRUE)
       \/ trayToggleChineseWithoutContext /\ Record("Toggle", FALSE)
    /\ chinese' = ~chinese
    /\ pick' = disturbed(pick)
    /\ UNCHANGED <<ctx, fallback, up>>

langBarScheduleActivateInputMethod(wantChinese) ==
    /\ \/ trayContext # NoContext /\ ime' = activateSession(ime, trayContext)
       \/ /\ trayContext = NoContext \/ SessionMayFail
          /\ ime' = clear(hideWindow(ime))
    /\ chinese' = wantChinese
    /\ pick' = disturbed(pick)
    /\ Record("none", FALSE)
    /\ UNCHANGED <<ctx, fallback, up>>

(* A status action from the tray: neither the window nor the composition   *)
(* is refreshed, and what the engine commits waits for the next drain.     *)
statusAction ==
    /\ ime' \in IF up THEN activateTrayStatusAction(Reach(ime)) ELSE {ime}
    /\ pick' = disturbed(pick)
    /\ Record("none", FALSE)
    /\ UNCHANGED <<chinese, ctx, fallback, up>>

(* The pick callback of the candidate window: the click is remembered even *)
(* when there is no context or the session is refused.                     *)
OnPick ==
    /\ ime.win # NoList
    /\ \/ /\ ctx = NoContext \/ SessionMayFail
          /\ pick' = [list |-> ime.win, disturbed |-> ime.win # ime.list]
          /\ UNCHANGED ime
       \/ /\ ctx # NoContext
          /\ ime' \in pickSession(ime, ctx)
          /\ pick' = NoPick
    /\ Record("none", FALSE)
    /\ UNCHANGED <<chinese, ctx, fallback, up>>

(* ITfThreadMgrEventSink::OnSetFocus -> initTextEditSink: only the sink    *)
(* moves; composition, window and panel are left as they are.              *)
OnSetFocus(c) ==
    /\ c # ctx
    /\ ctx' = c
    /\ fallback' = IF c # NoContext THEN c ELSE fallback
    /\ Record("none", FALSE)
    /\ UNCHANGED <<chinese, pick, up, ime>>

(* The application ends the composition (a click elsewhere, a focus loss). *)
OnCompositionTerminated ==
    /\ ime.comp # NoContext
    /\ ime' = endCompositionCancel(ime)
    /\ Record("none", FALSE)
    /\ UNCHANGED <<chinese, ctx, fallback, pick, up>>

Deactivate ==
    /\ ime' = endCompositionCancel(ime)
    /\ pick' = NoPick
    /\ ctx' = NoContext
    /\ fallback' = NoContext
    /\ Record("none", FALSE)
    /\ UNCHANGED <<chinese, up>>

(* The pipe server dies with its sessions; a later server starts new ones. *)
PipeBreaks ==
    /\ PipeMayFail /\ up
    /\ up' = FALSE
    /\ ime' = [ime EXCEPT !.queue = <<>>, !.gone = @ \cup Texts(ime.queue)]
    /\ last' = [op |-> "none", handled |-> FALSE, up |-> FALSE]
    /\ UNCHANGED <<chinese, ctx, fallback, pick>>

PipeReturns ==
    /\ ~up
    /\ up' = TRUE
    /\ ime' = [ime EXCEPT !.fresh = TRUE]
    /\ pick' = disturbed(pick)
    /\ last' = [op |-> "none", handled |-> FALSE, up |-> TRUE]
    /\ UNCHANGED <<chinese, ctx, fallback>>

Next ==
    \/ \E k \in Keys : OnKeyDown(k)
    \/ langBarScheduleToggleChinese
    \/ \E wantChinese \in BOOLEAN :
          langBarScheduleActivateInputMethod(wantChinese)
    \/ statusAction
    \/ OnPick
    \/ \E c \in Contexts \cup {NoContext} : OnSetFocus(c)
    \/ OnCompositionTerminated
    \/ Deactivate
    \/ PipeBreaks
    \/ PipeReturns

Spec == Init /\ [][Next]_vars

-----------------------------------------------------------------------------
(* Types; a composition's text goes with the composition, and the tray's   *)
(* fallback context is the one that has the sink while there is one.       *)
TypeOK ==
    /\ chinese \in BOOLEAN
    /\ ctx \in Contexts \cup {NoContext}
    /\ fallback \in Contexts \cup {NoContext}
    /\ ctx # NoContext => fallback = ctx
    /\ pick \in Picks \cup {NoPick}
    /\ up \in BOOLEAN
    /\ ime \in Ime
    /\ ime.comp = NoContext => ime.shown = NoPreedit
    /\ Texts(ime.queue) \cup Texts(ime.delivered) \subseteq 1..ime.made
    /\ last \in [op: Ops, handled: BOOLEAN, up: BOOLEAN]

(* Empty texts, which are nobody's commit, may stand anywhere.             *)
inOrder(q) == \A i, j \in DOMAIN q : i < j /\ q[j] # 0 => q[i] < q[j]

(* Commits reach the documents in the order the engine made them, none     *)
(* twice, and those still queued come after all of them, whichever         *)
(* sessions, refusals, empty commits and server losses come in between     *)
(* (drainCommitsAfterEngine, EditSession.cpp:902-917).                     *)
CommitsInOrder == inOrder(ime.delivered \o ime.queue)

(* Every commit the engine made has exactly one fate: written, still       *)
(* queued, cleared, given to a document that could not take it, or lost    *)
(* with its server session.                                                *)
CommitsHaveOneFate ==
    LET fates == <<Texts(ime.delivered), Texts(ime.queue), ime.cleared,
                   ime.missed, ime.gone>>
    IN  /\ 1..ime.made = UNION {fates[i] : i \in 1..5}
        /\ \A i, j \in 1..5 : i < j => fates[i] \cap fates[j] = {}

(* A commit is written whether or not there is a composition to write it   *)
(* in (TODO.md:59, EditSession.cpp:858-875): a document misses it only     *)
(* when the application refuses the insertion, when the composition was    *)
(* left behind in another context, or when there is no context at all.     *)
CommitNeedsNoComposition ==
    [][ime'.missed \subseteq ime.missed \cup ime.refused
       \/ ctx = NoContext \/ ime.comp \notin {NoContext, ctx}]_vars

(* A commit an engine makes while it handles a key is not cleared before   *)
(* it is written, on any path that starts with nothing queued, but for     *)
(* three: Backspace that empties the preedit, Return over a bare preedit   *)
(* and Shift with a digit, the last two when the engine declines the key   *)
(* (EditSession.cpp:1236-1239, 1306-1307, 1385-1389).                      *)
FreshCommitIsWritten ==
    [][ime.queue = <<>> /\ ime'.cleared # ime.cleared =>
         last'.op \in {"Back", "Return", "Symbol"}]_vars

(* A claimed key leaves nothing queued (EditSession.cpp: every branch of   *)
(* runKeyEditSession ends in a drain).                                     *)
HandledKeyDrains ==
    last.op \in Keys /\ last.handled => ime.queue = <<>>

(* After a claimed key the document and the window show the engine's       *)
(* panel: "Commit the old TSF composition first, then let                  *)
(* afterFcitxEngineKey() rebuild composition from the engine's current     *)
(* state" (EditSession.cpp:911-914).  Up and Down are exempt: resent by    *)
(* moveHighlight, they refresh the window only.                            *)
DocumentFollowsPanel ==
    /\ last.op \in Keys \ {"Move"} /\ last.handled
    /\ ime.comp \in {NoContext, ctx}
    => /\ ime.win = ime.list
       /\ IF ime.comp = NoContext THEN PanelEmpty(ime)
                                  ELSE ime.shown = ime.preedit

(* The candidate window is never up without a composition it belongs to:   *)
(* nothing else would take it down, since afterFcitxEngineKey closes the   *)
(* window of an empty panel only along with a composition                  *)
(* (EditSession.cpp:924-927) and a click in it would be ignored            *)
(* (EditSession.cpp:1485).                                                 *)
WindowHasComposition == ime.win # NoList => ime.comp # NoContext

(* A click on a candidate that could not be served at once is served, if   *)
(* ever, on the list that was clicked: a key never gets in before it       *)
(* (DoEditSession's order, EditSession.cpp:1482-1496), unless the tray or  *)
(* a new server session changed the panel behind the window.               *)
PickServedOnItsList ==
    [][/\ pick # NoPick /\ pick' = NoPick /\ last'.op \in Keys
       /\ ~pick.disturbed
       /\ ime.comp # NoContext /\ ime.list # NoList
       => pick.list = ime.list]_vars

(* Switching to English leaves no panel, no window and no queued commit    *)
(* of the Chinese mode behind, and no composition either when an edit      *)
(* session was granted (trayToggleChineseInEditSession and                 *)
(* trayToggleChineseWithoutContext).                                       *)
EnglishModeStartsClean ==
    last.op = "Toggle" /\ ~chinese /\ last.up =>
        /\ ime.win = NoList /\ PanelEmpty(ime) /\ ime.queue = <<>>
        /\ last.handled => ime.comp = NoContext

(* A letter or a Backspace that did not reach the engine is left to the    *)
(* application: "@return false if the operation did not reach the engine   *)
(* (e.g. pipe I/O failure); TSF must not claim the key was eaten in that   *)
(* case" (ImeEngine.h:50-51).                                              *)
UnreachedKeyNotEaten ==
    last.op \in {"Deliver", "Back"} /\ last.handled => last.up

=============================================================================
